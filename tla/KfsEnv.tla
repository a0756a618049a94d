------------------------------- MODULE KfsEnv -------------------------------
(***************************************************************************)
(* The variables of a running script (src/rt/kfs_lang_env.c over           *)
(* src/rt/kfs_dict.c).                                                     *)
(*                                                                         *)
(*   Dictionary  a function from the names it holds to values; an entry    *)
(*               can hold the NULL pointer.                                *)
(*   VarStack    a sequence of dictionaries, the innermost block last.     *)
(*   spaces      a sequence of VarStacks, one per active function call,    *)
(*               the running function last (varStackStack, whose list head *)
(*               is the last element here).                                *)
(***************************************************************************)
EXTENDS KfsValue, SequencesExt

CONSTANT Copy(_)     \* value_copy

EmptyDict == [name \in {} |-> Null]

\* dict_set in KFS_DICT_SET_NORMAL mode: overwrite or add.
dict_set(dict, name, data) ==
  [x \in DOMAIN dict \cup {name} |-> IF x = name THEN data ELSE dict[x]]

dict_get(dict, name) == IF name \in DOMAIN dict THEN dict[name] ELSE Null

\* The variables a new level starts with: a copy of every entry of an
\* Object, nothing for NULL or (with a message) for any other value.
variables_new(values) ==
  IF values.type = "Object"
  THEN [name \in DOMAIN values.o |-> Copy(values.o[name])]
  ELSE EmptyDict

\* The innermost level whose entry is not NULL decides.
var_stack_get(vs, name) ==
  LET hits == {k \in DOMAIN vs : dict_get(vs[k], name) # Null}
  IN  IF hits = {} THEN Null ELSE dict_get(vs[Max(hits)], name)

\* Mutations: an assignment always makes a variable of the innermost block;
\* one to a new name makes a variable of the whole function.
AssignedLevel_Innermost(vs, name) == Len(vs)
AssignedLevel_Outermost(vs, name) ==
  LET holders == {k \in DOMAIN vs : name \in DOMAIN vs[k]}
  IN  IF holders = {} THEN 1 ELSE Max(holders)

\* The level an assignment writes to: the innermost that has an entry of
\* the name (a NULL entry counts here), or the innermost of all.
AssignedLevel(vs, name) ==
  LET holders == {k \in DOMAIN vs : name \in DOMAIN vs[k]}
  IN  IF holders = {} THEN Len(vs) ELSE Max(holders)

var_stack_set(vs, name, value) ==
  [vs EXCEPT ![AssignedLevel(vs, name)] = dict_set(@, name, value)]

\* The value an assignment overwrites, which dict_set frees; NULL if none.
Overwritten(vs, name) ==
  IF vs = <<>> THEN Null ELSE dict_get(vs[AssignedLevel(vs, name)], name)

\* The space of the function that runs.
kfs_lang_env_actual_space(spaces) == spaces[Len(spaces)]

kfs_lang_env_add_space(spaces, values) ==
  Append(spaces, <<variables_new(values)>>)

kfs_lang_env_remove_space(spaces) ==
  IF spaces = <<>> THEN spaces ELSE Front(spaces)

kfs_lang_env_space_add_vars(spaces) ==
  [spaces EXCEPT ![Len(spaces)] = Append(@, EmptyDict)]

kfs_lang_env_space_del_vars(spaces) ==
  [spaces EXCEPT ![Len(spaces)] = IF @ = <<>> THEN @ ELSE Front(@)]

kfs_lang_get_var(spaces, name) ==
  LET found == var_stack_get(kfs_lang_env_actual_space(spaces), name)
  IN  IF found = Null THEN value_new("Empty") ELSE found

\* Mutation: a name that the caller has and the function has not is the
\* caller's, as under dynamic scoping.
kfs_lang_set_var_Dynamic(spaces, name, value) ==
  LET holders == {i \in DOMAIN spaces : var_stack_get(spaces[i], name) # Null}
      target == IF holders = {} THEN Len(spaces) ELSE Max(holders)
  IN  [spaces EXCEPT ![target] = var_stack_set(@, name, value)]

kfs_lang_set_var(spaces, name, value) ==
  [spaces EXCEPT ![Len(spaces)] = var_stack_set(@, name, value)]

=============================================================================
