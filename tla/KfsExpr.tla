------------------------------ MODULE KfsExpr -------------------------------
(***************************************************************************)
(* Expression trees as src/parser.y builds them with the constructors of   *)
(* src/rt/expression.c.  A node is a record with the OperationType and     *)
(* only those fields of the C struct that its constructor sets.            *)
(***************************************************************************)
EXTENDS Integers, Sequences

\* A NULL child, such as the missing branch of an "if" without "else".
NoExpr == [type |-> "NULL"]

expression_create_integer(n) == [type |-> "eIntVALUE", lValue |-> n]
expression_create_double == [type |-> "eDoubleVALUE"]
expression_create_bool(b) == [type |-> "eBoolVALUE", lValue |-> b]

\* A literal is an object of its own in memory: "id" tells its occurrences
\* apart, "str" is the text between the quotes.
expression_create_string(id, str) ==
  [type |-> "eStringVALUE", id |-> id, str |-> str]

expression_create_list(items) == [type |-> "eListVALUE", list |-> items]

expression_create_binary_operation(type, left, right) ==
  [type |-> type, left |-> left, right |-> right]
expression_create_dot_operation(left, name) ==
  [type |-> "eDOT", left |-> left, str |-> name]
expression_create_variable(name) == [type |-> "eVAR", str |-> name]
expression_create_variable_assign(name, value) ==
  [type |-> "eASSIGN_VAR", left |-> value, str |-> name]
expression_create_variable_empty(name) == [type |-> "eSET_EMPTY", str |-> name]
expression_create_is_empty(name) == [type |-> "eIS_EMPTY", str |-> name]
expression_create_new_block(block) == [type |-> "eBLOCK", left |-> block]
expression_create_if(query, blockTrue, blockFalse) ==
  [type |-> "eIF", next |-> query, right |-> blockTrue, left |-> blockFalse]
expression_create_while(query, block) ==
  [type |-> "eWHILE", next |-> query, right |-> block]
expression_create_break == [type |-> "eBREAK"]
expression_create_continue == [type |-> "eCONTI"]
expression_create_dump == [type |-> "eDUMP"]

\* print, json, eval, readfile and return: one operand, named by the type.
OneOperand(type, expr) == [type |-> type, left |-> expr]

expression_create_function(name, body) ==
  [type |-> "eFUNCTION_DEF", str |-> name, left |-> body]
expression_create_function_call(name, args) ==
  [type |-> "eFUNCTION_CALL", str |-> name, left |-> args]

\* An object literal is the sequence of its entries in the order of the
\* dictionary; a name that is already there keeps its place (dict_set).
expression_create_object(entries) == [type |-> "eObjectVALUE", object |-> entries]
expression_add_object_item(obj, name, value) ==
  LET old == obj.object
      entry == [name |-> name, data |-> value]
  IN  expression_create_object(
        IF \E k \in DOMAIN old : old[k].name = name
        THEN [k \in DOMAIN old |-> IF old[k].name = name THEN entry ELSE old[k]]
        ELSE Append(old, entry))

\* A list of exactly one item is replaced by the item.
expression_delist(item) ==
  IF item.type = "eListVALUE" /\ Len(item.list) = 1 THEN item.list[1] ELSE item

=============================================================================
