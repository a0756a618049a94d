------------------------------ MODULE KfsValue ------------------------------
(***************************************************************************)
(* The values of the script language (src/rt/value.h, src/rt/value.c): the *)
(* constructors and the accessors that look at one cell only.  A Value is  *)
(* a record whose field "type" is the ValueType of the C struct and which  *)
(* carries only the field of the struct that the type gives a meaning to:  *)
(*    i  iValue of Int and Bool        s  sValue of String                 *)
(*    l  listValue of List, FC_Return  o  oValue of Object                 *)
(* The payload of a Double is abstracted away.                             *)
(***************************************************************************)
EXTENDS Integers, Sequences

\* An int holds -IntHalf .. IntHalf - 1 (2^31 in the builds of the code).
CONSTANT IntHalf
ASSUME IntHalfAssumption == IntHalf \in Nat \ {0}

\* What is left of an integer result in an int.
Wrap(n) == ((n + IntHalf) % (2 * IntHalf)) - IntHalf

\* The NULL pointer where the code passes a Value pointer.
Null == [type |-> "NULL"]

\* What an operation "returns" when it dereferences NULL or reads an
\* uninitialised field, and the process cannot be said to continue.
Wild == [type |-> "WILD"]

value_new(type) == [type |-> type]
value_new_int(n) == [type |-> "Int", i |-> n]
value_new_double == [type |-> "Double"]
value_new_bool(b) == [type |-> "Bool", i |-> IF b THEN 1 ELSE 0]
value_new_string(s) == [type |-> "String", s |-> s]
value_new_list(l) == [type |-> "List", l |-> l]
value_new_object(o) == [type |-> "Object", o |-> o]

\* The value of "return": a List whose type field was overwritten.
FCReturn(l) == [type |-> "FC_Return", l |-> l]

\* Mutation: "return" is not one of them.
IsFC_LoopsOnly(v) == v.type \in {"FC_Break", "FC_Conti"}

\* The flow-control values that a command list stops at.
IsFC(v) == v.type \in {"FC_Break", "FC_Conti", "FC_Return"}

\* Appending to a list: a NULL item is skipped.
value_list_add(l, v) == IF v = Null THEN l ELSE Append(l, v)

\* The item at a zero-based index; NULL out of bounds.
value_list_get(list, index) ==
  IF list.type = "List" /\ index >= 0 /\ index < Len(list.l)
  THEN list.l[index + 1]
  ELSE Null

\* The entry of an object: NULL if the name is absent, or bound to NULL.
value_object_get(obj, name) ==
  IF obj.type = "Object" /\ name \in DOMAIN obj.o THEN obj.o[name] ELSE Null

\* A list of exactly one item is replaced by the item.
value_delist(v) == IF v.type = "List" /\ Len(v.l) = 1 THEN v.l[1] ELSE v

\* Mutation: the hack is not removed.
ReturnedValue_Kept(v) == v

\* "remove hack": a returned FC_Return becomes the List it was made from.
ReturnedValue(v) == IF v.type = "FC_Return" THEN value_new_list(v.l) ELSE v

=============================================================================
