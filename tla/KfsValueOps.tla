----------------------------- MODULE KfsValueOps ----------------------------
(***************************************************************************)
(* The operations on whole values: copying, freeing and printing           *)
(* (src/rt/value.c) and the operators of the language (src/rt/value_ops.c).*)
(*                                                                         *)
(* An operator yields the SET of its outcomes.  It has more than one when  *)
(* the result depends on the payload of a Double or on a variable the code *)
(* reads before setting it; Wild stands for a dereference of NULL or of an *)
(* uninitialised pointer and for a trap of the processor, and Null for the *)
(* NULL that the code returns when the types do not fit.                   *)
(***************************************************************************)
EXTENDS KfsValue, SequencesExt, FiniteSetsExt
LOCAL INSTANCE Bitwise

-----------------------------------------------------------------------------
(* value.c *)

\* A copy is faithful except for a Bool, which becomes an Int, and for a
\* FC_Return, which loses its items.
RECURSIVE value_copy(_)
value_copy(v) ==
  CASE v.type = "Bool" -> value_new_int(v.i)
    [] v.type = "List" ->
         value_new_list([k \in DOMAIN v.l |-> value_copy(v.l[k])])
    [] v.type = "Object" ->
         value_new_object([name \in DOMAIN v.o |-> value_copy(v.o[name])])
    [] v.type = "FC_Return" -> FCReturn(<<>>)
    [] OTHER -> v

\* The number of Value cells that v consists of.
RECURSIVE Cells(_)
Cells(v) ==
  CASE v = Null -> 0
    [] v.type \in {"List", "FC_Return"} ->
         1 + FoldSet(LAMBDA k, sum : sum + Cells(v.l[k]), 0, DOMAIN v.l)
    [] v.type = "Object" ->
         1 + FoldSet(LAMBDA name, sum : sum + Cells(v.o[name]), 0, DOMAIN v.o)
    [] OTHER -> 1

\* How many of them value_delete frees: it looks into List and Object only.
value_delete(v) == IF v.type = "FC_Return" THEN 1 ELSE Cells(v)

RECURSIVE Digits(_)
Digits(n) ==
  CASE n < 0 -> <<"-">> \o Digits(-n)
    [] n \in 0 .. 9 -> <<ToString(n)>>
    [] OTHER -> Append(Digits(n \div 10), ToString(n % 10))

\* The text of a value, as the sequence of its pieces.  (Entries of an
\* object come out in an order that is fixed but not the code's.)
RECURSIVE value_to_string(_, _)
value_to_string(v, quoted) ==
  CASE v.type = "Int" -> Digits(v.i)
    [] v.type = "Double" -> <<"%lf">>
    [] v.type = "Bool" -> <<IF v.i # 0 THEN "true" ELSE "false">>
    [] v.type = "String" ->
         IF quoted THEN <<"'">> \o v.s \o <<"'">> ELSE v.s
    [] v.type = "Empty" -> <<>>
    [] v.type = "List" ->
         <<"[">> \o FlattenSeq([k \in DOMAIN v.l |->
                      value_to_string(v.l[k], TRUE)]) \o <<"]">>
    [] v.type = "Object" ->
         LET names == SetToSeq(DOMAIN v.o)
         IN  <<"{">> \o FlattenSeq([k \in DOMAIN names |->
               <<names[k]>> \o value_to_string(v.o[names[k]], TRUE)]) \o <<"}">>
    [] OTHER -> <<v.type>>

-----------------------------------------------------------------------------
(* value_ops.c *)

\* left is dereferenced always, right only after a left of a type in looks.
Deref(left, right, looks, outcomes) ==
  IF left = Null \/ (right = Null /\ left.type \in looks)
  THEN {Wild} ELSE outcomes

Ints(left, right) == left.type = "Int" /\ right.type = "Int"
Bools(left, right) == left.type = "Bool" /\ right.type = "Bool"
Strings(left, right) == left.type = "String" /\ right.type = "String"
Numbers(left, right) == {left.type, right.type} \subseteq {"Int", "Double"}

\* What + - * / share: Empty is neutral on both sides, a Double on either
\* side makes a Double.
Arith(left, right, ints) ==
  CASE left.type = "Empty" -> {value_copy(right)}
    [] left.type \in {"Int", "Double"} /\ right.type = "Empty" ->
         {value_copy(left)}
    [] Ints(left, right) -> ints
    [] Numbers(left, right) /\ ~Ints(left, right) -> {value_new_double}
    [] OTHER -> {Null}

\* C's division truncates towards zero.
Quotient(a, b) ==
  LET Magnitude(n) == IF n < 0 THEN -n ELSE n
      q == Magnitude(a) \div Magnitude(b)
  IN  IF (a < 0) = (b < 0) THEN q ELSE -q

\* Zero divisors trap, and so does the one quotient that does not fit.
Traps(a, b) == b = 0 \/ (a = -IntHalf /\ b = -1)

\* Bool + String measures the sValue that a Bool has not, and prints the
\* iValue that a String has not.
value_plus(left, right) ==
  Deref(left, right, {"Int", "Double", "Bool", "String"},
    CASE left.type \in {"Bool", "String"} /\ right.type = "Empty" ->
           {value_copy(left)}
      [] Bools(left, right) -> {value_new_bool(left.i # 0 \/ right.i # 0)}
      [] left.type = "Bool" /\ right.type = "String" ->
           {Wild} \cup {value_new_string(<<text>> \o right.s) : text \in {"true", "false"}}
      [] left.type = "String" /\ right.type # "Empty" ->
           {value_new_string(left.s \o value_to_string(right, FALSE))}
      [] left.type \in {"Int", "Double"} /\ right.type = "String" ->
           {value_new_string(value_to_string(left, FALSE) \o right.s)}
      [] OTHER -> Arith(left, right,
                        IF Ints(left, right)
                        THEN {value_new_int(Wrap(left.i + right.i))} ELSE {}))

value_minus(left, right) ==
  Deref(left, right, {"Int", "Double"},
    Arith(left, right, IF Ints(left, right)
                       THEN {value_new_int(Wrap(left.i - right.i))} ELSE {}))

value_mul(left, right) ==
  Deref(left, right, {"Int", "Double", "Bool"},
    IF Bools(left, right)
    THEN {value_new_bool(left.i # 0 /\ right.i # 0)}
    ELSE Arith(left, right, IF Ints(left, right)
                            THEN {value_new_int(Wrap(left.i * right.i))} ELSE {}))

value_divide(left, right) ==
  Deref(left, right, {"Int", "Double"},
    Arith(left, right,
      CASE ~Ints(left, right) -> {}
        [] Ints(left, right) /\ Traps(left.i, right.i) -> {Wild}
        [] OTHER -> {value_new_int(Quotient(left.i, right.i))}))

\* "power" is the exclusive or of the two ints.
value_power(left, right) ==
  Deref(left, right, {"Int"},
    IF Ints(left, right)
    THEN {value_new_int(Wrap((left.i % (2 * IntHalf)) ^^ (right.i % (2 * IntHalf))))}
    ELSE {Null})

value_mod(left, right) ==
  Deref(left, right, {"Int"},
    CASE ~Ints(left, right) -> {Null}
      [] Ints(left, right) /\ Traps(left.i, right.i) -> {Wild}
      [] OTHER -> {value_new_int(left.i - right.i * Quotient(left.i, right.i))})

\* A comparison of two numbers; a Double may compare either way.
Compare(left, right, Holds(_, _)) ==
  Deref(left, right, {"Int", "Double"},
    CASE Ints(left, right) -> {value_new_bool(Holds(left.i, right.i))}
      [] Numbers(left, right) /\ ~Ints(left, right) ->
           {value_new_bool(b) : b \in BOOLEAN}
      [] OTHER -> {Null})

value_lt(left, right) == Compare(left, right, LAMBDA a, b : a < b)
value_le(left, right) == Compare(left, right, LAMBDA a, b : a <= b)
value_gt(left, right) == Compare(left, right, LAMBDA a, b : a > b)
value_ge(left, right) == Compare(left, right, LAMBDA a, b : a >= b)

RECURSIVE value_eq(_, _)
RECURSIVE EqItems(_, _, _)

\* Mutation: the longer list is not looked at to its end.
EqItems_Prefix(left, right, eq) ==
  IF left = <<>> \/ right = <<>> THEN {value_new_bool(eq)}
  ELSE UNION { CASE v \in {Null, Wild} -> {Wild}
                 [] v.type = "Bool" /\ v.i = 0 -> {value_new_bool(FALSE)}
                 [] OTHER -> EqItems(Tail(left), Tail(right), TRUE) :
               v \in value_eq(Head(left), Head(right)) }

\* The items pairwise, eq being the outcome for the pair before these: the
\* code starts with 0, so that two empty lists are not equal.
EqItems(left, right, eq) ==
  IF left = <<>> \/ right = <<>>
  THEN {value_new_bool(eq /\ left = right)}
  ELSE UNION { CASE v \in {Null, Wild} -> {Wild}
                 [] v.type = "Bool" /\ v.i = 0 -> {value_new_bool(FALSE)}
                 [] OTHER -> EqItems(Tail(left), Tail(right), TRUE) :
               v \in value_eq(Head(left), Head(right)) }

\* Entries are compared until one differs.  With no entry to compare the
\* result is the initial value of a variable that is never set.
EqEntries(left, right) ==
  LET Entry(name) ==
        IF name \notin DOMAIN right \/ right[name] = Null
        THEN {value_new_bool(FALSE)}
        ELSE {IF v = Null THEN Wild ELSE v : v \in value_eq(left[name], right[name])}
      equal == value_new_bool(TRUE)
  IN  CASE Cardinality(DOMAIN left) # Cardinality(DOMAIN right) ->
             {value_new_bool(FALSE)}
        [] DOMAIN left = {} /\ DOMAIN right = {} ->
             {value_new_bool(b) : b \in BOOLEAN}
        [] OTHER ->
             ((UNION {Entry(name) : name \in DOMAIN left}) \ {equal})
             \cup {v \in {equal} : \A name \in DOMAIN left : v \in Entry(name)}

value_eq(left, right) ==
  Deref(left, right, {"Int", "Double", "Bool", "String", "List", "Object"},
    CASE Bools(left, right) -> {value_new_bool(left.i = right.i)}
      [] Strings(left, right) -> {value_new_bool(left.s = right.s)}
      [] left.type = "List" /\ right.type = "List" ->
           EqItems(left.l, right.l, FALSE)
      [] left.type = "Object" /\ right.type = "Object" ->
           EqEntries(left.o, right.o)
      [] OTHER -> Compare(left, right, LAMBDA a, b : a = b))

value_ne(left, right) ==
  {IF v \in {Null, Wild} THEN v ELSE value_new_bool(v.i = 0) :
     v \in value_eq(left, right)}

value_and(left, right) ==
  Deref(left, right, {"Bool"},
    IF Bools(left, right)
    THEN {value_new_bool(left.i # 0 /\ right.i # 0)} ELSE {Null})

value_or(left, right) ==
  Deref(left, right, {"Bool"},
    IF Bools(left, right)
    THEN {value_new_bool(left.i # 0 \/ right.i # 0)} ELSE {Null})

value_not(left) ==
  CASE left = Null -> Wild
    [] left.type = "Bool" -> value_new_bool(left.i = 0)
    [] OTHER -> Null

\* The operator that an operation type stands for.
BinaryOp(type, left, right) ==
  CASE type = "eADD" -> value_plus(left, right)
    [] type = "eMINUS" -> value_minus(left, right)
    [] type = "eMULTIPLY" -> value_mul(left, right)
    [] type = "eDIVIDE" -> value_divide(left, right)
    [] type = "eMODULO" -> value_mod(left, right)
    [] type = "ePOWER" -> value_power(left, right)
    [] type = "eLT" -> value_lt(left, right)
    [] type = "eLE" -> value_le(left, right)
    [] type = "eGT" -> value_gt(left, right)
    [] type = "eGE" -> value_ge(left, right)
    [] type = "eEQ" -> value_eq(left, right)
    [] type = "eNE" -> value_ne(left, right)
    [] type = "eAND" -> value_and(left, right)
    [] type = "eOR" -> value_or(left, right)

=============================================================================
