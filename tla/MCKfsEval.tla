----------------------------- MODULE MCKfsEval ------------------------------
(***************************************************************************)
(* Scripts for the interpreter, written with the constructors the parser   *)
(* uses, and the values the configurations give to its constants.          *)
(***************************************************************************)
EXTENDS KfsEvalSafety, KfsGrammar, KfsValueOps

-----------------------------------------------------------------------------
(* The grammar of src/parser.y in short                                    *)

Num(n) == expression_create_integer(n)
TrueE == expression_create_bool(TRUE)
FalseE == expression_create_bool(FALSE)
Var(name) == expression_create_variable(name)
Bin(type, left, right) == expression_create_binary_operation(type, left, right)
Plus(left, right) == Bin("eADD", left, right)
Minus(left, right) == Bin("eMINUS", left, right)
Less(left, right) == Bin("eLT", left, right)
Greater(left, right) == Bin("eGT", left, right)
At(list, index) == Bin("eARRAY_ACCESS", list, index)
Dot(obj, name) == expression_create_dot_operation(obj, name)
ListOf(items) == expression_create_list(items)
Commands(list) == expression_delist(ListOf(list))                   \* inpt
Block(list) == expression_create_new_block(Commands(list))          \* { ... }
Set(name, value) == expression_create_variable_assign(name, value)
If(query, then) == expression_create_if(query, then, NoExpr)
IfElse(query, then, else) == expression_create_if(query, then, else)
While(query, body) == expression_create_while(query, body)
Return(items) == OneOperand("eRETURN", ListOf(items))
Show(value) == OneOperand("ePRINT", value)
ToInt(value) == OneOperand("eINT", value)
Function(name, body) == expression_create_function(name, Commands(body))
Entry(obj, name, value) == expression_add_object_item(obj, name, value)
NoArgs == expression_create_object(<<>>)
Arg(name, value) == Entry(NoArgs, name, value)
Call(name, args) == expression_create_function_call(name, args)
IsEmpty(name) == expression_create_is_empty(name)
Break == expression_create_break
Continue == expression_create_continue

MCParseError == [type |-> "a script with a syntax error"]

-----------------------------------------------------------------------------
(* The scripts of src/test/test.c and the values it expects                *)

Pr == expression_create_string("pr", <<"p", "r">>)
D == expression_create_string("d", <<"d">>)

\* A text with a {{NAME}} in it, between double and between single quotes.
WithName == <<"{", "{", "n", "}", "}">>
InDouble == expression_create_string("in double quotes", WithName)
InSingle == expression_create_string("in single quotes", WithName)
MCLiteralIds == {"pr", "d", "in double quotes", "in single quotes"}

N(n) == {value_new_int(n)}
B(b) == {value_new_bool(b)}
L(items) == {value_new_list(items)}
Doubles == {value_new_double}

\* c = 2; return a+c, a, c;
MultiReturn == <<Set("c", Num(2)),
                 Return(<<Plus(Var("a"), Var("c")), Var("a"), Var("c")>>)>>

\* if (empty(c)) c = 11; c = c+2; return a+c, a, c;
\* Without braces the branch takes in all the commands that follow.
EmptyVar == <<If(IsEmpty("c"),
                 Commands(<<Set("c", Num(11)), Set("c", Plus(Var("c"), Num(2))),
                   Return(<<Plus(Var("a"), Var("c")), Var("a"), Var("c")>>)>>))>>

\* a = 5; b = 0; while (a > 0) {b = b+a; a = a-1; ...} return b;
Cycle(more) ==
  <<Set("a", Num(5)), Set("b", Num(0)),
    While(Greater(Var("a"), Num(0)),
          Block(<<Set("b", Plus(Var("b"), Var("a"))),
                  Set("a", Minus(Var("a"), Num(1)))>> \o more)),
    Return(<<Var("b")>>)>>

\* {a : [2.0]} and { a : 1 ; b: 12.0/3.1; c : (12+4)}
InnerObject == Arg("a", ListOf(<<expression_create_double>>))
ThreeNames == Entry(Entry(Arg("a", Num(1)), "b",
                          Bin("eDIVIDE", expression_create_double,
                                         expression_create_double)),
                    "c", Plus(Num(12), Num(4)))

\* A test: the script and the set of values it may end with.  That of test.c:113 is
\* not among them: it expects {{NAME}} in double quotes to be replaced, which the
\* build modelled does not do (see KfsEval).
Tests == {
  <<Commands(<<ListOf(<<>>)>>), L(<<>>)>>,
  <<ListOf(<<ListOf(<<ListOf(<<>>)>>), ListOf(<<>>)>>),
    L(<<value_new_list(<<value_new_list(<<>>)>>), value_new_list(<<>>)>>)>>,
  <<Commands(<<Num(1)>>), N(1)>>,
  <<ListOf(<<Num(1), Num(2)>>), L(<<value_new_int(1), value_new_int(2)>>)>>,
  <<TrueE, B(TRUE)>>,
  <<FalseE, B(FALSE)>>,
  <<Bin("eAND", Bin("eNE", Num(5), Num(3)), Greater(Num(3), Minus(Num(2), Num(5)))),
    B(TRUE)>>,
  <<Bin("eLE", Num(3), Plus(Num(2), Num(1))), B(TRUE)>>,
  <<Dot(ThreeNames, "b"), Doubles>>,
  <<At(ListOf(<<expression_create_double, expression_create_double>>), Num(1)),
    Doubles>>,
  <<ToInt(Minus(At(Dot(At(ListOf(<<expression_create_double, InnerObject>>), Num(1)),
                     "a"), Num(0)), Num(2))), {value_new_int(n) : n \in DoubleInts}>>,
  <<Plus(Pr, D), {value_new_string(<<"p", "r", "d">>)}>>,
  <<InSingle, {value_new_string(WithName)}>>,
  <<Set("a", Num(1)), N(1)>>,
  <<IfElse(FalseE, Set("b", Num(2)), Set("b", Num(3))), N(3)>>,
  <<IfElse(TrueE, Set("b", Num(2)), Set("b", Num(3))), N(2)>>,
  <<Commands(<<Set("a", Num(1)), Set("n", Num(2)),
               Return(<<Plus(Var("a"), Var("n"))>>)>>), N(3)>>,
  <<Block(<<Set("a", Num(1)), Set("n", Num(2))>>),
    L(<<value_new_int(1), value_new_int(2)>>)>>,
  <<Commands(<<Set("a", Num(12)),
               IfElse(TrueE, Block(<<Set("a", Num(2))>>), Block(<<Set("a", Num(3))>>)),
               Set("c", Plus(Num(1), Var("a"))),
               Return(<<Plus(Var("a"), Num(12))>>)>>), N(14)>>,
  <<Commands(Cycle(<<>>)), N(15)>>,
  <<Commands(Cycle(<<If(Less(Var("a"), Num(3)), Block(<<Break>>))>>)), N(12)>>,
  <<Commands(<<Set("a", Num(1)),
               Function("pako", <<Return(<<Plus(Var("a"), Num(5))>>)>>),
               Set("b", Call("pako", Arg("a", Num(5)))),
               Return(<<Var("b")>>)>>), N(10)>>,
  <<Commands(<<Function("pako", MultiReturn),
               Set("b", Call("pako", Arg("a", Num(4)))),
               Return(<<At(Var("b"), Num(0))>>)>>), N(6)>>,
  <<Commands(<<Function("pako", EmptyVar),
               Return(<<At(Call("pako", Arg("a", Num(18))), Num(0))>>)>>), N(31)>> }

\* The scripts that are run, but not for a value: the one of test.c:103, of which none
\* is expected, and the one of test.c:113.
RunOnly == {ThreeNames, InDouble}

\* A body whose last value is missing, and a script that has none.
MissingValueScripts ==
  {<<Show(Num(1))>>, <<While(TrueE, Show(Num(1)))>>}

\* test.c runs them all in one environment: every pair, with a syntax error
\* between the two.
TestScripts ==
  LET tested == RunOnly \cup {t[1] : t \in Tests}
  IN  {<<s, MCParseError, t>> : s \in tested, t \in tested} \cup MissingValueScripts

\* Whatever ran before in the same environment, every script of test.c but that of
\* test.c:113 ends with the value that test.c expects of it.
ResultsAsTested ==
  \A k \in DOMAIN results : \A t \in Tests :
    t[1] = scripts[k] => results[k] \in t[2]

-----------------------------------------------------------------------------
(* Generated scripts: all short command lists, in every place where the    *)
(* grammar allows one, each after a script that defines what they use      *)

\* f assigns its parameter, a name its caller may have, and leaves from
\* within a loop and a block; g does not return and calls f.
F == Function("f", <<Set("x", Plus(Var("p"), Num(1))),
                     While(TrueE, Block(<<Set("y", Num(7)),
                       If(TrueE, Block(<<Return(<<Var("x")>>)>>))>>))>>)
G == Function("g", <<Set("y", Call("f", Arg("p", Num(4)))), Set("p", Num(0))>>)
Library == Commands(<<F, G, Set("x", Num(1))>>)

Simple == {
  Set("x", Plus(Call("f", Arg("p", Num(2))), Var("x"))),
  Set("y", Call("g", NoArgs)),
  Set("z", Plus(Var("z"), Num(1))),
  If(IsEmpty("z"), Block(<<Set("z", Num(2)), Set("x", TrueE)>>)),
  IfElse(Var("x"), Set("z", Num(3)), Block(<<Set("y", D)>>)),
  Show(Var("z")) }

Leaving == {Break, Continue, Return(<<Var("x")>>), Return(<<>>),
            If(Greater(Num(2), Num(1)), Block(<<Set("q", Num(1)), Break>>))}

Bodies == {<<c, d>> : c \in Simple, d \in Simple \cup Leaving}
          \cup {<<c, d>> : c \in Leaving, d \in Simple}

\* n = 2; while (n > 0) { n = n-1; ... } ...
Loop(body) == <<Set("n", Num(2)),
                While(Greater(Var("n"), Num(0)),
                      Block(<<Set("n", Minus(Var("n"), Num(1)))>> \o body)),
                Set("z", Var("n"))>>

\* The test "test-dump" of CMakeLists.txt: variables live on with main.
DumpTest ==
  LET Extend(n) == Commands(<<Set("a", Plus(Bin("eMULTIPLY", Var("a"), Num(100)), Num(n)))>>)
      Dump == Commands(<<expression_create_dump>>)
  IN  <<Commands(<<Set("a", Num(1))>>), Dump, Extend(2), Dump, Extend(3),
        Commands(<<Return(<<Bin("eEQ", Var("a"), Num(10203))>>)>>),
        Commands(<<expression_create_dump, Show(Var("a"))>>)>>

\* The test runs through, and what "return a==10203" yields is true.
DumpTestAsExpected ==
  scripts = DumpTest =>
    /\ phase # "crashed"
    /\ Len(results) >= 6 => results[6] = value_new_bool(TRUE)

GeneratedScripts ==
  {DumpTest}
  \cup {<<Library, Commands(body)>> : body \in {<<c, d>> : c \in Simple, d \in Simple}}
  \cup {<<Library, Commands(Loop(body))>> : body \in Bodies}
  \cup {<<Library, Commands(<<Function("h", Loop(<<If(TrueE, Block(body))>>)),
                              Set("x", Plus(Call("h", NoArgs), Num(1)))>>)>> :
          body \in Bodies}

-----------------------------------------------------------------------------
(* Every kind of expression, applied to every kind of value                *)

Kinds == {Num(2), TrueE, D, expression_create_double, ListOf(<<>>),
          ListOf(<<Num(1), FalseE>>), NoArgs, Arg("k", Num(3)), Var("unset"),
          Call("noValue", NoArgs), Call("breaks", NoArgs),
          Call("unknown", Arg("k", Num(1)))}

AppliedTo(e) ==
  {Bin(type, e, NoExpr) : type \in {"eNOT", "eUNARY_MINUS", "eINT"}}
  \cup {OneOperand(type, e) : type \in {"eJSON", "eREAD_FILE", "eEVAL"}}
  \cup {Dot(e, "k"), At(e, Num(0)), At(ListOf(<<Num(5)>>), e), Arg("k", e),
        ListOf(<<e, e>>), Bin("eEQ", e, e), Bin("eDIVIDE", Num(1), e),
        Bin("eOR", e, TrueE), Call("same", Arg("v", e))}

\* The value of noValue() is NULL, that of breaks() is its stray "break".
Helpers == Commands(<<Function("same", <<Return(<<Var("v")>>)>>),
                      Function("breaks", <<Break>>),
                      Function("noValue", <<Show(Num(1))>>)>>)

ExpressionScripts ==
  {<<Helpers, Commands(<<Set("r", e), expression_create_dump,
                         expression_create_variable_empty("r"),
                         If(e, Block(<<Return(<<Var("r"), e>>)>>)),
                         While(e, Block(<<Set("r", e), Break>>))>>)>> :
     e \in UNION {AppliedTo(k) : k \in Kinds}}

\* c redefines itself: its second value, whatever its type, is what the loop
\* takes for a condition.
SecondValueScripts ==
  {<<Helpers, Commands(<<
       Function("c", <<Function("c", <<Return(<<e>>)>>), Return(<<TrueE>>)>>),
       While(Call("c", NoArgs), Block(<<Set("r", Num(1)), Set("r", Var("r"))>>))>>)>> :
     e \in Kinds}

AllExpressionScripts == ExpressionScripts \cup SecondValueScripts

MCJsonValues == {value_new_object(EmptyDict), value_new_list(<<value_new_int(1)>>), Wild}
MCFileValues == {value_new_string(<<"d">>), Wild}

-----------------------------------------------------------------------------
(* The scripts above against the grammar                                   *)

\* The trees directly below e, and whether each stands in a loop.
Below(e, inLoop) ==
  CASE e.type = "eWHILE" -> {<<e.next, inLoop>>, <<e.right, TRUE>>}
    [] e.type = "eFUNCTION_DEF" -> {<<e.left, FALSE>>}
    [] e.type = "eIF" -> {e.next, e.left, e.right} \X {inLoop}
    [] e.type \in BinaryTypes \cup {"eARRAY_ACCESS"} -> {e.left, e.right} \X {inLoop}
    [] e.type = "eListVALUE" -> {<<e.list[k], inLoop>> : k \in DOMAIN e.list}
    [] e.type = "eObjectVALUE" -> {<<e.object[k].data, inLoop>> : k \in DOMAIN e.object}
    [] e.type \in {"eBLOCK", "eFUNCTION_CALL"} \cup UnaryTypes -> {<<e.left, inLoop>>}
    [] OTHER -> {}

RECURSIVE Parts(_, _), IsExpr(_)
Parts(e, inLoop) == {<<e, inLoop>>} \cup UNION {Parts(p[1], p[2]) : p \in Below(e, inLoop)}
IsExpr(e) ==
  LET below == {p[1] : p \in Below(e, FALSE)}
  IN  ExprNode(e, below) /\ \A child \in below : IsExpr(child)

AllParts ==
  UNION {UNION {Parts(s[k], FALSE) : k \in {j \in DOMAIN s : s[j] # ParseError}} :
           s \in ScriptSets}

\* Every script is one the parser can make; in the generated ones every break
\* and continue stands in a loop.
ASSUME ScriptsAreParsed ==
  LET parts == AllParts
      trees == {p[1] : p \in parts} \cup {NoExpr}
      exprs == {e \in trees : IsExpr(e)}
  IN  /\ Parsed(exprs, trees) /\ ScriptsIn(trees)
      /\ ScriptSets = GeneratedScripts =>
           LET inputs == {p[1] : p \in {q \in parts : ~q[2]}} \cup exprs \cup {NoExpr}
               bodies == {p[1] : p \in {q \in parts : q[2]}}
           IN  BreaksInLoops(exprs, inputs, bodies) /\ ScriptsIn(inputs)

-----------------------------------------------------------------------------
(* The operator ==                                                         *)

Atoms == {value_new_int(n) : n \in 0 .. 1} \cup {value_new_bool(b) : b \in BOOLEAN}
         \cup {value_new_string(s) : s \in {<<>>, <<"d">>}}
Lists(items) == {value_new_list(l) : l \in UNION {[1 .. n -> items] : n \in 0 .. 2}}
Objects(items) ==
  {value_new_object(o) : o \in UNION {[names -> items] : names \in SUBSET {"k", "l"}}}
Nested == {value_new_int(1), value_new_list(<<>>), value_new_object(EmptyDict),
           value_new_list(<<value_new_int(0), value_new_bool(TRUE)>>),
           value_new_object("k" :> value_new_bool(TRUE))}
Operands == Atoms \cup Lists(Atoms) \cup Objects(Atoms) \cup Lists(Nested) \cup Objects(Nested)

\* Whether a value of one of these types is anywhere in v.
RECURSIVE Has(_, _)
Has(v, types) ==
  CASE v.type = "List" -> \E k \in DOMAIN v.l : Has(v.l[k], types)
    [] v.type = "Object" -> \E name \in DOMAIN v.o : Has(v.o[name], types)
    [] OTHER -> v.type \in types

\* The operators make no "return" of values that are none, nor a "break" or
\* "continue" of values that are none of the three.
ASSUME OperatorsMakeNoFlow ==
  LET exits == {value_new("FC_Break"), value_new("FC_Conti")}
      values == Atoms \cup Nested \cup exits
                  \cup {Null, value_new("Empty"), value_new_double,
                       value_new_list(<<value_new("FC_Break")>>)}
      Plain(v, types) ==
        v = Wild \/ (~Has(v, types) /\ (v.type \in {"Int", "Bool"} => v.i \in Int))
  IN  \A types \in {{"FC_Return"}, {"FC_Return", "FC_Break", "FC_Conti"}} :
        /\ \A v \in JsonValues \cup FileValues : Plain(v, types)
        /\ \A v, w \in {u \in values : Plain(u, types)} :
             /\ Plain(Copy(v), types) /\ Copy(v) # Wild /\ Plain(Negation(v), types)
             /\ \A type \in BinaryTypes : \A u \in Binary(type, v, w) : Plain(u, types)

\* A value is counted with the values in it, "return" as the list it is made
\* of, and value_delete frees it whole.
ASSUME ValuesAreCounted ==
  /\ CellsOf(Null) = 0
  /\ \A v \in Operands \cup {value_new("Empty"), value_new_double, value_new("FC_Break"),
                           value_new("FC_Conti")} :
       /\ CellsOf(v) \in Nat /\ FreedBy(v) = CellsOf(v)
       /\ v.type \notin {"List", "Object"} => CellsOf(v) = 1
       /\ v.type = "List" =>
            LET cells == 1 + Sum([k \in DOMAIN v.l |-> CellsOf(v.l[k])])
            IN  CellsOf(v) = cells /\ CellsOf(FCReturn(v.l)) = cells
       /\ v.type = "Object" =>
            CellsOf(v) = 1 + Sum([name \in DOMAIN v.o |-> CellsOf(v.o[name])])

\* Without an empty list or object anywhere: [] is not equal to itself, and of {}
\* the result is a variable that is never set.
RECURSIVE Solid(_), HasBool(_)
Solid(v) ==
  CASE v.type = "List" -> v.l # <<>> /\ \A k \in DOMAIN v.l : Solid(v.l[k])
    [] v.type = "Object" -> DOMAIN v.o # {} /\ \A name \in DOMAIN v.o : Solid(v.o[name])
    [] OTHER -> TRUE
HasBool(v) ==
  CASE v.type = "List" -> \E k \in DOMAIN v.l : HasBool(v.l[k])
    [] v.type = "Object" -> \E name \in DOMAIN v.o : HasBool(v.o[name])
    [] OTHER -> v.type = "Bool"

\* value_eq, which walks two trees of values side by side, finds only values equal
\* that have the same content, whichever of the two is on the left; it finds every
\* value equal to itself, and to its copy unless that has turned a Bool into an Int.
\* (It is about the operator alone; TLC evaluates it when a script has ended.)
EqualityIsByContent ==
  phase = "done" =>
  LET equal == value_new_bool(TRUE)
  IN  /\ \A a, b \in Operands :
           /\ value_eq(a, b) = value_eq(b, a)
           /\ equal \in value_eq(a, b) => a = b
      /\ \A a \in Operands : Solid(a) =>
           /\ value_eq(a, a) = {equal} /\ value_ne(a, a) = {value_new_bool(FALSE)}
           /\ ~HasBool(a) => value_eq(value_copy(a), a) = {equal}

-----------------------------------------------------------------------------
(* Where the code does not do what it says                                 *)

\* f() { return "pr"+'d'; } a = f(); return f();
RepeatedStringScripts ==
  {<<Commands(<<Function("f", <<Return(<<Plus(Pr, D)>>)>>), Set("a", Call("f", NoArgs)),
                Return(<<Call("f", NoArgs)>>)>>)>>}

\* The expression "pr"+'d' is the string prd (test.c), however often it is
\* evaluated.
StringAsTested ==
  \A k \in DOMAIN results : results[k] = value_new_string(<<"p", "r", "d">>)

\* a = unknown(x: 1); return 1;
UnknownFunctionScripts ==
  {<<Commands(<<Set("a", Call("unknown", Arg("x", Num(1)))), Return(<<Num(1)>>)>>)>>}

\* A call of a function that is not defined is reported, and is NULL at once.
UnknownFunctionIsNull ==
  [][ (phase = "eval" /\ cur.type = "eFUNCTION_CALL" /\ cur.str \notin DOMAIN functions)
        => phase' = "return" /\ ret' = Null ]_vars

=============================================================================
