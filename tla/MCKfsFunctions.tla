--------------------------- MODULE MCKfsFunctions ---------------------------
(***************************************************************************)
(* KfsFunctions for TLC: scripts as the reductions of their commands.      *)
(***************************************************************************)
EXTENDS KfsFunctions

CONSTANTS f, g, Memory

MCNames == {f, g}
MCExpr == 1..Memory
\* The lowest free address: what was freed is handed out again at once.
MCMalloc(S) == CHOOSE e \in S : \A d \in S : e <= d

Rule(op) == <<[op |-> op]>>
RuleOf(op, n, a) == <<[op |-> op, str |-> n, args |-> a]>>

\* inpt of an expression, of one command, and of two.
Only(x) == x \o Rule("delist")
One(c) == c \o Rule("first") \o Rule("delist")
Two(c, d) == c \o Rule("first") \o d \o Rule("next") \o Rule("delist")

\* n()   n(y: m())   x = ...;   n() {body}
Call(n) == RuleOf("call", n, FALSE)
Apply(n, m) == Call(m) \o RuleOf("call", n, TRUE)
Set(x) == x \o Rule("command")
Def(n, body) == body \o RuleOf("function", n, FALSE)

\* Definitions: of a function that calls another, of one that replaces itself
\* while it runs, of one that defines another; some of them together never
\* return.  Calls of each, also in the arguments of a call.  A syntax error.
MCScripts == {
  Two(Def(g, Only(Call(f))), Set(Call(g))),
  Two(Def(f, Two(Def(f, Only(Call(g))), Set(Call(f)))), Set(Call(f))),
  Two(Def(g, One(Def(f, Only(Rule("leaf"))))), Set(Apply(f, g))),
  Only(Call(f)),
  Set(Call(f)) \o Rule("first") \o Rule("leaf") \o Rule("error")
}

=============================================================================
