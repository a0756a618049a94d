------------------------- MODULE KfsFunctionsProofs -------------------------
(***************************************************************************)
(* Whatever the scripts, the addresses that malloc hands out and the       *)
(* number of scripts: the functions of an environment are a sound list,    *)
(* calls run what KfsFunctionTable promises, what the code follows is      *)
(* allocated, and what is allocated is freed with the tree it is in.       *)
(*                                                                         *)
(* FunctionsSound is inductive with two facts about the loops: where the   *)
(* cursor of a loop over the functions stands, and that a loop over them   *)
(* has a name to look for.  The lemmas of KfsListProofs say what list_add  *)
(* and list_del do to such a list.                                         *)
(*                                                                         *)
(* The rest is about a forest: a set of nodes, its roots and its edges.    *)
(* An edge is <<parent, position, child>>.  What the rules of bison and    *)
(* expression_delete do to the trees is made of five operations on a       *)
(* forest: a new root, one root put below another, an edge cut, a root     *)
(* without edges dropped, a root forgotten.                                *)
(***************************************************************************)
EXTENDS KfsFunctions, KfsListProofs, SequenceTheorems

\* The node of a definition is in the list of functions.
Listed(e) == \E i \in 1..Len(functions) : functions[i] = e

\* A loop over the functions stands at one of them or at the head.  The searches
\* have passed only other names; cleanup has unlinked what it passed.
CursorOK ==
  phase \in {"define", "lookup", "cleanup"} =>
    \E k \in 1..(Len(functions) + 1) :
      /\ cursor = RingAt(ListHead, functions, k)
      /\ phase = "cleanup" => k = 1
      /\ phase # "cleanup" =>
           \A j \in 1..(k - 1) : expr[functions[j]].str # expr[cur].str

\* An evaluation has an expression, and a search is for the name in it.
CurOK ==
  /\ phase \in {"eval", "define", "lookup"} => cur \in Expr
  /\ phase = "define" => expr[cur].type = "function"
  /\ phase = "lookup" => expr[cur].type = "call"

IInv == TypeOK /\ FunctionsSound /\ CursorOK /\ CurOK

-----------------------------------------------------------------------------
(* Sequences and expressions                                               *)

\* What is left of a stack of which n elements are taken is a stack.
LEMMA Front ==
  ASSUME NEW S, NEW s \in Seq(S), NEW n \in Nat
  PROVE  SubSeq(s, 1, Len(s) - n) \in Seq(S)
<1>1. \A i \in 1..(Len(s) - n) : s[i] \in S
  OBVIOUS
<1> QED
  BY <1>1, SubSeqProperties

\* A stack from which one element is taken is one shorter.
LEMMA Pop ==
  ASSUME NEW S, NEW s \in Seq(S), s # <<>>
  PROVE  /\ SubSeq(s, 1, Len(s) - 1) \in Seq(S)
         /\ s[Len(s)] \in S
  BY Front

\* A stack whose top is replaced is a stack.
LEMMA ReplaceTop ==
  ASSUME NEW S, NEW s \in Seq(S), s # <<>>, NEW x \in S
  PROVE  [s EXCEPT ![Len(s)] = x] \in Seq(S)
OBVIOUS

\* The sequence without one of its elements is a sequence of the others.
LEMMA WithoutTyped ==
  ASSUME NEW S, NEW s \in Seq(S), NEW p \in 1..Len(s)
  PROVE  /\ Without(s, p) \in Seq(S)
         /\ Len(Without(s, p)) = Len(s) - 1
         /\ \A i \in 1..(Len(s) - 1) :
              Without(s, p)[i] = IF i < p THEN s[i] ELSE s[i + 1]
<1>1. \A j \in 1..(Len(s) - 1) : (IF j < p THEN s[j] ELSE s[j + 1]) \in S
  OBVIOUS
<1> QED
  BY <1>1 DEF Without

\* expression_add_list_item leaves an expression.
LEMMA AddItem ==
  ASSUME NEW x \in Expression, NEW e \in Expr
  PROVE  [x EXCEPT !.list = Append(@, e)] \in Expression
<1> DEFINE l == Append(x.list, e)
<1>1. l \in Seq(Expr)
  BY DEF Expression, Nameless, Named
<1>2. [x EXCEPT !.list = Append(@, e)] = [x EXCEPT !.list = l]
  OBVIOUS
<1> HIDE DEF l
<1>3. CASE x \in Nameless
  BY <1>1, <1>2, <1>3 DEF Expression, Nameless
<1>4. CASE x \in Named
  BY <1>1, <1>2, <1>4 DEF Expression, Named
<1> QED
  BY <1>3, <1>4 DEF Expression

\* Handles are not NULL, and the head of the list is no expression.
LEMMA HandlesFacts ==
  /\ NULL \notin Handles /\ ListHead \in Handles /\ Expr \subseteq Handles
  /\ ListHead \notin Expr /\ NULL \notin Expr /\ NULL \notin Names
BY AddressesAssumption DEF Handles

\* The links of TypeOK are those that KfsListProofs speaks of.
LEMMA LinksTyped == TypeOK => links \in Links(Handles)
BY DEF TypeOK, Links

-----------------------------------------------------------------------------
(* What the operations do to the list of functions                         *)

\* expression_new: a new node is in no list, and the functions are as they were.
LEMMA NewKeeps ==
  ASSUME TypeOK, FunctionsSound, NEW e, NEW type, NEW str, NEW left, NEW list,
         New(e, type, str, left, list), UNCHANGED functions
  PROVE  /\ FunctionsSound'
         /\ links' \in Links(Handles)
         /\ ~Listed(e)
<1>1. e \in Expr /\ expr[e].type = "free" /\ expr' = [expr EXCEPT ![e] = [type |-> type, str |-> str, left |-> left, list |-> list]]
      /\ links' = ListInit(links, e)
  BY DEF New, Allocated
<1>2. functions \in Seq(Expr) /\ DOMAIN expr = Expr /\ Len(functions) \in Nat
  BY DEF TypeOK
<1>3. ~Listed(e)
  BY <1>1 DEF FunctionsSound, Listed
<1>4. \A i \in 1..Len(functions) : functions[i] \in Expr \ {e}
  BY <1>2, <1>3 DEF Listed
<1>5. links' \in Links(Handles)
  BY <1>1, HandlesFacts, LinksTyped, InitTyped
<1>6. /\ \A x \in Handles \ {e} : links'.next[x] = links.next[x] /\ links'.prev[x] = links.prev[x]
      /\ links'.next[e] = e /\ links'.prev[e] = e
  BY <1>1, HandlesFacts, LinksTyped DEF ListInit, Links
<1>7. IsList(links', ListHead, functions)
  BY <1>1, <1>2, <1>4, <1>6, HandlesFacts, SameLinks DEF FunctionsSound
<1>8. \A x \in Expr : IsAlone(links', x) \/ Listed(x)
  <2> SUFFICES ASSUME NEW x \in Expr, ~Listed(x)
               PROVE  IsAlone(links', x)
    OBVIOUS
  <2>1. CASE x = e
    BY <1>6, <2>1 DEF IsAlone
  <2>2. CASE x # e
    BY <1>6, <2>2, HandlesFacts DEF IsAlone, FunctionsSound, Listed
  <2> QED
    BY <2>1, <2>2
<1>9. \A i \in 1..Len(functions) : expr'[functions[i]] = expr[functions[i]]
  BY <1>1, <1>2, <1>4
<1>10. FunctionsSound'
  BY <1>7, <1>8, <1>9 DEF FunctionsSound, Listed
<1> QED
  BY <1>3, <1>5, <1>10

\* A list of definitions with one for each name, and no other node that hangs on
\* to it: FunctionsSound of any links and sequence.
SoundList(m, s) ==
  /\ m \in Links(Handles) /\ s \in Seq(Expr)
  /\ IsList(m, ListHead, s)
  /\ \A i \in 1..Len(s) : expr[s[i]].type = "function"
  /\ \A i, j \in 1..Len(s) : expr[s[i]].str = expr[s[j]].str => i = j
  /\ \A x \in Expr : IsAlone(m, x) \/ \E i \in 1..Len(s) : s[i] = x

\* list_del of a definition that is in the list: of the others, none is lost.
LEMMA UnlinkListed ==
  ASSUME TypeOK, FunctionsSound, NEW e \in Expr, Listed(e)
  PROVE  /\ Deletable(links, e)
         /\ SoundList(ListDel(links, e), Unlisted(e))
         /\ \A i \in 1..Len(Unlisted(e)) : Unlisted(e)[i] # e /\ Listed(Unlisted(e)[i])
         /\ \A j \in 1..Len(functions) :
              functions[j] # e => \E i \in 1..Len(Unlisted(e)) : Unlisted(e)[i] = functions[j]
<1> DEFINE p == CHOOSE i \in 1..Len(functions) : functions[i] = e
           m == ListDel(links, e)
           s == Unlisted(e)
<1>1. p \in 1..Len(functions) /\ functions[p] = e /\ s = Without(functions, p)
  BY DEF Listed, Unlisted
<1>2. functions \in Seq(Expr) /\ functions \in Seq(Handles) /\ Len(functions) \in Nat
  BY HandlesFacts DEF TypeOK
<1>3. m = ListDel(links, e) /\ s = Unlisted(e)
  OBVIOUS
<1> HIDE DEF p, m, s
<1>4. /\ s \in Seq(Expr) /\ Len(s) = Len(functions) - 1 /\ Len(s) \in Nat
      /\ \A i \in 1..Len(s) : s[i] = IF i < p THEN functions[i] ELSE functions[i + 1]
  <2>1. /\ s \in Seq(Expr)
        /\ Len(s) = Len(functions) - 1
        /\ \A i \in 1..(Len(functions) - 1) :
             s[i] = IF i < p THEN functions[i] ELSE functions[i + 1]
    BY <1>1, <1>2, WithoutTyped
  <2> QED
    BY <1>1, <1>2, <2>1
<1>5. IsList(links, ListHead, functions)
  BY DEF FunctionsSound
<1>6. Deletable(links, e) /\ IsList(m, ListHead, s) /\ IsAlone(m, e)
  <2> links \in Links(Handles)
    BY LinksTyped
  <2> QED
    BY <1>1, <1>2, <1>3, <1>5, HandlesFacts, DelTakesOut
<1>7. m \in Links(Handles)
  BY <1>3, <1>6, HandlesFacts, LinksTyped, DelTyped
<1>8. \A i, j \in 1..Len(functions) : functions[i] = functions[j] => i = j
  BY <1>5 DEF IsList
<1>9. ASSUME NEW i \in 1..Len(s)
      PROVE  s[i] # e /\ Listed(s[i]) /\ expr[s[i]].type = "function"
  <2> DEFINE from == IF i < p THEN i ELSE i + 1
  <2>1. from \in 1..Len(functions) /\ s[i] = functions[from] /\ from # p
    BY <1>1, <1>2, <1>4
  <2> QED
    BY <1>1, <1>8, <2>1 DEF FunctionsSound, Listed
<1>10. ASSUME NEW i \in 1..Len(s), NEW j \in 1..Len(s), expr[s[i]].str = expr[s[j]].str
      PROVE  i = j
  <2> DEFINE from(c) == IF c < p THEN c ELSE c + 1
  <2>1. from(i) \in 1..Len(functions) /\ from(j) \in 1..Len(functions)
    BY <1>1, <1>2, <1>4
  <2>2. s[i] = functions[from(i)] /\ s[j] = functions[from(j)]
    BY <1>4
  <2>3. from(i) = from(j)
    BY <1>10, <2>1, <2>2 DEF FunctionsSound
  <2> QED
    BY <1>1, <1>4, <2>3
<1>11. ASSUME NEW j \in 1..Len(functions), functions[j] # e
       PROVE  \E i \in 1..Len(s) : s[i] = functions[j]
  <2>1. CASE j < p
    <3>1. j \in 1..Len(s) /\ s[j] = functions[j]
      BY <1>1, <1>2, <1>4, <2>1
    <3> QED
      BY <3>1
  <2>2. CASE j > p
    <3>1. j - 1 \in 1..Len(s) /\ s[j - 1] = functions[j]
      BY <1>1, <1>2, <1>4, <2>2
    <3> QED
      BY <3>1
  <2> QED
    BY <1>1, <1>2, <1>11, <2>1, <2>2
<1>12. ASSUME NEW x \in Expr
       PROVE  IsAlone(m, x) \/ \E i \in 1..Len(s) : s[i] = x
  <2>1. CASE x = e
    BY <1>6, <2>1
  <2>2. CASE x # e /\ Listed(x)
    BY <1>11, <2>2 DEF Listed
  <2>3. CASE ~Listed(x)
    <3>1. m.next[x] = links.next[x] /\ m.prev[x] = links.prev[x]
      <4> links \in Links(Handles) /\ x \in Handles \ {ListHead}
        BY HandlesFacts, LinksTyped
      <4> QED
        BY <1>1, <1>2, <1>3, <1>5, <2>3, HandlesFacts, DelLeavesOthers DEF Listed
    <3> QED
      BY <2>3, <3>1 DEF IsAlone, FunctionsSound, Listed
  <2> QED
    BY <2>1, <2>2, <2>3
<1> QED
  BY <1>3, <1>4, <1>6, <1>7, <1>9, <1>10, <1>11, <1>12 DEF SoundList

\* What expression_delete does to the lists: whichever node it is, the functions
\* are a sound list without it.
LEMMA UnlinkKeeps ==
  ASSUME TypeOK, FunctionsSound, NEW e \in Expr, DeleteSelf(e)
  PROVE  /\ SoundList(links', functions')
         /\ \A i \in 1..Len(functions') : functions'[i] # e /\ Listed(functions'[i])
         /\ \A j \in 1..Len(functions) :
              functions[j] # e => \E i \in 1..Len(functions') : functions'[i] = functions[j]
         /\ ~Listed(e) => functions' = functions
<1>1. CASE Listed(e)
  <2>1. links.next[e] # NULL
    BY <1>1, UnlinkListed DEF Deletable
  <2>2. links' = ListDel(links, e) /\ functions' = Unlisted(e)
    BY <2>1 DEF DeleteSelf
  <2> QED
    BY <1>1, <2>2, UnlinkListed
<1>2. CASE ~Listed(e)
  <2>1. functions' = functions
    BY <1>2 DEF DeleteSelf, Unlisted, Listed
  <2>2. /\ links' \in Links(Handles) /\ IsAlone(links', e)
        /\ \A x \in Handles \ {e} : links'.next[x] = links.next[x] /\ links'.prev[x] = links.prev[x]
    <3>1. IsAlone(links, e)
      BY <1>2 DEF FunctionsSound, Listed
    <3>2. CASE links.next[e] # NULL
      <4>1. links' = ListDel(links, e)
        BY <3>2 DEF DeleteSelf
      <4>2. Deletable(links, e)
        BY <3>1, <3>2 DEF IsAlone, Deletable
      <4> QED
        BY <3>1, <4>1, <4>2, HandlesFacts, LinksTyped, DelTyped, DelAlone
    <3>3. CASE links.next[e] = NULL
      BY <3>1, <3>3, LinksTyped DEF DeleteSelf
    <3> QED
      BY <3>2, <3>3
  <2>3. functions \in Seq(Expr) /\ Len(functions) \in Nat
    BY DEF TypeOK
  <2>4. \A i \in 1..Len(functions) : functions[i] \in Handles \ {e} /\ functions[i] # e
    BY <1>2, <2>3, HandlesFacts DEF Listed
  <2>5. IsList(links', ListHead, functions)
    BY <2>2, <2>3, <2>4, HandlesFacts, SameLinks DEF FunctionsSound
  <2>6. \A x \in Expr : IsAlone(links', x) \/ \E i \in 1..Len(functions) : functions[i] = x
    BY <2>2, HandlesFacts DEF IsAlone, FunctionsSound
  <2>7. SoundList(links', functions)
    BY <2>2, <2>3, <2>5, <2>6 DEF SoundList, FunctionsSound
  <2> QED
    BY <1>2, <2>1, <2>4, <2>7 DEF Listed
<1> QED
  BY <1>1, <1>2

\* A sound list of nodes whose names do not change is the functions' list.
LEMMA SoundListIsSound ==
  ASSUME SoundList(links', functions'),
         \A i \in 1..Len(functions') :
           /\ expr'[functions'[i]].type = expr[functions'[i]].type
           /\ expr'[functions'[i]].str = expr[functions'[i]].str
  PROVE  FunctionsSound'
BY DEF SoundList, FunctionsSound

\* list_add of a definition whose name no function in the list has.
LEMMA DefinedKeeps ==
  ASSUME NEW m, NEW rest, SoundList(m, rest), cur \in Expr, expr[cur].type = "function",
         \A i \in 1..Len(rest) : expr[rest[i]].str # expr[cur].str,
         Defined(m, rest)
  PROVE  FunctionsSound' /\ SoundList(links', functions')
<1> DEFINE s == <<cur>> \o rest
           k == ListAdd(m, cur, ListHead)
<1>1. links' = k /\ functions' = s /\ expr' = expr
  BY DEF Defined, tree
<1>2. rest \in Seq(Expr) /\ rest \in Seq(Handles) /\ m \in Links(Handles)
  BY HandlesFacts DEF SoundList
<1>3. \A i \in 1..Len(rest) : rest[i] # cur
  OBVIOUS
<1>4. /\ s \in Seq(Expr) /\ Len(s) = Len(rest) + 1 /\ s[1] = cur
      /\ \A i \in 2..Len(s) : s[i] = rest[i - 1]
      /\ \A i \in 1..Len(rest) : s[i + 1] = rest[i]
  BY <1>2
<1>5. IsList(m, ListHead, rest) /\ m.next[ListHead] \in Handles
  <2>1. IsList(m, ListHead, rest) /\ RingAt(ListHead, rest, 0) = ListHead /\ 0 \in 0..Len(rest)
    BY <1>2 DEF SoundList, RingAt
  <2>2. RingAt(ListHead, rest, 1) \in Handles
    BY <1>2, HandlesFacts DEF RingAt
  <2> QED
    BY <2>1, <2>2 DEF IsList
<1>6. IsList(k, ListHead, s)
  BY <1>2, <1>3, <1>5, HandlesFacts, AddInFront
<1>7. k \in Links(Handles)
  BY <1>2, <1>5, HandlesFacts, AddTyped
<1>8. \A i \in 1..Len(s) : expr[s[i]].type = "function"
  BY <1>2, <1>4 DEF SoundList
<1>9. ASSUME NEW i \in 1..Len(s), NEW j \in 1..Len(s), expr[s[i]].str = expr[s[j]].str
      PROVE  i = j
  <2>1. CASE i = 1 \/ j = 1
    BY <1>2, <1>4, <1>9, <2>1
  <2>2. CASE i # 1 /\ j # 1
    <3>1. i - 1 \in 1..Len(rest) /\ j - 1 \in 1..Len(rest) /\ s[i] = rest[i - 1] /\ s[j] = rest[j - 1]
      BY <1>2, <1>4, <2>2
    <3> QED
      BY <1>9, <3>1 DEF SoundList
  <2> QED
    BY <2>1, <2>2
<1>10. ASSUME NEW x \in Expr
       PROVE  IsAlone(k, x) \/ \E i \in 1..Len(s) : s[i] = x
  <2>1. CASE x = cur
    BY <1>2, <1>4, <2>1
  <2>2. ASSUME NEW i \in 1..Len(rest), rest[i] = x
        PROVE  \E j \in 1..Len(s) : s[j] = x
    <3>1. i + 1 \in 1..Len(s) /\ s[i + 1] = x
      BY <1>2, <1>4, <2>2
    <3> QED
      BY <3>1
  <2>3. CASE x # cur /\ ~\E i \in 1..Len(rest) : rest[i] = x
    <3>1. k.next[x] = m.next[x] /\ k.prev[x] = m.prev[x]
      BY <1>2, <1>5, <2>3, HandlesFacts, AddLeavesOthers
    <3> QED
      BY <2>3, <3>1 DEF IsAlone, SoundList
  <2> QED
    BY <2>1, <2>2, <2>3
<1>11. SoundList(k, s)
  BY <1>4, <1>6, <1>7, <1>8, <1>9, <1>10 DEF SoundList
<1> QED
  BY <1>1, <1>11 DEF SoundList, FunctionsSound

-----------------------------------------------------------------------------
(* The parts of the invariant that most steps leave alone                  *)

\* A step that touches neither expressions nor lists.
LEMMA ListsUntouched ==
  ASSUME FunctionsSound, UNCHANGED <<expr, links, functions>>
  PROVE  FunctionsSound'
BY DEF FunctionsSound

\* The first function, or the head if there is none: where the loops begin.
LEMMA FirstCursor ==
  ASSUME TypeOK, FunctionsSound
  PROVE  /\ links.next[ListHead] = RingAt(ListHead, functions, 1)
         /\ RingAt(ListHead, functions, 1) \in Handles
         /\ 1 \in 1..(Len(functions) + 1)
<1>1. functions \in Seq(Expr) /\ Len(functions) \in Nat /\ 0 \in 0..Len(functions)
  BY DEF TypeOK
<1>2. RingAt(ListHead, functions, 0) = ListHead
  BY DEF RingAt
<1>3. RingAt(ListHead, functions, 1) \in Handles
  BY <1>1, HandlesFacts DEF RingAt
<1> QED
  BY <1>1, <1>2, <1>3 DEF FunctionsSound, IsList

\* A loop that is not at the head is at a function, and goes on to the next one.
LEMMA NextCursor ==
  ASSUME TypeOK, FunctionsSound, NEW k \in 1..(Len(functions) + 1),
         cursor = RingAt(ListHead, functions, k), cursor # ListHead
  PROVE  /\ k \in 1..Len(functions) /\ cursor = functions[k] /\ cursor \in Expr
         /\ Listed(cursor) /\ expr[cursor].type = "function"
         /\ links.next[cursor] = RingAt(ListHead, functions, k + 1)
         /\ RingAt(ListHead, functions, k + 1) \in Handles
         /\ k + 1 \in 1..(Len(functions) + 1)
<1>1. functions \in Seq(Expr) /\ Len(functions) \in Nat
  BY DEF TypeOK
<1>2. k \in 1..Len(functions) /\ cursor = functions[k] /\ k \in 0..Len(functions)
  BY <1>1 DEF RingAt
<1>3. RingAt(ListHead, functions, k + 1) \in Handles
  BY <1>1, HandlesFacts DEF RingAt
<1> QED
  BY <1>1, <1>2, <1>3 DEF FunctionsSound, IsList, Listed, RingAt

-----------------------------------------------------------------------------
(* The initial state                                                       *)

\* A new environment satisfies the invariant.
LEMMA InitIInv == Init => IInv
<1> SUFFICES ASSUME Init
             PROVE  IInv
  OBVIOUS
<1> USE HandlesFacts, BoundsAssumption DEF Init
<1>1. TypeOK
  <2>1. expr \in [Expr -> Expression]
    BY DEF Free, Expression, Nameless, Named
  <2>2. links \in [next: [Handles -> Handles \cup {NULL}], prev: [Handles -> Handles \cup {NULL}]]
    OBVIOUS
  <2>3. functions \in Seq(Expr) /\ input \in Seq(Reduction) /\ values \in Seq(Expr)
        /\ ctl \in Seq(CallFrame) /\ doomed \in Seq(DeleteCall)
    OBVIOUS
  <2>4. cursor \in Handles /\ scripts \in 0..MaxScripts
    OBVIOUS
  <2> QED
    BY <2>1, <2>2, <2>3, <2>4 DEF TypeOK
<1>2. FunctionsSound
  BY DEF FunctionsSound, IsList, RingAt, IsAlone
<1>3. CursorOK /\ CurOK
  BY DEF CursorOK, CurOK
<1> QED
  BY <1>1, <1>2, <1>3 DEF IInv

-----------------------------------------------------------------------------
(* The rules of the parser                                                 *)

\* A rule that makes a node of n operands and leaves everything else.
LEMMA ReduceNewKeeps ==
  ASSUME IInv, NEW type, NEW str, NEW left, NEW list, NEW n \in Nat,
         [type |-> type, str |-> str, left |-> left, list |-> list] \in Expression,
         phase = "parse", input # <<>>, Len(values) >= n,
         New(NewAddress, type, str, left, list), Result(n, NewAddress),
         Reduced, UNCHANGED functions
  PROVE  IInv'
<1> DEFINE e == NewAddress
<1>1. TypeOK /\ FunctionsSound
  BY DEF IInv
<1>2. FunctionsSound' /\ links' \in Links(Handles)
  BY <1>1, NewKeeps
<1>3. e \in Expr /\ expr' \in [Expr -> Expression]
  BY <1>1 DEF New, TypeOK
<1>4. values' \in Seq(Expr)
  <2>1. SubSeq(values, 1, Len(values) - n) \in Seq(Expr)
    BY <1>1, Front DEF TypeOK
  <2> QED
    BY <1>3, <2>1 DEF Result
<1>5. input' \in Seq(Reduction)
  BY <1>1, HeadTailProperties DEF TypeOK, Reduced
<1>6. TypeOK'
  BY <1>1, <1>2, <1>3, <1>4, <1>5 DEF TypeOK, Reduced, Links, eval
<1>7. phase' = "parse"
  BY DEF Reduced
<1> QED
  BY <1>2, <1>6, <1>7 DEF IInv, CursorOK, CurOK

\* Building and handing over a tree preserves the invariant.
LEMMA ParseKeeps == IInv /\ Parse => IInv'
<1> SUFFICES ASSUME IInv, Parse
             PROVE  IInv'
  OBVIOUS
<1>1. TypeOK /\ FunctionsSound
  BY DEF IInv
<1>2. /\ expr \in [Expr -> Expression] /\ values \in Seq(Expr) /\ input \in Seq(Reduction)
      /\ Len(values) \in Nat
  BY <1>1 DEF TypeOK
<1>3. Len(values) >= 1 => Top \in Expr
  BY <1>2 DEF Top
<1>4. input # <<>> => input[1] \in Reduction /\ Tail(input) \in Seq(Reduction)
  BY <1>2, HeadTailProperties
<1>5. CASE ReduceLeaf
  <2>1. [type |-> "leaf", str |-> NULL, left |-> NULL, list |-> <<>>] \in Expression
    BY DEF Expression, Nameless, Named
  <2> QED
    BY <1>5, <2>1, ReduceNewKeeps DEF ReduceLeaf, Reducing
<1>6. CASE ReduceCall
  <2>1. input[1].str \in Names
    BY <1>4, <1>6 DEF ReduceCall, Reducing, Reduction
  <2>2. CASE input[1].args
    <3>1. Len(values) >= 1 /\ phase = "parse" /\ input # <<>>
      BY <1>6, <2>2 DEF ReduceCall, Reducing
    <3>2. [type |-> "call", str |-> input[1].str, left |-> Top, list |-> <<>>] \in Expression
      BY <1>3, <2>1, <3>1 DEF Expression, Nameless, Named
    <3>3. /\ New(NewAddress, "call", input[1].str, Top, <<>>) /\ Result(1, NewAddress)
          /\ Reduced /\ UNCHANGED functions
      BY <1>6, <2>2 DEF ReduceCall
    <3> QED
      BY <3>1, <3>2, <3>3, ReduceNewKeeps
  <2>3. CASE ~input[1].args
    <3>1. [type |-> "call", str |-> input[1].str, left |-> NULL, list |-> <<>>] \in Expression
      BY <2>1 DEF Expression, Nameless, Named
    <3>2. /\ New(NewAddress, "call", input[1].str, NULL, <<>>) /\ Result(0, NewAddress)
          /\ Reduced /\ UNCHANGED functions
      BY <1>6, <2>3 DEF ReduceCall
    <3>3. phase = "parse" /\ input # <<>>
      BY <1>6 DEF ReduceCall, Reducing
    <3> QED
      BY <1>2, <3>1, <3>2, <3>3, ReduceNewKeeps
  <2> QED
    BY <2>2, <2>3
<1>7. CASE ReduceCommand
  <2>1. Len(values) >= 1
    BY <1>7 DEF ReduceCommand, Reducing
  <2>2. [type |-> "command", str |-> NULL, left |-> Top, list |-> <<>>] \in Expression
    BY <1>3, <2>1 DEF Expression, Nameless, Named
  <2> QED
    BY <1>7, <2>1, <2>2, ReduceNewKeeps DEF ReduceCommand, Reducing
<1>8. CASE ReduceFunction
  <2>1. Len(values) >= 1 /\ input[1].str \in Names
    BY <1>4, <1>8 DEF ReduceFunction, Reducing, Reduction
  <2>2. [type |-> "function", str |-> input[1].str, left |-> Top, list |-> <<>>] \in Expression
    BY <1>3, <2>1 DEF Expression, Nameless, Named
  <2> QED
    BY <1>8, <2>1, <2>2, ReduceNewKeeps DEF ReduceFunction, Reducing
<1>9. CASE ReduceFirst
  <2>1. Len(values) >= 1
    BY <1>9 DEF ReduceFirst, Reducing
  <2>2. [type |-> "list", str |-> NULL, left |-> NULL, list |-> <<Top>>] \in Expression
    BY <1>3, <2>1 DEF Expression, Nameless, Named
  <2> QED
    BY <1>9, <2>1, <2>2, ReduceNewKeeps DEF ReduceFirst, Reducing
<1>10. CASE ReduceNext
  <2>1. Len(values) >= 2 /\ input # <<>> /\ Under \in Expr /\ Top \in Expr
    BY <1>2, <1>3, <1>10 DEF ReduceNext, Reducing, Under
  <2>2. [expr[Under] EXCEPT !.list = Append(@, Top)] \in Expression
    BY <1>2, <2>1, AddItem
  <2>3. expr' = [expr EXCEPT ![Under] = [expr[Under] EXCEPT !.list = Append(@, Top)]]
    BY <1>10 DEF ReduceNext
  <2>4. expr' \in [Expr -> Expression]
    BY <1>2, <2>1, <2>2, <2>3
  <2>5. \A e \in Expr : expr'[e].type = expr[e].type /\ expr'[e].str = expr[e].str
    BY <1>2, <2>1, <2>3 DEF Expression, Nameless, Named
  <2>6. values' \in Seq(Expr) /\ input' \in Seq(Reduction)
    <3>1. SubSeq(values, 1, Len(values) - 2) \in Seq(Expr)
      BY <1>2, Front
    <3> QED
      BY <1>4, <1>10, <2>1, <3>1 DEF ReduceNext, Result, Reduced
  <2>7. TypeOK'
    BY <1>1, <1>10, <2>4, <2>6 DEF TypeOK, ReduceNext, Reduced, eval
  <2>8. FunctionsSound'
    <3>1. \A i \in 1..Len(functions) : functions[i] \in Expr
      BY <1>1 DEF TypeOK
    <3>2. UNCHANGED <<links, functions>>
      BY <1>10 DEF ReduceNext
    <3> QED
      BY <1>1, <2>5, <3>1, <3>2 DEF FunctionsSound
  <2>9. phase' = "parse"
    BY <1>10 DEF ReduceNext, Reducing, Reduced
  <2> QED
    BY <2>7, <2>8, <2>9 DEF IInv, CursorOK, CurOK
<1>11. CASE ReduceDelist
  <2>1. /\ Len(values) >= 1 /\ input # <<>> /\ phase = "parse" /\ Delist /\ Reduced
        /\ Top \in Expr
    BY <1>3, <1>11 DEF ReduceDelist, Reducing
  <2>2. input' \in Seq(Reduction) /\ phase' = "parse"
    BY <1>4, <2>1 DEF Reduced
  <2>3. CASE expr[Top].type = "list" /\ Len(expr[Top].list) = 1
    <3>1. DeleteSelf(Top) /\ Result(1, expr[Top].list[1])
      BY <2>1, <2>3 DEF Delist
    <3>2. expr[Top].list[1] \in Expr
      BY <1>2, <2>1, <2>3 DEF Expression, Nameless, Named
    <3>3. values' \in Seq(Expr)
      BY <1>2, <3>1, <3>2, Front DEF Result
    <3>4. SoundList(links', functions') /\ \A i \in 1..Len(functions') : functions'[i] # Top
      BY <1>1, <2>1, <3>1, UnlinkKeeps
    <3>5. expr' = [expr EXCEPT ![Top] = Free] /\ expr' \in [Expr -> Expression]
      BY <1>2, <2>1, <3>1 DEF DeleteSelf, Free, Expression, Nameless, Named
    <3>6. FunctionsSound'
      <4>1. \A i \in 1..Len(functions') : expr'[functions'[i]] = expr[functions'[i]]
        BY <1>2, <3>4, <3>5 DEF SoundList
      <4> QED
        BY <3>4, <4>1, SoundListIsSound
    <3>7. TypeOK'
      BY <1>1, <2>1, <2>2, <3>3, <3>4, <3>5 DEF TypeOK, Reduced, eval, SoundList, Links
    <3> QED
      BY <2>2, <3>6, <3>7 DEF IInv, CursorOK, CurOK
  <2>4. CASE ~(expr[Top].type = "list" /\ Len(expr[Top].list) = 1)
    <3>1. UNCHANGED <<expr, links, functions, values>>
      BY <2>1, <2>4 DEF Delist
    <3>2. TypeOK'
      BY <1>1, <2>1, <2>2, <3>1 DEF TypeOK, Reduced, eval
    <3> QED
      BY <1>1, <2>2, <3>1, <3>2, ListsUntouched DEF IInv, CursorOK, CurOK
  <2> QED
    BY <2>3, <2>4
<1>12. CASE ParseDone
  <2>1. Top \in Expr
    BY <1>3, <1>12 DEF ParseDone
  <2>2. TypeOK'
    BY <1>1, <1>12, <2>1 DEF TypeOK, ParseDone
  <2>3. FunctionsSound'
    BY <1>1, <1>12, ListsUntouched DEF ParseDone
  <2> QED
    BY <1>12, <2>1, <2>2, <2>3 DEF IInv, ParseDone, CursorOK, CurOK
<1>13. CASE SyntaxError
  <2>1. TypeOK'
    BY <1>1, <1>13 DEF TypeOK, SyntaxError, eval
  <2>2. FunctionsSound'
    BY <1>1, <1>13, ListsUntouched DEF SyntaxError
  <2> QED
    BY <1>13, <2>1, <2>2 DEF IInv, SyntaxError, CursorOK, CurOK
<1> QED
  BY <1>5, <1>6, <1>7, <1>8, <1>9, <1>10, <1>11, <1>12, <1>13 DEF Parse

-----------------------------------------------------------------------------
(* Deleting trees                                                          *)

\* Deleting the tree of the environment is begun where no loop is active.
LEMMA DeleteRootTyped ==
  ASSUME TypeOK, NEW p \in {"idle", "parse", "closed"}, DeleteRoot(p)
  PROVE  /\ then' \in {"idle", "parse", "closed"}
         /\ phase' \in {"idle", "parse", "closed", "delete"}
         /\ doomed' \in Seq(DeleteCall)
<1>1. root # NULL => <<[e |-> root, i |-> 0]>> \in Seq(DeleteCall)
  BY DEF TypeOK, DeleteCall
<1> QED
  BY <1>1 DEF TypeOK, DeleteRoot

\* Freeing a tree preserves the invariant, in whatever order its nodes are
\* freed and whichever of them are functions.
LEMMA DeleteKeeps == IInv /\ Delete => IInv'
<1> SUFFICES ASSUME IInv, Delete
             PROVE  IInv'
  OBVIOUS
<1>1. TypeOK /\ FunctionsSound
  BY DEF IInv
<1>2. /\ expr \in [Expr -> Expression] /\ doomed \in Seq(DeleteCall)
      /\ Len(doomed) \in Nat
  BY <1>1 DEF TypeOK
<1>3. doomed # <<>> => Doomed \in DeleteCall /\ Doomed.e \in Expr /\ Doomed.i \in Nat
  <2>1. doomed # <<>> => Doomed \in DeleteCall
    BY <1>2, Pop DEF Doomed
  <2> QED
    BY <2>1 DEF DeleteCall
<1>4. CASE DeleteChild
  <2> DEFINE child == IF Doomed.i = 0 THEN expr[Doomed.e].left ELSE expr[Doomed.e].list[Doomed.i]
             rest == [doomed EXCEPT ![Len(doomed)].i = @ + 1]
  <2>1. child \in Expr \cup {NULL}
    BY <1>2, <1>3, <1>4 DEF DeleteChild, Expression, Nameless, Named
  <2>2. rest \in Seq(DeleteCall)
    <3>1. rest = [doomed EXCEPT ![Len(doomed)] = [e |-> Doomed.e, i |-> Doomed.i + 1]]
      <4>1. [Doomed EXCEPT !.i = @ + 1] = [e |-> Doomed.e, i |-> Doomed.i + 1]
        BY <1>3, <1>4 DEF DeleteChild, DeleteCall
      <4>2. rest = [doomed EXCEPT ![Len(doomed)] = [Doomed EXCEPT !.i = @ + 1]]
        BY DEF Doomed
      <4> QED
        BY <4>1, <4>2
    <3>2. [e |-> Doomed.e, i |-> Doomed.i + 1] \in DeleteCall
      BY <1>3, <1>4 DEF DeleteChild, DeleteCall
    <3> QED
      BY <1>2, <1>4, <3>1, <3>2, ReplaceTop DEF DeleteChild
  <2>3. doomed' = IF child = NULL THEN rest ELSE Append(rest, [e |-> child, i |-> 0])
    BY <1>4 DEF DeleteChild, DeleteNext
  <2> HIDE DEF child, rest
  <2>4. doomed' \in Seq(DeleteCall)
    <3>1. child # NULL => [e |-> child, i |-> 0] \in DeleteCall
      BY <2>1 DEF DeleteCall
    <3> QED
      BY <2>2, <2>3, <3>1
  <2>5. TypeOK'
    BY <1>1, <1>4, <2>4 DEF TypeOK, DeleteChild, tree, eval
  <2>6. FunctionsSound'
    BY <1>1, <1>4, ListsUntouched DEF DeleteChild, tree
  <2> QED
    BY <1>4, <2>5, <2>6 DEF IInv, DeleteChild, CursorOK, CurOK
<1>5. CASE DeleteNode
  <2>1. Doomed.e \in Expr /\ DeleteSelf(Doomed.e) /\ phase' = "delete"
    BY <1>3, <1>5 DEF DeleteNode
  <2>2. SoundList(links', functions') /\ \A i \in 1..Len(functions') : functions'[i] # Doomed.e
    BY <1>1, <2>1, UnlinkKeeps
  <2>3. expr' = [expr EXCEPT ![Doomed.e] = Free] /\ expr' \in [Expr -> Expression]
    BY <1>2, <2>1 DEF DeleteSelf, Free, Expression, Nameless, Named
  <2>4. FunctionsSound'
    <3>1. \A i \in 1..Len(functions') : expr'[functions'[i]] = expr[functions'[i]]
      BY <1>2, <2>2, <2>3 DEF SoundList
    <3> QED
      BY <2>2, <3>1, SoundListIsSound
  <2>5. doomed' \in Seq(DeleteCall)
    BY <1>2, <1>5, Pop DEF DeleteNode
  <2>6. TypeOK'
    BY <1>1, <1>5, <2>2, <2>3, <2>5 DEF TypeOK, DeleteNode, eval, SoundList, Links
  <2> QED
    BY <2>1, <2>4, <2>6 DEF IInv, CursorOK, CurOK
<1>6. CASE DeleteDone
  <2>1. TypeOK'
    BY <1>1, <1>6 DEF TypeOK, DeleteDone, eval
  <2>2. FunctionsSound'
    BY <1>1, <1>6, ListsUntouched DEF DeleteDone
  <2>3. phase' \in {"idle", "parse", "closed"}
    BY <1>1, <1>6 DEF TypeOK, DeleteDone
  <2> QED
    BY <2>1, <2>2, <2>3 DEF IInv, CursorOK, CurOK
<1> QED
  BY <1>4, <1>5, <1>6 DEF Delete

-----------------------------------------------------------------------------
(* Running scripts and closing the environment                             *)

\* Beginning and ending a script, and forgetting the functions, preserves the
\* invariant.
LEMMA RunKeeps ==
  IInv /\ (Run \/ NoValue \/ Finish \/ Close \/ CleanupStep \/ CleanupDone) => IInv'
<1> SUFFICES ASSUME IInv, Run \/ NoValue \/ Finish \/ Close \/ CleanupStep \/ CleanupDone
             PROVE  IInv'
  OBVIOUS
<1>1. TypeOK /\ FunctionsSound
  BY DEF IInv
<1>2. scripts \in 0..MaxScripts /\ MaxScripts \in Nat
  BY <1>1, BoundsAssumption DEF TypeOK
<1>3. ASSUME NEW s \in Scripts, RunMain(s)
      PROVE  IInv'
  <2>1. input' \in Seq(Reduction) /\ scripts' \in 0..MaxScripts
    BY <1>2, <1>3, ScriptsAssumption DEF RunMain
  <2>2. TypeOK'
    BY <1>1, <1>3, <2>1 DEF TypeOK, RunMain, tree, eval
  <2>3. FunctionsSound'
    BY <1>1, <1>3, ListsUntouched DEF RunMain, tree
  <2> QED
    BY <1>3, <2>2, <2>3 DEF IInv, RunMain, CursorOK, CurOK
<1>4. ASSUME NEW s \in Scripts, RunEval(s)
      PROVE  IInv'
  <2>1. input' \in Seq(Reduction) /\ scripts' \in 0..MaxScripts
    BY <1>2, <1>4, ScriptsAssumption DEF RunEval
  <2>2. /\ then' \in {"idle", "parse", "closed"}
        /\ phase' \in {"idle", "parse", "closed", "delete"}
        /\ doomed' \in Seq(DeleteCall)
    BY <1>1, <1>4, DeleteRootTyped DEF RunEval
  <2>3. TypeOK'
    BY <1>1, <1>4, <2>1, <2>2 DEF TypeOK, RunEval, tree, eval
  <2>4. FunctionsSound'
    BY <1>1, <1>4, ListsUntouched DEF RunEval, tree
  <2> QED
    BY <2>2, <2>3, <2>4 DEF IInv, CursorOK, CurOK
<1>5. CASE NoValue
  <2>1. TypeOK'
    BY <1>1, <1>5 DEF TypeOK, NoValue, tree, eval
  <2>2. FunctionsSound'
    BY <1>1, <1>5, ListsUntouched DEF NoValue, tree
  <2> QED
    BY <1>5, <2>1, <2>2 DEF IInv, NoValue, CursorOK, CurOK
<1>6. CASE Finish
  <2>1. TypeOK'
    BY <1>1, <1>6, FirstCursor DEF TypeOK, Finish, tree, eval
  <2>2. FunctionsSound'
    BY <1>1, <1>6, ListsUntouched DEF Finish, tree
  <2>3. CASE style = "main"
    BY <1>6, <2>1, <2>2, <2>3 DEF IInv, Finish, CursorOK, CurOK
  <2>4. CASE style # "main"
    <3>1. phase' = "cleanup" /\ cursor' = RingAt(ListHead, functions', 1) /\ 1 \in 1..(Len(functions') + 1)
      BY <1>1, <1>6, <2>4, FirstCursor DEF Finish
    <3> QED
      BY <2>1, <2>2, <3>1 DEF IInv, CursorOK, CurOK
  <2> QED
    BY <2>3, <2>4
<1>7. CASE Close
  <2>1. TypeOK'
    BY <1>1, <1>7, FirstCursor DEF TypeOK, Close, tree, eval
  <2>2. FunctionsSound'
    BY <1>1, <1>7, ListsUntouched DEF Close, tree
  <2>3. phase' = "cleanup" /\ cursor' = RingAt(ListHead, functions', 1) /\ 1 \in 1..(Len(functions') + 1)
    BY <1>1, <1>7, FirstCursor DEF Close
  <2> QED
    BY <2>1, <2>2, <2>3 DEF IInv, CursorOK, CurOK
<1>8. CASE CleanupStep
  <2>1. cursor = RingAt(ListHead, functions, 1) /\ cursor # ListHead /\ 1 \in 1..(Len(functions) + 1)
    BY <1>8 DEF IInv, CursorOK, CleanupStep
  <2>2. /\ 1 \in 1..Len(functions) /\ cursor = functions[1] /\ cursor \in Expr /\ Listed(cursor)
        /\ cursor' = RingAt(ListHead, functions, 2) /\ cursor' \in Handles
    <3>1. links.next[cursor] = RingAt(ListHead, functions, 1 + 1)
      BY <1>1, <2>1, NextCursor
    <3> QED
      BY <1>1, <1>8, <2>1, <3>1, NextCursor DEF CleanupStep
  <2>3. links' = ListDel(links, cursor) /\ functions' = Unlisted(cursor) /\ expr' = expr
        /\ phase' = "cleanup"
    BY <1>8 DEF CleanupStep, tree
  <2>4. SoundList(links', functions')
    BY <1>1, <2>2, <2>3, UnlinkListed
  <2>5. FunctionsSound'
    BY <2>3, <2>4, SoundListIsSound
  <2>6. TypeOK'
    BY <1>1, <1>8, <2>2, <2>4 DEF TypeOK, CleanupStep, tree, eval, SoundList, Links
  <2>7. cursor' = RingAt(ListHead, functions', 1) /\ 1 \in 1..(Len(functions') + 1)
    <3>1. functions' = Without(functions, 1)
      <4>1. functions' = Without(functions, CHOOSE i \in 1..Len(functions) : functions[i] = cursor)
        BY <2>2, <2>3 DEF Unlisted, Listed
      <4>2. \A i \in 1..Len(functions) : functions[i] = cursor <=> i = 1
        BY <1>1, <2>2 DEF FunctionsSound, IsList
      <4>3. (CHOOSE i \in 1..Len(functions) : functions[i] = cursor) = 1
        BY <2>2, <4>2
      <4> QED
        BY <4>1, <4>3
    <3>2. functions \in Seq(Expr) /\ Len(functions) \in Nat
      BY <1>1 DEF TypeOK
    <3>3. /\ Len(functions') = Len(functions) - 1
          /\ \A i \in 1..(Len(functions) - 1) : functions'[i] = IF i < 1 THEN functions[i] ELSE functions[i + 1]
      BY <2>2, <3>1, <3>2, WithoutTyped
    <3> QED
      BY <2>2, <3>2, <3>3 DEF RingAt
  <2> QED
    BY <2>3, <2>5, <2>6, <2>7 DEF IInv, CursorOK, CurOK
<1>9. CASE CleanupDone
  <2>1. /\ then' \in {"idle", "parse", "closed"}
        /\ phase' \in {"idle", "parse", "closed", "delete"}
        /\ doomed' \in Seq(DeleteCall)
    BY <1>1, <1>9, DeleteRootTyped DEF CleanupDone, TypeOK
  <2>2. TypeOK'
    BY <1>1, <1>9, <2>1 DEF TypeOK, CleanupDone, tree, eval
  <2>3. FunctionsSound'
    BY <1>1, <1>9, ListsUntouched DEF CleanupDone, tree
  <2> QED
    BY <2>1, <2>2, <2>3 DEF IInv, CursorOK, CurOK
<1> QED
  BY <1>3, <1>4, <1>5, <1>6, <1>7, <1>8, <1>9 DEF Run

-----------------------------------------------------------------------------
(* Evaluating                                                              *)

\* kfs_lang_eval_value is called for an expression or returns at once.
LEMMA ContinueTyped ==
  ASSUME TypeOK, NEW e \in Expr \cup {NULL}, Continue(e)
  PROVE  /\ phase' \in {"eval", "return"} /\ cur' \in Expr \cup {NULL}
         /\ phase' = "eval" => cur' \in Expr
BY HandlesFacts DEF Continue, TypeOK

\* A place to return to is at an expression, or it belongs to a call of a function
\* that is not there; the steps that change a place leave one.
LEMMA FrameTyped ==
  ASSUME NEW f \in CallFrame
  PROVE  /\ f.e \in Expr \cup {ListHead} /\ f.i \in Nat
         /\ f.op \in {"command", "list"} => f.e # ListHead
         /\ [f EXCEPT !.i = @ + 1] \in CallFrame /\ [f EXCEPT !.i = @ + 1].e = f.e
         /\ f.op = "arguments" =>
              [f EXCEPT !.op = "body"] \in CallFrame /\ [f EXCEPT !.op = "body"].e = f.e
<1>1. CASE f \in [op: {"command", "list"}, e: Expr, i: Nat]
  BY <1>1, HandlesFacts DEF CallFrame
<1>2. CASE f \in [op: {"arguments", "body"}, e: Handles, i: Nat]
  BY <1>2 DEF CallFrame, Handles
<1> QED
  BY <1>1, <1>2 DEF CallFrame

\* The place to which a call returns that has found no function.
LEMMA MissingFrame == [op |-> "arguments", e |-> ListHead, i |-> 0] \in CallFrame
<1>1. [op |-> "arguments", e |-> ListHead, i |-> 0]
        \in [op: {"arguments", "body"}, e: Handles, i: Nat]
  BY HandlesFacts
<1> QED
  BY <1>1 DEF CallFrame

\* A step of the evaluation that is not about functions.
LEMMA EvaluatedKeeps ==
  ASSUME IInv, Evaluated, UNCHANGED <<links, cursor>>,
         ctl' \in Seq(CallFrame), called' \in Expr \cup {NULL},
         phase' \in {"eval", "return", "crashed"}, cur' \in Expr \cup {NULL},
         phase' = "eval" => cur' \in Expr
  PROVE  IInv'
<1>1. TypeOK /\ FunctionsSound
  BY DEF IInv
<1>2. TypeOK'
  BY <1>1 DEF TypeOK, Evaluated, tree
<1>3. FunctionsSound'
  BY <1>1, ListsUntouched DEF Evaluated, tree
<1> QED
  BY <1>2, <1>3 DEF IInv, CursorOK, CurOK

\* The end of eFUNCTION_DEF, whichever functions are left in the list.
LEMMA DefinedIInv ==
  ASSUME IInv, NEW m, NEW rest, SoundList(m, rest), phase = "define",
         \A i \in 1..Len(rest) : expr[rest[i]].str # expr[cur].str,
         Defined(m, rest)
  PROVE  IInv'
<1>1. TypeOK /\ cur \in Expr /\ expr[cur].type = "function"
  BY DEF IInv, CurOK
<1>2. FunctionsSound' /\ SoundList(links', functions')
  BY <1>1, DefinedKeeps
<1>3. TypeOK'
  BY <1>1, <1>2 DEF TypeOK, SoundList, Links, Defined, tree, eval
<1> QED
  BY <1>2, <1>3 DEF IInv, Defined, CursorOK, CurOK

\* When a definition is made anew, no other function of its name is left.
LEMMA RedefinedNames ==
  ASSUME IInv, phase = "define", Found
  PROVE  /\ cursor \in Expr /\ Listed(cursor)
         /\ SoundList(ListDel(links, cursor), Unlisted(cursor))
         /\ \A i \in 1..Len(Unlisted(cursor)) : expr[Unlisted(cursor)[i]].str # expr[cur].str
<1>1. TypeOK /\ FunctionsSound
  BY DEF IInv
<1>2. PICK k \in 1..(Len(functions) + 1) : cursor = RingAt(ListHead, functions, k)
  BY DEF IInv, CursorOK
<1>3. cursor \in Expr /\ Listed(cursor)
  BY <1>1, <1>2, NextCursor DEF Found
<1>4. /\ SoundList(ListDel(links, cursor), Unlisted(cursor))
      /\ \A i \in 1..Len(Unlisted(cursor)) :
           Unlisted(cursor)[i] # cursor /\ Listed(Unlisted(cursor)[i])
  BY <1>1, <1>3, UnlinkListed
<1>5. ASSUME NEW i \in 1..Len(Unlisted(cursor))
      PROVE  expr[Unlisted(cursor)[i]].str # expr[cursor].str
  BY <1>3, <1>4 DEF FunctionsSound, IInv, Listed
<1> QED
  BY <1>3, <1>4, <1>5 DEF Found

\* A definition is new if the search comes back to the head.
LEMMA DefinedNames ==
  ASSUME IInv, phase \in {"define", "lookup"}, cursor = ListHead
  PROVE  \A i \in 1..Len(functions) : expr[functions[i]].str # expr[cur].str
<1>1. functions \in Seq(Expr) /\ Len(functions) \in Nat
  BY DEF IInv, TypeOK
<1>2. PICK k \in 1..(Len(functions) + 1) :
        /\ cursor = RingAt(ListHead, functions, k)
        /\ \A j \in 1..(k - 1) : expr[functions[j]].str # expr[cur].str
  BY DEF IInv, CursorOK
<1>3. k = Len(functions) + 1
  BY <1>1, <1>2, HandlesFacts DEF RingAt
<1> QED
  BY <1>1, <1>2, <1>3

\* Evaluating an expression preserves the invariant.
LEMMA EvaluateKeeps == IInv /\ Evaluate => IInv'
<1> SUFFICES ASSUME IInv, Evaluate
             PROVE  IInv'
  OBVIOUS
<1>1. TypeOK /\ FunctionsSound
  BY DEF IInv
<1>2. /\ expr \in [Expr -> Expression] /\ ctl \in Seq(CallFrame) /\ Len(ctl) \in Nat
      /\ cur \in Expr \cup {NULL} /\ called \in Expr \cup {NULL}
  BY <1>1 DEF TypeOK
<1>3. phase \in {"eval", "define", "lookup"} =>
        /\ cur \in Expr /\ expr[cur].left \in Expr \cup {NULL} /\ expr[cur].list \in Seq(Expr)
  BY <1>2 DEF IInv, CurOK, Expression, Nameless, Named
<1>4. ctl # <<>> =>
        /\ Below \in Seq(CallFrame) /\ Frame \in CallFrame /\ Frame.i \in Nat
        /\ Frame.e # ListHead =>
             expr[Frame.e].left \in Expr \cup {NULL} /\ expr[Frame.e].list \in Seq(Expr)
        /\ Frame.op \in {"command", "list"} => Frame.e # ListHead
  <2>1. ctl # <<>> => Below \in Seq(CallFrame) /\ Frame \in CallFrame
    BY <1>2, Pop DEF Below, Frame
  <2>2. ctl # <<>> => /\ Frame.e \in Expr \cup {ListHead} /\ Frame.i \in Nat
                      /\ Frame.op \in {"command", "list"} => Frame.e # ListHead
    BY <2>1, FrameTyped
  <2> HIDE DEF Frame
  <2> QED
    BY <1>2, <2>1, <2>2 DEF Expression, Nameless, Named
<1>5. CASE EvalLeaf
  BY <1>2, <1>5, EvaluatedKeeps DEF EvalLeaf, eval
<1>6. CASE EvalCommand
  <2>1. [op |-> "command", e |-> cur, i |-> 0] \in CallFrame
    BY <1>3, <1>6 DEF EvalCommand, Entering, CallFrame
  <2>2. Evaluated /\ UNCHANGED <<links, cursor, called>> /\ ctl' \in Seq(CallFrame)
    BY <1>2, <1>6, <2>1 DEF EvalCommand, Descend
  <2>3. Continue(expr[cur].left) /\ expr[cur].left \in Expr \cup {NULL}
    BY <1>3, <1>6 DEF EvalCommand, Entering, Descend
  <2>4. /\ phase' \in {"eval", "return"} /\ cur' \in Expr \cup {NULL}
        /\ phase' = "eval" => cur' \in Expr
    BY <1>1, <2>3, ContinueTyped
  <2> QED
    BY <1>2, <2>2, <2>4, EvaluatedKeeps
<1>7. CASE SkipCommand
  BY <1>2, <1>7, EvaluatedKeeps DEF SkipCommand, eval
<1>8. CASE EvalList
  <2> DEFINE item == IF expr[cur].list = <<>> THEN NULL ELSE expr[cur].list[1]
  <2>1. [op |-> "list", e |-> cur, i |-> 1] \in CallFrame
    BY <1>3, <1>8 DEF EvalList, Entering, CallFrame
  <2>2. Evaluated /\ UNCHANGED <<links, cursor, called>> /\ ctl' \in Seq(CallFrame)
    BY <1>2, <1>8, <2>1 DEF EvalList, Descend
  <2>3. Continue(item) /\ item \in Expr \cup {NULL}
    BY <1>3, <1>8 DEF EvalList, Entering, Descend
  <2>4. /\ phase' \in {"eval", "return"} /\ cur' \in Expr \cup {NULL}
        /\ phase' = "eval" => cur' \in Expr
    BY <1>1, <2>3, ContinueTyped
  <2> QED
    BY <1>2, <2>2, <2>4, EvaluatedKeeps
<1>9. CASE EvalFunction
  <2>1. /\ phase' = "define" /\ cursor' = RingAt(ListHead, functions', 1)
        /\ cursor' \in Handles /\ 1 \in 1..(Len(functions') + 1)
    BY <1>1, <1>9, FirstCursor DEF EvalFunction, Evaluated
  <2>2. TypeOK'
    BY <1>1, <1>9, <2>1 DEF TypeOK, EvalFunction, Evaluated, tree, eval
  <2>3. FunctionsSound'
    BY <1>1, <1>9, ListsUntouched DEF EvalFunction, Evaluated, tree
  <2>4. CurOK'
    BY <1>3, <1>9, <2>1 DEF EvalFunction, Entering, Evaluated, tree, eval, CurOK
  <2> QED
    BY <2>1, <2>2, <2>3, <2>4 DEF IInv, CursorOK
<1>10. CASE EvalCall
  <2>1. /\ phase' = "lookup" /\ cursor' = RingAt(ListHead, functions', 1)
        /\ cursor' \in Handles /\ 1 \in 1..(Len(functions') + 1)
    BY <1>1, <1>10, FirstCursor DEF EvalCall, Evaluated
  <2>2. TypeOK'
    BY <1>1, <1>10, <2>1 DEF TypeOK, EvalCall, Evaluated, tree, eval
  <2>3. FunctionsSound'
    BY <1>1, <1>10, ListsUntouched DEF EvalCall, Evaluated, tree
  <2>4. CurOK'
    BY <1>3, <1>10, <2>1 DEF EvalCall, Entering, Evaluated, tree, eval, CurOK
  <2> QED
    BY <2>1, <2>2, <2>3, <2>4 DEF IInv, CursorOK
<1>11. CASE Search
  <2>1. PICK k \in 1..(Len(functions) + 1) :
          /\ cursor = RingAt(ListHead, functions, k)
          /\ \A j \in 1..(k - 1) : expr[functions[j]].str # expr[cur].str
    BY <1>11 DEF IInv, CursorOK, Search
  <2>2. /\ k \in 1..Len(functions) /\ cursor = functions[k]
        /\ cursor' = RingAt(ListHead, functions, k + 1) /\ cursor' \in Handles
        /\ k + 1 \in 1..(Len(functions) + 1)
    BY <1>1, <1>11, <2>1, NextCursor DEF Search
  <2>3. UNCHANGED <<expr, links, functions, cur, phase>> /\ expr[cursor].str # expr[cur].str
    BY <1>11 DEF Search, Found, Evaluated, tree, eval
  <2>4. TypeOK'
    BY <1>1, <1>11, <2>2 DEF TypeOK, Search, Evaluated, tree, eval
  <2>5. FunctionsSound' /\ CurOK'
    BY <1>1, <2>3, ListsUntouched DEF IInv, CurOK
  <2>6. \A j \in 1..k : expr[functions[j]].str # expr[cur].str
    BY <2>1, <2>2, <2>3
  <2>7. CursorOK'
    <3>1. \A j \in 1..(k + 1 - 1) : expr[functions[j]].str # expr[cur].str
      BY <2>2, <2>6
    <3> QED
      BY <1>11, <2>2, <2>3, <3>1 DEF CursorOK, Search
  <2> QED
    BY <2>4, <2>5, <2>7 DEF IInv
<1>12. CASE DefineNew
  <2>1. phase = "define" /\ cursor = ListHead /\ Defined(links, functions)
    BY <1>12 DEF DefineNew
  <2>2. SoundList(links, functions)
    BY <1>1, LinksTyped DEF SoundList, TypeOK, FunctionsSound
  <2> QED
    BY <2>1, <2>2, DefinedNames, DefinedIInv
<1>13. CASE Redefine
  <2>1. phase = "define" /\ Found /\ Defined(ListDel(links, cursor), Unlisted(cursor))
    BY <1>13 DEF Redefine
  <2> QED
    BY <2>1, RedefinedNames, DefinedIInv
<1>14. CASE CallFound
  <2>1. phase = "lookup" /\ Found
    BY <1>14 DEF CallFound
  <2>2. cursor \in Expr
    <3>1. PICK k \in 1..(Len(functions) + 1) : cursor = RingAt(ListHead, functions, k)
      BY <2>1 DEF IInv, CursorOK
    <3> QED
      BY <1>1, <2>1, <3>1, NextCursor DEF Found
  <2>3. [op |-> "arguments", e |-> cursor, i |-> 0] \in CallFrame
    BY <2>2, HandlesFacts DEF CallFrame
  <2>4. /\ Evaluated /\ UNCHANGED <<links, cursor>> /\ ctl' \in Seq(CallFrame)
        /\ called' \in Expr \cup {NULL}
    BY <1>2, <1>14, <2>2, <2>3 DEF CallFound, Descend
  <2>5. Continue(expr[cur].left) /\ expr[cur].left \in Expr \cup {NULL}
    BY <1>3, <1>14, <2>1 DEF CallFound, Descend
  <2>6. /\ phase' \in {"eval", "return"} /\ cur' \in Expr \cup {NULL}
        /\ phase' = "eval" => cur' \in Expr
    BY <1>1, <2>5, ContinueTyped
  <2> QED
    BY <2>4, <2>6, EvaluatedKeeps
<1>15. CASE CallMissing
  <2>1. phase = "lookup" /\ Evaluated /\ UNCHANGED <<links, cursor, called>>
    BY <1>15 DEF CallMissing
  <2>2. ctl' \in Seq(CallFrame)
    BY <1>2, <1>15, MissingFrame DEF CallMissing, Descend
  <2>3. Continue(expr[cur].left) /\ expr[cur].left \in Expr \cup {NULL}
    BY <1>3, <1>15, <2>1 DEF CallMissing, Descend
  <2>4. /\ phase' \in {"eval", "return"} /\ cur' \in Expr \cup {NULL}
        /\ phase' = "eval" => cur' \in Expr
    BY <1>1, <2>3, ContinueTyped
  <2> QED
    BY <1>2, <2>1, <2>2, <2>4, EvaluatedKeeps
<1>16. CASE StackOverflow
  BY <1>2, <1>16, EvaluatedKeeps DEF StackOverflow, eval
<1>17. CASE CallBody
  <2>1. ctl # <<>> /\ phase = "return" /\ Frame.op = "arguments" /\ Frame.e # ListHead
    BY <1>17 DEF CallBody, Returning, Frame
  <2>2. [Frame EXCEPT !.op = "body"] \in CallFrame
    BY <1>4, <2>1, FrameTyped
  <2>3. Evaluated /\ UNCHANGED <<links, cursor, called>> /\ ctl' \in Seq(CallFrame)
    BY <1>4, <1>17, <2>1, <2>2 DEF CallBody
  <2>4. Continue(expr[Frame.e].left) /\ expr[Frame.e].left \in Expr \cup {NULL}
    BY <1>4, <1>17, <2>1 DEF CallBody
  <2>5. /\ phase' \in {"eval", "return"} /\ cur' \in Expr \cup {NULL}
        /\ phase' = "eval" => cur' \in Expr
    BY <1>1, <2>4, ContinueTyped
  <2> QED
    BY <1>2, <2>3, <2>5, EvaluatedKeeps
<1>23. CASE CallNoBody
  <2>1. ctl # <<>> /\ phase = "return" /\ Frame.op = "arguments"
    BY <1>23 DEF CallNoBody, Returning, Frame
  <2>2. [Frame EXCEPT !.op = "body"] \in CallFrame
    BY <1>4, <2>1, FrameTyped
  <2>5. Append(Below, [Frame EXCEPT !.op = "body"]) \in Seq(CallFrame)
    BY <1>4, <2>1, <2>2
  <2>6. ctl' = Append(Below, [Frame EXCEPT !.op = "body"]) \/ ctl' = ctl
    BY <1>23 DEF CallNoBody
  <2>3. Evaluated /\ UNCHANGED <<links, cursor, called>> /\ ctl' \in Seq(CallFrame)
    BY <1>2, <1>23, <2>5, <2>6 DEF CallNoBody
  <2>4. /\ phase' \in {"return", "crashed"} /\ cur' = cur
    BY <1>23 DEF CallNoBody, Continue
  <2> QED
    BY <1>2, <2>3, <2>4, EvaluatedKeeps
<1>18. CASE CallReturn
  BY <1>2, <1>4, <1>18, EvaluatedKeeps DEF CallReturn, Returning
<1>19. CASE CommandAgain
  <2>1. /\ ctl # <<>> /\ Evaluated /\ UNCHANGED <<links, cursor, called, ctl>>
        /\ Continue(expr[Frame.e].left) /\ Frame.op = "command"
    BY <1>19 DEF CommandAgain, Returning, Frame
  <2>2. /\ phase' \in {"eval", "return"} /\ cur' \in Expr \cup {NULL}
        /\ phase' = "eval" => cur' \in Expr
    BY <1>1, <1>4, <2>1, ContinueTyped
  <2> QED
    BY <1>2, <2>1, <2>2, EvaluatedKeeps
<1>20. CASE CommandReturn
  BY <1>2, <1>4, <1>20, EvaluatedKeeps DEF CommandReturn, Returning
<1>21. CASE ListItem
  <2>1. ctl # <<>> /\ Frame.op = "list" /\ Frame.i < Len(expr[Frame.e].list)
    BY <1>21 DEF ListItem, Returning, Frame
  <2>2. [Frame EXCEPT !.i = @ + 1] \in CallFrame
    BY <1>4, <2>1, FrameTyped
  <2>3. Evaluated /\ UNCHANGED <<links, cursor, called>> /\ ctl' \in Seq(CallFrame)
    BY <1>4, <1>21, <2>1, <2>2 DEF ListItem
  <2>4. Continue(expr[Frame.e].list[Frame.i + 1]) /\ expr[Frame.e].list[Frame.i + 1] \in Expr \cup {NULL}
    BY <1>4, <1>21, <2>1 DEF ListItem
  <2>5. /\ phase' \in {"eval", "return"} /\ cur' \in Expr \cup {NULL}
        /\ phase' = "eval" => cur' \in Expr
    BY <1>1, <2>4, ContinueTyped
  <2> QED
    BY <1>2, <2>3, <2>5, EvaluatedKeeps
<1>22. CASE ListReturn
  BY <1>2, <1>4, <1>22, EvaluatedKeeps DEF ListReturn, Returning
<1> QED
  BY <1>5, <1>6, <1>7, <1>8, <1>9, <1>10, <1>11, <1>12, <1>13, <1>14, <1>15, <1>16, <1>17,
     <1>18, <1>19, <1>20, <1>21, <1>22, <1>23 DEF Evaluate

-----------------------------------------------------------------------------
(* The theorems                                                            *)

\* Every step of an environment preserves the invariant.
LEMMA NextIInv == IInv /\ [Next]_vars => IInv'
<1> SUFFICES ASSUME IInv, [Next]_vars
             PROVE  IInv'
  OBVIOUS
<1>1. CASE Stopped \/ UNCHANGED vars
  <2>1. UNCHANGED vars
    BY <1>1 DEF Stopped
  <2>2. TypeOK' /\ FunctionsSound' /\ CursorOK' /\ CurOK'
    BY <2>1 DEF vars, tree, eval, IInv, TypeOK, FunctionsSound, CursorOK, CurOK
  <2> QED
    BY <2>2 DEF IInv
<1> QED
  BY <1>1, ParseKeeps, DeleteKeeps, RunKeeps, EvaluateKeeps DEF Next

\* What an environment keeps of scripts, trees and functions has its types.
THEOREM TypesCorrect == Spec => []TypeOK
<1>1. IInv => TypeOK
  BY DEF IInv
<1> QED
  BY InitIInv, NextIInv, <1>1, PTL DEF Spec

\* kfs_lang_env.c:616, expression.c:222: the functions are a sound list of
\* allocated definitions, one for each name, whatever is defined, redefined, freed
\* and forgotten.
THEOREM FunctionsStaySound == Spec => []FunctionsSound
<1>1. IInv => FunctionsSound
  BY DEF IInv
<1> QED
  BY InitIInv, NextIInv, <1>1, PTL DEF Spec

-----------------------------------------------------------------------------
(* The refinement                                                          *)

\* Table for any expressions x and list s of functions.
TableOf(x, s) ==
  [n \in Names |->
     IF \E i \in 1..Len(s) : x[s[i]].str = n
     THEN CHOOSE e \in Expr : x[e].str = n /\ \E i \in 1..Len(s) : s[i] = e
     ELSE NULL]

\* The table leads to the one function of a name.
LEMMA TableEntry ==
  ASSUME NEW x, NEW s \in Seq(Expr), NEW n \in Names,
         \A i, j \in 1..Len(s) : x[s[i]].str = x[s[j]].str => i = j
  PROVE  /\ \A i \in 1..Len(s) : x[s[i]].str = n => TableOf(x, s)[n] = s[i]
         /\ (\A i \in 1..Len(s) : x[s[i]].str # n) => TableOf(x, s)[n] = NULL
<1>1. ASSUME NEW i \in 1..Len(s), x[s[i]].str = n
      PROVE  TableOf(x, s)[n] = s[i]
  <2> DEFINE P(e) == x[e].str = n /\ \E k \in 1..Len(s) : s[k] = e
             c == CHOOSE e \in Expr : P(e)
  <2>1. TableOf(x, s)[n] = c
    BY <1>1 DEF TableOf
  <2>2. s[i] \in Expr /\ P(s[i])
    BY <1>1
  <2>3. c \in Expr /\ P(c)
    BY <2>2
  <2>4. c = s[i]
    BY <1>1, <2>3
  <2> QED
    BY <2>1, <2>4
<1>2. (\A i \in 1..Len(s) : x[s[i]].str # n) => TableOf(x, s)[n] = NULL
  BY DEF TableOf
<1> QED
  BY <1>1, <1>2

\* A table is a function.
LEMMA TableIsFunction ==
  ASSUME NEW x, NEW s
  PROVE  TableOf(x, s) = [n \in Names |-> TableOf(x, s)[n]]
BY DEF TableOf

\* What the lemmas on the table need of the invariant.
LEMMA TableReady ==
  IInv => /\ functions \in Seq(Expr) /\ Len(functions) \in Nat
          /\ \A i, j \in 1..Len(functions) :
               expr[functions[i]].str = expr[functions[j]].str => i = j
          /\ \A i \in 1..Len(functions) :
               expr[functions[i]].str \in Names /\ expr[functions[i]].type = "function"
          /\ Table = TableOf(expr, functions)
<1> SUFFICES ASSUME IInv
             PROVE  /\ functions \in Seq(Expr) /\ Len(functions) \in Nat
                    /\ \A i, j \in 1..Len(functions) :
                         expr[functions[i]].str = expr[functions[j]].str => i = j
                    /\ \A i \in 1..Len(functions) :
                         expr[functions[i]].str \in Names /\ expr[functions[i]].type = "function"
                    /\ Table = TableOf(expr, functions)
  OBVIOUS
<1>1. functions \in Seq(Expr) /\ Len(functions) \in Nat /\ expr \in [Expr -> Expression]
  BY DEF IInv, TypeOK
<1>2. \A i \in 1..Len(functions) : expr[functions[i]] \in Named
  BY <1>1 DEF IInv, FunctionsSound, Expression, Nameless, Named
<1> QED
  BY <1>1, <1>2 DEF IInv, FunctionsSound, Table, TableOf, Named

\* The same after a step.
LEMMA TableReadyNext ==
  ASSUME IInv'
  PROVE  /\ functions' \in Seq(Expr) /\ Len(functions') \in Nat
         /\ Table' = TableOf(expr', functions')
         /\ \A n \in Names :
              /\ \A i \in 1..Len(functions') :
                   expr'[functions'[i]].str = n => TableOf(expr', functions')[n] = functions'[i]
              /\ (\A i \in 1..Len(functions') : expr'[functions'[i]].str # n) =>
                   TableOf(expr', functions')[n] = NULL
<1>1. /\ functions' \in Seq(Expr) /\ Len(functions') \in Nat
      /\ \A i, j \in 1..Len(functions') :
           expr'[functions'[i]].str = expr'[functions'[j]].str => i = j
  BY DEF IInv, TypeOK, FunctionsSound
<1> QED
  BY <1>1, TableEntry DEF Table, TableOf

\* A step that keeps the list and the names in it keeps the table.
LEMMA SameTable ==
  ASSUME IInv, functions' = functions,
         \A i \in 1..Len(functions) : expr'[functions[i]].str = expr[functions[i]].str
  PROVE  Table' = Table
<1>1. ASSUME NEW n \in Names
      PROVE  TableOf(expr', functions)[n] = TableOf(expr, functions)[n]
  <2>1. CASE \E i \in 1..Len(functions) : expr[functions[i]].str = n
    BY <2>1, TableReady, TableEntry
  <2>2. CASE \A i \in 1..Len(functions) : expr[functions[i]].str # n
    BY <2>2, TableReady, TableEntry
  <2> QED
    BY <2>1, <2>2
<1>2. TableOf(expr', functions) = TableOf(expr, functions)
  <2>1. [n \in Names |-> TableOf(expr', functions)[n]] = [n \in Names |-> TableOf(expr, functions)[n]]
    BY <1>1
  <2> QED
    BY <2>1, TableIsFunction
<1>3. Table' = TableOf(expr', functions')
  BY DEF Table, TableOf
<1> QED
  BY <1>2, <1>3, TableReady

\* A function that leaves the list drops one name from the table.
LEMMA DropTable ==
  ASSUME IInv, IInv', NEW e \in Expr, Listed(e),
         \A i \in 1..Len(functions') : functions'[i] # e /\ Listed(functions'[i]),
         \A j \in 1..Len(functions) :
           functions[j] # e => \E i \in 1..Len(functions') : functions'[i] = functions[j],
         \A x \in Expr \ {e} : expr'[x].str = expr[x].str
  PROVE  expr[e].str \in Names /\ Table' = [Table EXCEPT ![expr[e].str] = NULL]
<1>1. expr[e].str \in Names
  BY TableReady DEF Listed
<1>2. /\ functions' \in Seq(Expr) /\ Len(functions') \in Nat
      /\ \A i, j \in 1..Len(functions') :
           expr'[functions'[i]].str = expr'[functions'[j]].str => i = j
  BY DEF IInv, TypeOK, FunctionsSound
<1>3. ASSUME NEW n \in Names
      PROVE  TableOf(expr', functions')[n] =
               IF n = expr[e].str THEN NULL ELSE TableOf(expr, functions)[n]
  <2>1. CASE n = expr[e].str
    <3>1. ASSUME NEW i \in 1..Len(functions')
          PROVE  expr'[functions'[i]].str # n
      <4>1. PICK j \in 1..Len(functions) : functions[j] = functions'[i]
        BY DEF Listed
      <4>2. PICK k \in 1..Len(functions) : functions[k] = e
        BY DEF Listed
      <4>3. functions'[i] \in Expr /\ functions'[i] # e
        BY <1>2
      <4> QED
        BY <2>1, <4>1, <4>2, <4>3, TableReady
    <3> QED
      BY <1>2, <2>1, <3>1, TableEntry
  <2>2. CASE n # expr[e].str /\ \E j \in 1..Len(functions) : expr[functions[j]].str = n
    <3>1. PICK j \in 1..Len(functions) : expr[functions[j]].str = n
      BY <2>2
    <3>2. functions[j] # e /\ functions[j] \in Expr
      BY <2>2, <3>1, TableReady
    <3>3. PICK i \in 1..Len(functions') : functions'[i] = functions[j]
      BY <3>2
    <3>4. expr'[functions'[i]].str = n
      BY <3>1, <3>2, <3>3
    <3>5. TableOf(expr', functions')[n] = functions'[i]
      BY <1>2, <3>4, TableEntry
    <3>6. TableOf(expr, functions)[n] = functions[j]
      BY <3>1, TableReady, TableEntry
    <3> QED
      BY <2>2, <3>3, <3>5, <3>6
  <2>3. CASE n # expr[e].str /\ \A j \in 1..Len(functions) : expr[functions[j]].str # n
    <3>1. ASSUME NEW i \in 1..Len(functions')
          PROVE  expr'[functions'[i]].str # n
      BY <1>2, <2>3 DEF Listed
    <3>2. TableOf(expr', functions')[n] = NULL
      BY <1>2, <3>1, TableEntry
    <3> QED
      BY <2>3, <3>2, TableReady, TableEntry
  <2> QED
    BY <2>1, <2>2, <2>3
<1>4. Table' = TableOf(expr', functions') /\ Table = TableOf(expr, functions)
  BY TableReady DEF Table, TableOf
<1>5. TableOf(expr', functions') = [TableOf(expr, functions) EXCEPT ![expr[e].str] = NULL]
  <2>1. [n \in Names |-> TableOf(expr', functions')[n]] =
          [[n \in Names |-> TableOf(expr, functions)[n]] EXCEPT ![expr[e].str] = NULL]
    BY <1>3
  <2> QED
    BY <2>1, TableIsFunction
<1> QED
  BY <1>1, <1>4, <1>5

\* The end of a definition enters it under its name.
LEMMA DefineTable ==
  ASSUME IInv, IInv', phase = "define", NEW rest \in Seq(Expr),
         Len(functions') = Len(rest) + 1, functions'[1] = cur,
         \A i \in 1..Len(rest) : functions'[i + 1] = rest[i],
         \A x \in Expr : expr'[x].str = expr[x].str,
         \A i \in 1..Len(rest) : Listed(rest[i]) /\ expr[rest[i]].str # expr[cur].str,
         \A j \in 1..Len(functions) :
           expr[functions[j]].str # expr[cur].str => \E i \in 1..Len(rest) : rest[i] = functions[j]
  PROVE  expr[cur].str \in Names /\ Table' = [Table EXCEPT ![expr[cur].str] = cur]
<1>1. cur \in Expr /\ expr[cur].str \in Names
  BY DEF IInv, TypeOK, CurOK, Expression, Nameless, Named
<1>2. /\ functions' \in Seq(Expr) /\ Len(functions') \in Nat
      /\ \A i, j \in 1..Len(functions') :
           expr'[functions'[i]].str = expr'[functions'[j]].str => i = j
  BY DEF IInv, TypeOK, FunctionsSound
<1>3. /\ Len(rest) \in Nat
      /\ \A i \in 1..Len(rest) : functions'[i + 1] = rest[i] /\ i + 1 \in 1..Len(functions')
      /\ \A i \in 2..Len(functions') : functions'[i] = rest[i - 1] /\ i - 1 \in 1..Len(rest)
  OBVIOUS
<1>4. ASSUME NEW n \in Names
      PROVE  TableOf(expr', functions')[n] =
               IF n = expr[cur].str THEN cur ELSE TableOf(expr, functions)[n]
  <2>1. \A i \in 1..Len(functions') :
          expr'[functions'[i]].str = n => TableOf(expr', functions')[n] = functions'[i]
    BY TableReadyNext
  <2>2. CASE n = expr[cur].str
    <3>1. PICK p \in 1..Len(functions') : functions'[p] = cur
      BY <1>1, <1>3
    <3>2. expr'[functions'[p]].str = n
      BY <1>1, <2>2, <3>1
    <3>3. TableOf(expr', functions')[n] = functions'[p]
      BY <2>1, <3>2
    <3> QED
      BY <2>2, <3>1, <3>3
  <2>3. CASE n # expr[cur].str /\ \E j \in 1..Len(functions) : expr[functions[j]].str = n
    <3>1. PICK j \in 1..Len(functions) : expr[functions[j]].str = n
      BY <2>3
    <3>2. PICK i \in 1..Len(rest) : rest[i] = functions[j]
      BY <2>3, <3>1
    <3>3. TableOf(expr', functions')[n] = functions[j]
      <4>1. PICK p \in 1..Len(functions') : functions'[p] = rest[i]
        BY <1>3
      <4>2. expr'[functions'[p]].str = n
        BY <3>1, <3>2, <4>1
      <4>3. TableOf(expr', functions')[n] = functions'[p]
        BY <2>1, <4>2
      <4> QED
        BY <3>2, <4>1, <4>3
    <3>4. TableOf(expr, functions)[n] = functions[j]
      BY <3>1, TableReady, TableEntry
    <3> QED
      BY <2>3, <3>3, <3>4
  <2>4. CASE n # expr[cur].str /\ \A j \in 1..Len(functions) : expr[functions[j]].str # n
    <3>1. ASSUME NEW i \in 1..Len(functions')
          PROVE  expr'[functions'[i]].str # n
      <4>1. CASE i = 1
        BY <1>1, <1>3, <2>4, <4>1
      <4>2. CASE i # 1
        <5>1. PICK k \in 1..Len(rest) : functions'[i] = rest[k]
          <6>1. i \in 2..Len(functions')
            BY <1>2, <4>2
          <6>2. i - 1 \in 1..Len(rest) /\ functions'[i] = rest[i - 1]
            BY <1>3, <6>1
          <6> QED
            BY <6>2
        <5>2. PICK j \in 1..Len(functions) : functions[j] = rest[k]
          BY DEF Listed
        <5> QED
          BY <2>4, <5>1, <5>2
      <4> QED
        BY <4>1, <4>2
    <3>2. TableOf(expr', functions')[n] = NULL
      BY <1>2, <3>1, TableEntry
    <3> QED
      BY <2>4, <3>2, TableReady, TableEntry
  <2> QED
    BY <2>2, <2>3, <2>4
<1>5. Table' = TableOf(expr', functions') /\ Table = TableOf(expr, functions)
  BY TableReady DEF Table, TableOf
<1>6. TableOf(expr', functions') = [TableOf(expr, functions) EXCEPT ![expr[cur].str] = cur]
  <2>1. [n \in Names |-> TableOf(expr', functions')[n]] =
          [[n \in Names |-> TableOf(expr, functions)[n]] EXCEPT ![expr[cur].str] = cur]
    BY <1>4
  <2> QED
    BY <2>1, TableIsFunction
<1> QED
  BY <1>1, <1>5, <1>6

\* Doing follows from the phase.
LEMMA DoingNothing ==
  /\ phase \notin {"define", "lookup"} => Doing = [op |-> "nothing"]
  /\ phase = "define" => Doing = [op |-> "define", name |-> expr[cur].str, def |-> cur]
  /\ phase = "lookup" => Doing = [op |-> "call", name |-> expr[cur].str]
BY DEF Doing

\* expression_delete, too, can only drop a function.
LEMMA DeleteDrops ==
  ASSUME IInv, IInv', NEW e \in Expr, DeleteSelf(e)
  PROVE  \/ Table' = Table /\ (~Listed(e))
         \/ Listed(e) /\ \E n \in Names : Table' = [Table EXCEPT ![n] = NULL]
<1>1. TypeOK /\ FunctionsSound
  BY DEF IInv
<1>2. expr' = [expr EXCEPT ![e] = Free] /\ DOMAIN expr = Expr
  BY <1>1 DEF DeleteSelf, TypeOK
<1>3. CASE ~Listed(e)
  <2>1. functions' = functions
    BY <1>1, <1>3, UnlinkKeeps
  <2>2. \A i \in 1..Len(functions) : functions[i] \in Expr /\ functions[i] # e
    BY <1>1, <1>3 DEF Listed, TypeOK
  <2>3. \A i \in 1..Len(functions) : expr'[functions[i]].str = expr[functions[i]].str
    BY <1>2, <2>2
  <2> QED
    BY <1>3, <2>1, <2>3, SameTable
<1>4. CASE Listed(e)
  <2>1. /\ \A i \in 1..Len(functions') : functions'[i] # e /\ Listed(functions'[i])
        /\ \A j \in 1..Len(functions) :
             functions[j] # e => \E i \in 1..Len(functions') : functions'[i] = functions[j]
    BY <1>1, UnlinkKeeps
  <2>2. \A x \in Expr \ {e} : expr'[x].str = expr[x].str
    BY <1>2
  <2> QED
    BY <1>4, <2>1, <2>2, DropTable
<1> QED
  BY <1>3, <1>4

\* Steps that neither touch the functions nor look at them.
LEMMA TableUntouched ==
  ASSUME IInv, UNCHANGED <<expr, functions>>
  PROVE  Table' = Table
BY SameTable

\* Parsing a script: it begins to run with the end of the parse.
LEMMA ParseRefines ==
  ASSUME IInv, IInv', Parse
  PROVE  [Promise!Next]_(Promise!table_vars)
<1> USE DEF Promise!table_vars, Promise!Nothing
<1>1. TypeOK /\ FunctionsSound /\ phase = "parse"
  BY DEF IInv, Parse, ReduceLeaf, ReduceCall, ReduceCommand, ReduceFunction, ReduceFirst,
         ReduceNext, ReduceDelist, ParseDone, SyntaxError, Reducing
<1>2. expr \in [Expr -> Expression] /\ values \in Seq(Expr) /\ functions \in Seq(Expr)
  BY <1>1 DEF TypeOK
<1>3. CASE ReduceLeaf \/ ReduceCall \/ ReduceCommand \/ ReduceFunction \/ ReduceFirst
  <2>1. /\ Reduced /\ UNCHANGED functions
        /\ \E type, str, left, list : New(NewAddress, type, str, left, list)
    BY <1>3 DEF ReduceLeaf, ReduceCall, ReduceCommand, ReduceFunction, ReduceFirst
  <2>2. PICK type, str, left, list : New(NewAddress, type, str, left, list)
    BY <2>1
  <2>3. ~Listed(NewAddress) /\ DOMAIN expr = Expr
    BY <1>1, <1>2, <2>1, <2>2, NewKeeps
  <2>4. \A i \in 1..Len(functions) : functions[i] \in Expr /\ functions[i] # NewAddress
    BY <1>2, <2>3 DEF Listed
  <2>5. \A i \in 1..Len(functions) : expr'[functions[i]].str = expr[functions[i]].str
    BY <2>2, <2>3, <2>4 DEF New
  <2>6. Table' = Table
    BY <2>1, <2>5, SameTable
  <2> QED
    BY <1>1, <2>1, <2>6 DEF Reduced, eval, Doing, Busy
<1>4. CASE ReduceNext
  <2>1. \A e \in Expr : expr'[e].str = expr[e].str
    BY <1>2, <1>4 DEF ReduceNext, Expression, Nameless, Named
  <2>2. \A i \in 1..Len(functions) : functions[i] \in Expr
    BY <1>2
  <2>3. Table' = Table
    BY <1>4, <2>1, <2>2, SameTable DEF ReduceNext
  <2> QED
    BY <1>1, <1>4, <2>3 DEF ReduceNext, Reduced, eval, Doing, Busy
<1>5. CASE ReduceDelist
  <2>1. Table' = Table
    <3>1. CASE expr[Top].type = "list" /\ Len(expr[Top].list) = 1
      <4>1. Top \in Expr /\ DeleteSelf(Top)
        BY <1>2, <1>5, <3>1 DEF ReduceDelist, Reducing, Delist, Top
      <4>2. ~Listed(Top)
        BY <1>1, <3>1 DEF FunctionsSound, Listed
      <4> QED
        BY <4>1, <4>2, DeleteDrops
    <3>2. CASE ~(expr[Top].type = "list" /\ Len(expr[Top].list) = 1)
      BY <1>5, <3>2, TableUntouched DEF ReduceDelist, Delist
    <3> QED
      BY <3>1, <3>2
  <2> QED
    BY <1>1, <1>5, <2>1 DEF ReduceDelist, Reduced, eval, Doing, Busy
<1>6. CASE ParseDone
  <2>1. Table' = Table /\ called' = called /\ phase' = "eval"
    BY <1>6, TableUntouched DEF ParseDone
  <2>2. Promise!Begin
    BY <1>1, <2>1 DEF Promise!Begin, Doing, Busy
  <2> QED
    BY <2>2 DEF Promise!Next
<1>7. CASE SyntaxError
  <2>1. Table' = Table /\ called' = called /\ phase' = "idle"
    BY <1>7, TableUntouched DEF SyntaxError, eval
  <2> QED
    BY <1>1, <2>1 DEF Doing, Busy
<1> QED
  BY <1>3, <1>4, <1>5, <1>6, <1>7 DEF Parse

\* Freeing a tree and forgetting the functions only drops functions, and only when
\* no script runs.
LEMMA DeleteRefines ==
  ASSUME IInv, IInv', Delete
  PROVE  [Promise!Next]_(Promise!table_vars)
<1> USE DEF Promise!table_vars, Promise!Nothing
<1>1. TypeOK /\ phase = "delete" /\ Doing = [op |-> "nothing"] /\ ~Busy
  BY DEF IInv, Delete, DeleteChild, DeleteNode, DeleteDone, Doing, Busy
<1>2. CASE DeleteChild
  BY <1>2, TableUntouched DEF DeleteChild, tree, eval, Doing, Busy
<1>3. CASE DeleteNode
  <2>1. Doomed.e \in Expr /\ DeleteSelf(Doomed.e)
    <3>1. Doomed \in DeleteCall
      BY <1>1, <1>3, Pop DEF TypeOK, DeleteNode, Doomed
    <3> QED
      BY <1>3, <3>1 DEF DeleteNode, DeleteCall
  <2>2. Doing' = Doing /\ Busy' = Busy /\ called' = called
    BY <1>1, <1>3 DEF DeleteNode, eval, Doing, Busy
  <2>3. CASE Table' = Table
    BY <2>2, <2>3
  <2>4. ASSUME NEW n \in Names, Table' = [Table EXCEPT ![n] = NULL]
        PROVE  Promise!Drop(n)
    BY <1>1, <2>2, <2>4 DEF Promise!Drop
  <2> QED
    BY <2>1, <2>3, <2>4, DeleteDrops DEF Promise!Next
<1>4. CASE DeleteDone
  <2>1. phase' \in {"idle", "parse", "closed"}
    BY <1>1, <1>4 DEF DeleteDone, TypeOK
  <2> QED
    BY <1>1, <1>4, <2>1, TableUntouched DEF DeleteDone, eval, Doing, Busy
<1> QED
  BY <1>2, <1>3, <1>4 DEF Delete

\* The same of running scripts one after another.
LEMMA RunRefines ==
  ASSUME IInv, IInv', Run \/ NoValue \/ Finish \/ Close \/ CleanupStep \/ CleanupDone
  PROVE  [Promise!Next]_(Promise!table_vars)
<1> USE DEF Promise!table_vars, Promise!Nothing
<1>1. TypeOK /\ FunctionsSound
  BY DEF IInv
<1>2. CASE Run
  <2>1. phase = "idle" /\ phase' \in {"parse", "delete"} /\ UNCHANGED <<expr, functions, called>>
    BY <1>2 DEF Run, RunMain, RunEval, DeleteRoot, tree, eval
  <2> QED
    BY <2>1, TableUntouched DEF Doing, Busy
<1>3. CASE NoValue
  <2>1. phase = "return" /\ phase' = "crashed" /\ UNCHANGED <<expr, functions, called>>
    BY <1>3 DEF NoValue, tree, eval
  <2> QED
    BY <2>1, TableUntouched DEF Doing, Busy
<1>4. CASE Finish
  <2>1. phase = "return" /\ phase' \in {"idle", "cleanup"} /\ UNCHANGED <<expr, functions, called>>
    BY <1>4 DEF Finish, tree, eval
  <2>2. Promise!End
    BY <2>1, TableUntouched DEF Promise!End, Doing, Busy
  <2> QED
    BY <2>2 DEF Promise!Next
<1>5. CASE Close
  <2>1. phase = "idle" /\ phase' = "cleanup" /\ UNCHANGED <<expr, functions, called>>
    BY <1>5 DEF Close, tree, eval
  <2> QED
    BY <2>1, TableUntouched DEF Doing, Busy
<1>6. CASE CleanupStep
  <2>1. /\ phase = "cleanup" /\ phase' = "cleanup" /\ UNCHANGED <<expr, called>>
        /\ functions' = Unlisted(cursor) /\ cursor # ListHead
    BY <1>6 DEF CleanupStep, tree, eval
  <2>2. cursor \in Expr /\ Listed(cursor)
    <3>1. PICK k \in 1..(Len(functions) + 1) : cursor = RingAt(ListHead, functions, k)
      BY <2>1 DEF IInv, CursorOK
    <3> QED
      BY <1>1, <2>1, <3>1, NextCursor
  <2>3. /\ \A i \in 1..Len(functions') : functions'[i] # cursor /\ Listed(functions'[i])
        /\ \A j \in 1..Len(functions) :
             functions[j] # cursor => \E i \in 1..Len(functions') : functions'[i] = functions[j]
    BY <1>1, <2>1, <2>2, UnlinkListed
  <2>4. expr[cursor].str \in Names /\ Table' = [Table EXCEPT ![expr[cursor].str] = NULL]
    BY <2>1, <2>2, <2>3, DropTable
  <2>5. Promise!Drop(expr[cursor].str)
    BY <2>1, <2>4 DEF Promise!Drop, Doing, Busy
  <2> QED
    BY <2>4, <2>5 DEF Promise!Next
<1>7. CASE CleanupDone
  <2>1. /\ phase = "cleanup" /\ phase' \in {"idle", "parse", "closed", "delete"}
        /\ UNCHANGED <<expr, functions, called>>
    BY <1>1, <1>7 DEF CleanupDone, DeleteRoot, TypeOK, tree, eval
  <2> QED
    BY <2>1, TableUntouched DEF Doing, Busy
<1> QED
  BY <1>2, <1>3, <1>4, <1>5, <1>6, <1>7

\* Evaluating: definitions and calls take two steps, of which the second one has
\* the effect.
LEMMA EvaluateRefines ==
  ASSUME IInv, IInv', Evaluate
  PROVE  [Promise!Next]_(Promise!table_vars)
<1> USE DEF Promise!table_vars, Promise!Nothing
<1>1. TypeOK /\ FunctionsSound
  BY DEF IInv
<1>2. CASE EvalLeaf \/ EvalCommand \/ SkipCommand \/ CommandAgain \/ EvalList \/ StackOverflow
           \/ CallBody \/ CallNoBody \/ CallReturn \/ CommandReturn \/ ListItem \/ ListReturn
  <2>1. Evaluated /\ UNCHANGED called /\ phase \in {"eval", "return"}
        /\ phase' \in {"eval", "return", "crashed"}
    BY <1>2 DEF EvalLeaf, EvalCommand, SkipCommand, CommandAgain, EvalList, StackOverflow,
                CallBody, CallNoBody, CallReturn, CommandReturn, ListItem, ListReturn, Entering, Returning,
                Descend, Continue, eval
  <2> QED
    BY <2>1, TableUntouched DEF Evaluated, tree, Doing, Busy
<1>3. CASE EvalFunction
  <2>1. /\ phase = "eval" /\ phase' = "define" /\ expr[cur].type = "function" /\ cur \in Expr
        /\ UNCHANGED <<expr, functions, called, cur>>
    BY <1>3 DEF EvalFunction, Entering, Evaluated, tree, eval, IInv, CurOK
  <2>2. expr[cur].str \in Names
    BY <1>1, <2>1 DEF TypeOK, Expression, Nameless, Named
  <2>3. Promise!BeginDefine(expr[cur].str, cur)
    BY <2>1, TableUntouched DEF Promise!BeginDefine, Doing, Busy
  <2> QED
    BY <2>1, <2>2, <2>3 DEF Promise!Next
<1>4. CASE EvalCall
  <2>1. /\ phase = "eval" /\ phase' = "lookup" /\ expr[cur].type = "call" /\ cur \in Expr
        /\ UNCHANGED <<expr, functions, called, cur>>
    BY <1>4 DEF EvalCall, Entering, Evaluated, tree, eval, IInv, CurOK
  <2>2. expr[cur].str \in Names
    BY <1>1, <2>1 DEF TypeOK, Expression, Nameless, Named
  <2>3. Promise!BeginCall(expr[cur].str)
    BY <2>1, TableUntouched DEF Promise!BeginCall, Doing, Busy
  <2> QED
    BY <2>2, <2>3 DEF Promise!Next
<1>5. CASE Search
  BY <1>5, TableUntouched DEF Search, Evaluated, tree, eval, Doing, Busy
<1>6. CASE DefineNew \/ Redefine
  <2> DEFINE rest == IF cursor = ListHead THEN functions ELSE Unlisted(cursor)
  <2>1. phase = "define" /\ phase' = "return" /\ functions' = <<cur>> \o rest /\ UNCHANGED <<expr, called>>
    BY <1>6 DEF DefineNew, Redefine, Found, Defined, tree, eval
  <2>2. /\ rest \in Seq(Expr)
        /\ \A i \in 1..Len(rest) : Listed(rest[i]) /\ expr[rest[i]].str # expr[cur].str
        /\ \A j \in 1..Len(functions) :
             expr[functions[j]].str # expr[cur].str => \E i \in 1..Len(rest) : rest[i] = functions[j]
    <3>1. CASE DefineNew
      BY <2>1, <3>1, DefinedNames, TableReady DEF DefineNew, Listed
    <3>2. CASE Redefine
      <4>1. Found /\ cursor \in Expr /\ Listed(cursor) /\ rest = Unlisted(cursor)
            /\ expr[cursor].str = expr[cur].str
        BY <3>2, RedefinedNames DEF Redefine, Found
      <4>2. /\ SoundList(ListDel(links, cursor), Unlisted(cursor))
            /\ \A i \in 1..Len(Unlisted(cursor)) : Listed(Unlisted(cursor)[i])
            /\ \A j \in 1..Len(functions) :
                 functions[j] # cursor => \E i \in 1..Len(Unlisted(cursor)) : Unlisted(cursor)[i] = functions[j]
        BY <1>1, <4>1, UnlinkListed
      <4>3. \A i \in 1..Len(Unlisted(cursor)) : expr[Unlisted(cursor)[i]].str # expr[cur].str
        BY <2>1, <4>1, RedefinedNames
      <4>4. \A j \in 1..Len(functions) : expr[functions[j]].str # expr[cur].str => functions[j] # cursor
        BY <4>1
      <4> QED
        BY <4>1, <4>2, <4>3, <4>4 DEF SoundList
    <3> QED
      BY <1>6, <3>1, <3>2
  <2> HIDE DEF rest
  <2>3. cur \in Expr /\ expr[cur].str \in Names
    BY <1>1, <2>1 DEF IInv, CurOK, TypeOK, Expression, Nameless, Named
  <2>4. /\ Len(functions') = Len(rest) + 1 /\ functions'[1] = cur
        /\ \A i \in 1..Len(rest) : functions'[i + 1] = rest[i]
    BY <2>1, <2>2, <2>3
  <2>5. Table' = [Table EXCEPT ![expr[cur].str] = cur]
    BY <2>1, <2>2, <2>4, DefineTable
  <2>6. Promise!Define
    <3>1. Doing.op = "define" /\ Doing.name = expr[cur].str /\ Doing.def = cur
      BY <2>1, DoingNothing
    <3>2. Doing' = [op |-> "nothing"] /\ Busy' = Busy /\ called' = called
      BY <2>1 DEF Doing, Busy
    <3> QED
      BY <2>5, <3>1, <3>2 DEF Promise!Define
  <2> QED
    BY <2>6 DEF Promise!Next
<1>7. CASE CallFound
  <2>1. /\ phase = "lookup" /\ phase' \in {"eval", "return"} /\ called' = cursor
        /\ cursor # ListHead /\ expr[cursor].str = expr[cur].str
        /\ UNCHANGED <<expr, functions>>
    BY <1>7 DEF CallFound, Found, Descend, Continue, Evaluated, tree
  <2>2. PICK k \in 1..(Len(functions) + 1) : cursor = RingAt(ListHead, functions, k)
    BY <2>1 DEF IInv, CursorOK
  <2>3. k \in 1..Len(functions) /\ cursor = functions[k] /\ cursor \in Expr
    BY <1>1, <2>1, <2>2, NextCursor
  <2>4. expr[cur].str \in Names /\ Table[expr[cur].str] = cursor
    <3>1. expr[functions[k]].str \in Names
      BY <2>3, TableReady
    <3>2. TableOf(expr, functions)[expr[functions[k]].str] = functions[k]
      BY <2>3, <3>1, TableReady, TableEntry
    <3> QED
      BY <2>1, <2>3, <3>1, <3>2, TableReady
  <2>5. cursor # NULL /\ Table' = Table
    BY <2>1, <2>3, HandlesFacts, TableUntouched
  <2>6. Promise!Call
    BY <2>1, <2>4, <2>5 DEF Promise!Call, Doing, Busy
  <2> QED
    BY <2>6 DEF Promise!Next
<1>8. CASE CallMissing
  <2>1. /\ phase = "lookup" /\ phase' \in {"eval", "return"} /\ cursor = ListHead
        /\ UNCHANGED <<expr, functions, called>> /\ cur \in Expr /\ expr[cur].type = "call"
    BY <1>8 DEF CallMissing, Descend, Continue, Evaluated, tree, eval, IInv, CurOK
  <2>2. expr[cur].str \in Names
    BY <1>1, <2>1 DEF TypeOK, Expression, Nameless, Named
  <2>3. Table[expr[cur].str] = NULL
    BY <2>1, <2>2, DefinedNames, TableReady, TableEntry
  <2>4. Promise!CallNothing
    BY <2>1, <2>3, TableUntouched DEF Promise!CallNothing, Doing, Busy
  <2> QED
    BY <2>4 DEF Promise!Next
<1> QED
  BY <1>2, <1>3, <1>4, <1>5, <1>6, <1>7, <1>8 DEF Evaluate

\* kfs_lang_env.c:616, 626: the lists and trees of the interpreter implement a table
\* of functions: calls run the definition executed last, and none is dropped while a
\* script runs.
THEOREM CallsRunLatest == Spec => RunsLatest
<1>1. Init => Promise!Init
  <2>1. Init => Table = [n \in Names |-> NULL]
    BY DEF Init, Table
  <2> QED
    BY <2>1 DEF Init, Promise!Init, Promise!Nothing, Doing, Busy
<1>2. IInv /\ IInv' /\ [Next]_vars => [Promise!Next]_(Promise!table_vars)
  <2> SUFFICES ASSUME IInv, IInv', [Next]_vars
               PROVE  [Promise!Next]_(Promise!table_vars)
    OBVIOUS
  <2>1. CASE Stopped \/ UNCHANGED vars
    <3>1. UNCHANGED <<expr, functions, called, phase, cur>>
      BY <2>1 DEF Stopped, vars, tree, eval
    <3> QED
      BY <3>1, TableUntouched DEF Promise!table_vars, Doing, Busy
  <2> QED
    BY <2>1, ParseRefines, DeleteRefines, RunRefines, EvaluateRefines DEF Next
<1> QED
  BY InitIInv, NextIInv, <1>1, <1>2, PTL DEF Spec, RunsLatest, Promise!Spec

-----------------------------------------------------------------------------
(* Forests                                                                 *)

\* Each node has at most one parent, a root has none, and among any nodes there is
\* one whose parent is not among them: there is no cycle.
Forest(A, R, E) ==
  /\ R \subseteq A
  /\ \A x \in E : x[1] \in A /\ x[3] \in A \ R
  /\ \A x, y \in E : x[3] = y[3] => x = y
  /\ \A S \in SUBSET A : S # {} => \E e \in S : \A x \in E : x[3] = e => x[1] \notin S
\* Each node is a root or has a parent.
Full(A, R, E) == \A e \in A : e \in R \/ \E x \in E : x[3] = e

\* A new node is a root of its own.
LEMMA ForestGrow ==
  ASSUME NEW A, NEW R, NEW E, Forest(A, R, E), NEW e, e \notin A
  PROVE  /\ Forest(A \cup {e}, R \cup {e}, E)
         /\ Full(A, R, E) => Full(A \cup {e}, R \cup {e}, E)
<1>1. ASSUME NEW S \in SUBSET (A \cup {e}), S # {}
      PROVE  \E d \in S : \A x \in E : x[3] = d => x[1] \notin S
  <2>1. CASE e \in S
    BY <2>1 DEF Forest
  <2>2. CASE e \notin S
    <3>1. S \in SUBSET A
      BY <2>2
    <3> QED BY <3>1, <1>1 DEF Forest
  <2> QED BY <2>1, <2>2
<1>2. Forest(A \cup {e}, R \cup {e}, E)
  BY <1>1 DEF Forest
<1> QED BY <1>2 DEF Full

\* A root that becomes the child of another root.
LEMMA ForestJoin ==
  ASSUME NEW A, NEW R, NEW E, Forest(A, R, E), NEW p \in R, NEW t \in R, p # t, NEW i
  PROVE  /\ Forest(A, R \ {t}, E \cup {<<p, i, t>>})
         /\ Full(A, R, E) => Full(A, R \ {t}, E \cup {<<p, i, t>>})
<1> DEFINE y == <<p, i, t>>
           D == E \cup {y}
<1>1. y[1] = p /\ y[3] = t
  OBVIOUS
<1> HIDE DEF y
<1>2. ASSUME NEW S \in SUBSET A, S # {}
      PROVE  \E d \in S : \A x \in D : x[3] = d => x[1] \notin S
  <2>1. CASE p \in S
    <3>1. \A x \in D : x[3] # p
      BY <1>1 DEF Forest
    <3> QED BY <2>1, <3>1
  <2>2. CASE p \notin S
    <3>1. PICK d \in S : \A x \in E : x[3] = d => x[1] \notin S
      BY <1>2 DEF Forest
    <3> QED BY <1>1, <2>2, <3>1
  <2> QED BY <2>1, <2>2
<1>3. \A x \in D : x[1] \in A /\ x[3] \in A \ (R \ {t})
  BY <1>1 DEF Forest
<1>4. \A x, z \in D : x[3] = z[3] => x = z
  BY <1>1 DEF Forest
<1>5. Forest(A, R \ {t}, D)
  BY <1>2, <1>3, <1>4 DEF Forest
<1>6. Full(A, R, E) => Full(A, R \ {t}, D)
  BY <1>1 DEF Full
<1> QED BY <1>5, <1>6 DEF y

\* The child of an edge that is cut becomes a root.
LEMMA ForestCut ==
  ASSUME NEW A, NEW R, NEW E, Forest(A, R, E), NEW y \in E
  PROVE  /\ Forest(A, R \cup {y[3]}, E \ {y})
         /\ Full(A, R, E) => Full(A, R \cup {y[3]}, E \ {y})
<1>1. ASSUME NEW S \in SUBSET A, S # {}
      PROVE  \E d \in S : \A x \in E \ {y} : x[3] = d => x[1] \notin S
  BY <1>1 DEF Forest
<1>2. \A x \in E \ {y} : x[1] \in A /\ x[3] \in A \ (R \cup {y[3]})
  BY DEF Forest
<1>3. Forest(A, R \cup {y[3]}, E \ {y})
  BY <1>1, <1>2 DEF Forest
<1>4. Full(A, R, E) => Full(A, R \cup {y[3]}, E \ {y})
  BY DEF Full
<1> QED BY <1>3, <1>4

\* A root without children can go.
LEMMA ForestDrop ==
  ASSUME NEW A, NEW R, NEW E, Forest(A, R, E), NEW r \in R, \A x \in E : x[1] # r
  PROVE  /\ Forest(A \ {r}, R \ {r}, E)
         /\ Full(A, R, E) => Full(A \ {r}, R \ {r}, E)
<1>1. ASSUME NEW S \in SUBSET (A \ {r}), S # {}
      PROVE  \E d \in S : \A x \in E : x[3] = d => x[1] \notin S
  <2>1. S \in SUBSET A
    OBVIOUS
  <2> QED BY <1>1, <2>1 DEF Forest
<1>2. Forest(A \ {r}, R \ {r}, E)
  BY <1>1 DEF Forest
<1> QED BY <1>2 DEF Full

\* Roots may be forgotten: what hangs on them is still a forest.
LEMMA ForestForget ==
  ASSUME NEW A, NEW R, NEW E, Forest(A, R, E), NEW Q \in SUBSET R
  PROVE  Forest(A, Q, E)
BY DEF Forest

\* Without a root a full forest is empty.
LEMMA ForestEmpty ==
  ASSUME NEW A, NEW E, Forest(A, {}, E), Full(A, {}, E)
  PROVE  A = {}
BY DEF Forest, Full

-----------------------------------------------------------------------------
(* Stacks                                                                  *)

Items(s) == {s[i] : i \in 1..Len(s)}
Distinct(s) == \A i, j \in 1..Len(s) : s[i] = s[j] => i = j

\* A rule that takes at most one operand and puts a new node on the stack.
LEMMA Replaced ==
  ASSUME NEW S, NEW s \in Seq(S), Distinct(s), NEW n \in {0, 1}, Len(s) >= n,
         NEW e \in S, e \notin Items(s)
  PROVE  LET t == Append(SubSeq(s, 1, Len(s) - n), e)
         IN  /\ Distinct(t)
             /\ Items(t) = (Items(s) \ (IF n = 1 THEN {s[Len(s)]} ELSE {})) \cup {e}
<1> DEFINE u == SubSeq(s, 1, Len(s) - n)
           t == Append(u, e)
           m == Len(s) - n
<1>1. Len(s) \in Nat /\ m \in Nat /\ \A i \in 1..m : i \in 1..Len(s) /\ s[i] \in S
  OBVIOUS
<1>2. u \in Seq(S) /\ Len(u) = m /\ \A i \in 1..m : u[i] = s[i]
  <2>1. m - 1 + 1 = m /\ 1 \in Int /\ m \in Int /\ \A i \in 1..m : 1 + i - 1 = i
    BY <1>1
  <2>2. /\ u \in Seq(S) /\ Len(u) = IF 1 <= m THEN m - 1 + 1 ELSE 0
        /\ \A i \in 1..(m - 1 + 1) : u[i] = s[1 + i - 1]
    BY <1>1, <2>1, SubSeqProperties
  <2> HIDE DEF u, m
  <2> QED BY <1>1, <2>1, <2>2
<1> HIDE DEF u
<1> HIDE DEF m
<1>3. /\ t \in Seq(S) /\ Len(t) = m + 1
      /\ \A i \in 1..m : t[i] = s[i]
      /\ t[m + 1] = e
  BY <1>1, <1>2, AppendProperties
<1> HIDE DEF t
<1>4. \A i \in 1..m : s[i] # e
  BY <1>1 DEF Items
<1>5. Distinct(t)
  <2> SUFFICES ASSUME NEW i \in 1..(m + 1), NEW j \in 1..(m + 1), t[i] = t[j] PROVE i = j
    BY <1>3 DEF Distinct
  <2>1. CASE i \in 1..m /\ j \in 1..m
    BY <2>1, <1>1, <1>3 DEF Distinct
  <2>2. CASE i = m + 1 /\ j \in 1..m
    BY <2>2, <1>3, <1>4
  <2>3. CASE i \in 1..m /\ j = m + 1
    BY <2>3, <1>3, <1>4
  <2>4. CASE i = m + 1 /\ j = m + 1
    BY <2>4
  <2>5. \A k \in 1..(m + 1) : k \in 1..m \/ k = m + 1
    BY <1>1
  <2> QED BY <2>1, <2>2, <2>3, <2>4, <2>5
<1>6. Items(t) = {s[i] : i \in 1..m} \cup {e}
  <2>1. \A i \in 1..(m + 1) : i \in 1..m \/ i = m + 1
    BY <1>1
  <2>2. \A x : x \in Items(t) <=> x \in {s[i] : i \in 1..m} \cup {e}
    BY <1>1, <1>3, <2>1 DEF Items
  <2> QED BY <2>2
<1>7. {s[i] : i \in 1..m} = Items(s) \ (IF n = 1 THEN {s[Len(s)]} ELSE {})
  <2>1. CASE n = 0
    BY <2>1, <1>1 DEF Items, m
  <2>2. CASE n = 1
    <3>1. Len(s) \in 1..Len(s) /\ m = Len(s) - 1
      BY <2>2, <1>1 DEF m
    <3>2. \A i \in 1..m : s[i] # s[Len(s)]
      BY <1>1, <3>1 DEF Distinct
    <3>3. \A i \in 1..Len(s) : i \in 1..m \/ i = Len(s)
      BY <1>1, <3>1
    <3>4. \A x : x \in {s[i] : i \in 1..m} <=> x \in Items(s) /\ x # s[Len(s)]
      BY <1>1, <3>2, <3>3 DEF Items
    <3> QED BY <2>2, <3>4
  <2> QED BY <2>1, <2>2
<1> QED BY <1>5, <1>6, <1>7 DEF t, u, m

\* A rule that leaves its first operand on the stack, and takes the second one.
LEMMA Popped ==
  ASSUME NEW S, NEW s \in Seq(S), Distinct(s), Len(s) >= 2
  PROVE  LET t == Append(SubSeq(s, 1, Len(s) - 2), s[Len(s) - 1])
         IN  Distinct(t) /\ Items(t) = Items(s) \ {s[Len(s)]}
<1> DEFINE u == SubSeq(s, 1, Len(s) - 2)
           e == s[Len(s) - 1]
           t == Append(u, e)
           m == Len(s) - 2
<1>1. Len(s) \in Nat /\ m \in Nat /\ \A i \in 1..m : i \in 1..Len(s) /\ s[i] \in S
  OBVIOUS
<1>2. e \in S /\ e = s[m + 1] /\ m + 1 = Len(s) - 1 /\ Len(s) - 1 \in 1..Len(s) /\ Len(s) \in 1..Len(s)
  BY <1>1
<1>3. u \in Seq(S) /\ Len(u) = m /\ \A i \in 1..m : u[i] = s[i]
  <2>1. m - 1 + 1 = m /\ 1 \in Int /\ m \in Int /\ \A i \in 1..m : 1 + i - 1 = i
    BY <1>1
  <2>2. /\ u \in Seq(S) /\ Len(u) = IF 1 <= m THEN m - 1 + 1 ELSE 0
        /\ \A i \in 1..(m - 1 + 1) : u[i] = s[1 + i - 1]
    BY <1>1, <2>1, SubSeqProperties
  <2> HIDE DEF u, m
  <2> QED BY <1>1, <2>1, <2>2
<1> HIDE DEF u, m, e
<1>4. Len(t) = m + 1 /\ \A i \in 1..(m + 1) : t[i] = s[i]
  <2>1. /\ Len(t) = m + 1 /\ t[m + 1] = e
        /\ \A i \in 1..m : t[i] = s[i]
    BY <1>1, <1>2, <1>3, AppendProperties
  <2>2. \A i \in 1..(m + 1) : i \in 1..m \/ i = m + 1
    BY <1>1
  <2> HIDE DEF t
  <2> QED BY <1>2, <2>1, <2>2
<1> HIDE DEF t
<1>5. Distinct(t)
  BY <1>1, <1>2, <1>4 DEF Distinct
<1>6. \A i \in 1..Len(s) : i \in 1..(m + 1) \/ i = Len(s)
  BY <1>1, <1>2
<1>7. \A i \in 1..(m + 1) : s[i] # s[Len(s)]
  BY <1>1, <1>2 DEF Distinct
<1>8. \A x : x \in Items(t) <=> x \in Items(s) /\ x # s[Len(s)]
  BY <1>1, <1>2, <1>4, <1>6, <1>7 DEF Items
<1> QED BY <1>5, <1>8 DEF t, u, m, e

-----------------------------------------------------------------------------
(* The trees of a state                                                    *)

\* What DeleteChild follows, and whether it has done so.
Child(e, i) == IF i = 0 THEN expr[e].left ELSE expr[e].list[i]
Passed(e, i) == \E k \in 1..Len(doomed) : doomed[k].e = e /\ i < doomed[k].i
Kids ==
  {x \in Expr \X Nat \X Expr :
     x[1] \in Allocated /\ x[2] <= Len(expr[x[1]].list) /\ Child(x[1], x[2]) = x[3]}
Edges == {x \in Kids : ~Passed(x[1], x[2])}

\* The tree of the environment, what bison has on its stack, and what is about to
\* be freed.
Kept == IF phase = "delete" \/ root = NULL THEN {} ELSE {root}
Dooms == {doomed[k].e : k \in 1..Len(doomed)}
Roots == Kept \cup Items(values) \cup Dooms

TreesOK == Forest(Allocated, Roots, Edges) /\ (~lost => Full(Allocated, Roots, Edges))
\* The roots differ from one another.
Apart ==
  /\ Distinct(values) /\ root \notin Items(values)
  /\ \A j, k \in 1..Len(doomed) : doomed[j].e = doomed[k].e => j = k
\* The stack of bison, the calls of expression_delete and the calls of
\* kfs_lang_eval_value are empty outside of their phases.
Phases ==
  /\ values # <<>> => phase = "parse"
  /\ doomed # <<>> => phase = "delete"
  /\ ctl # <<>> => phase \in {"eval", "define", "lookup", "return", "crashed"}
\* A list has nothing but items.
ListsOK == \A e \in Expr : expr[e].type = "list" => expr[e].left = NULL
\* The evaluation is at allocated nodes, and so are its callers, but for the calls of
\* a function that is not there.
EvalOK ==
  /\ phase \in {"eval", "define", "lookup"} => cur \in Allocated
  /\ \A i \in 1..Len(ctl) : ctl[i].e \in Allocated \cup {ListHead}

TInv == IInv /\ TreesOK /\ Apart /\ Phases /\ ListsOK /\ EvalOK

\* The edges of a node with these children.
KidsOf(e, left, list) ==
  {x \in {e} \X Nat \X Expr :
     x[2] <= Len(list) /\ (IF x[2] = 0 THEN left ELSE list[x[2]]) = x[3]}

\* expression_new adds a node, and the edge to the child it is given.
LEMMA NewNode ==
  ASSUME TypeOK, NEW e, NEW type, type # "free", NEW str, NEW left, NEW list,
         New(e, type, str, left, list)
  PROVE  /\ e \in Expr /\ e \notin Allocated
         /\ Allocated' = Allocated \cup {e}
         /\ Kids' = Kids \cup KidsOf(e, left, list)
<1>1. /\ e \in Expr /\ e \notin Allocated /\ DOMAIN expr = Expr
      /\ expr' = [expr EXCEPT ![e] = [type |-> type, str |-> str, left |-> left, list |-> list]]
  BY DEF New, TypeOK
<1>2. /\ expr'[e].type = type /\ expr'[e].left = left /\ expr'[e].list = list
      /\ \A x \in Expr \ {e} : expr'[x] = expr[x]
  BY <1>1
<1>3. Allocated' = Allocated \cup {e}
  BY <1>1, <1>2 DEF Allocated
<1> DEFINE more == KidsOf(e, left, list)
<1>4. ASSUME NEW x \in Expr \X Nat \X Expr
      PROVE  x \in Kids' <=> x \in Kids \cup more
  <2> USE DEF KidsOf
  <2>1. CASE x[1] = e
    <3>1. x \in {e} \X Nat \X Expr
      BY <2>1
    <3>2. x \notin Kids
      BY <1>1, <2>1 DEF Kids
    <3>3. x \in Kids' <=> x[2] <= Len(list) /\ (IF x[2] = 0 THEN left ELSE list[x[2]]) = x[3]
      BY <1>1, <1>2, <1>3, <2>1 DEF Kids, Child
    <3> QED BY <3>1, <3>2, <3>3
  <2>2. CASE x[1] # e
    <3>1. x[1] \in Expr \ {e}
      BY <2>2
    <3>2. expr'[x[1]] = expr[x[1]] /\ (x[1] \in Allocated' <=> x[1] \in Allocated)
      BY <1>2, <1>3, <3>1
    <3>3. x \notin more
      BY <2>2
    <3>4. x \in Kids' <=> x \in Kids
      BY <3>2 DEF Kids, Child
    <3> QED BY <3>3, <3>4
  <2> QED BY <2>1, <2>2
<1>5. Kids \subseteq Expr \X Nat \X Expr /\ Kids' \subseteq Expr \X Nat \X Expr
      /\ more \subseteq Expr \X Nat \X Expr
  BY <1>1 DEF Kids, KidsOf
<1>6. Kids' = Kids \cup more
  BY <1>4, <1>5
<1> QED BY <1>1, <1>3, <1>6

\* Freeing a node takes it out, with the edges to its children.
LEMMA FreedNode ==
  ASSUME TypeOK, NEW e \in Expr, DeleteSelf(e)
  PROVE  /\ Allocated' = Allocated \ {e}
         /\ Kids' = {x \in Kids : x[1] # e}
         /\ ListsOK => ListsOK'
<1>1. DOMAIN expr = Expr /\ expr' = [expr EXCEPT ![e] = Free]
  BY DEF DeleteSelf, TypeOK
<1>2. expr'[e] = Free /\ \A x \in Expr \ {e} : expr'[x] = expr[x]
  BY <1>1
<1>3. Allocated' = Allocated \ {e}
  BY <1>2 DEF Allocated, Free
<1>4. ASSUME NEW x \in Expr \X Nat \X Expr
      PROVE  x \in Kids' <=> x \in Kids /\ x[1] # e
  <2>1. CASE x[1] = e
    BY <1>3, <2>1 DEF Kids
  <2>2. CASE x[1] # e
    <3>1. x[1] \in Expr \ {e}
      BY <2>2
    <3>2. expr'[x[1]] = expr[x[1]] /\ (x[1] \in Allocated' <=> x[1] \in Allocated)
      BY <1>2, <1>3, <3>1
    <3> QED BY <2>2, <3>2 DEF Kids, Child
  <2> QED BY <2>1, <2>2
<1>5. Kids \subseteq Expr \X Nat \X Expr /\ Kids' \subseteq Expr \X Nat \X Expr
  BY DEF Kids
<1>6. Kids' = {x \in Kids : x[1] # e}
  BY <1>4, <1>5
<1>7. ListsOK => ListsOK'
  BY <1>2 DEF ListsOK, Free
<1> QED BY <1>3, <1>6, <1>7

\* A step that builds, frees and hands over no node leaves the trees as they are.
LEMMA SameTrees ==
  ASSUME TInv, UNCHANGED <<expr, root, values, doomed, lost>>,
         phase # "delete", phase' # "delete"
  PROVE  TreesOK' /\ Apart' /\ ListsOK' /\ Allocated' = Allocated
<1>1. Allocated' = Allocated
  BY DEF Allocated
<1>2. Edges' = Edges
  BY <1>1 DEF Edges, Kids, Child, Passed
<1>3. Roots' = Roots
  BY DEF Roots, Kept, Items, Dooms
<1>4. TreesOK'
  BY <1>1, <1>2, <1>3 DEF TInv, TreesOK
<1>5. Apart' /\ ListsOK'
  BY DEF TInv, Apart, Distinct, Items, ListsOK
<1> QED BY <1>1, <1>4, <1>5

\* While a script is parsed nothing is being deleted or evaluated.
LEMMA Parsing ==
  ASSUME TInv, phase = "parse"
  PROVE  /\ doomed = <<>> /\ ctl = <<>>
         /\ Dooms = {} /\ Edges = Kids
         /\ Roots = Kept \cup Items(values)
         /\ root \in Expr \cup {NULL} /\ Kept = {root} \ {NULL}
         /\ Items(values) \subseteq Allocated /\ Kept \subseteq Allocated
         /\ Kept \cap Items(values) = {}
         /\ NULL \notin Expr /\ values \in Seq(Expr) /\ Items(values) \subseteq Expr
<1>1. doomed = <<>> /\ ctl = <<>>
  BY DEF TInv, Phases
<1>2. Dooms = {} /\ Edges = Kids
  BY <1>1 DEF Dooms, Edges, Passed
<1>3. Roots = Kept \cup Items(values)
  BY <1>2 DEF Roots
<1>4. root \in Expr \cup {NULL} /\ Kept = {root} \ {NULL}
  BY DEF TInv, IInv, TypeOK, Kept
<1>5. Items(values) \subseteq Allocated /\ Kept \subseteq Allocated
  BY <1>3 DEF TInv, TreesOK, Forest
<1>6. Kept \cap Items(values) = {}
  BY <1>4 DEF TInv, Apart
<1>7. NULL \notin Expr /\ values \in Seq(Expr) /\ Items(values) \subseteq Expr
  BY HandlesFacts DEF TInv, IInv, TypeOK, Items
<1> QED BY <1>1, <1>2, <1>3, <1>4, <1>5, <1>6, <1>7

-----------------------------------------------------------------------------
(* The rules of src/parser.y                                               *)

\* A rule that makes a new node, with no child or with the top of the stack.
LEMMA RuleMakesNode ==
  ASSUME TInv, phase = "parse", UNCHANGED <<phase, root, doomed, lost, ctl>>,
         NEW e, NEW type, type # "free", NEW str, NEW left, NEW list,
         type = "list" => left = NULL,
         New(e, type, str, left, list),
         NEW n \in {0, 1}, Len(values) >= n, Result(n, e),
         n = 0 => left = NULL /\ list = <<>>,
         n = 1 => \/ left = Top /\ list = <<>>
                  \/ left = NULL /\ list = <<Top>>
  PROVE  TreesOK' /\ Apart' /\ Phases' /\ ListsOK' /\ EvalOK'
<1>1. /\ doomed = <<>> /\ ctl = <<>> /\ Dooms = {} /\ Edges = Kids
      /\ Roots = Kept \cup Items(values) /\ Kept = {root} \ {NULL}
      /\ Items(values) \subseteq Allocated /\ Kept \subseteq Allocated
      /\ Kept \cap Items(values) = {}
      /\ NULL \notin Expr /\ values \in Seq(Expr)
  BY Parsing
<1>2. Dooms' = {} /\ Edges' = Kids' /\ Kept' = Kept
  BY <1>1 DEF Dooms, Edges, Passed, Kept
<1>3. n = 1 => Top \in Items(values) /\ Top \in Expr
  BY <1>1 DEF Top, Items
<1> DEFINE more == KidsOf(e, left, list)
<1>5. /\ e \in Expr /\ e \notin Allocated /\ Allocated' = Allocated \cup {e}
      /\ Kids' = Kids \cup more
  <2>1. TypeOK
    BY DEF TInv, IInv
  <2> QED BY <2>1, NewNode
<1> HIDE DEF more
<1>6. /\ Distinct(values')
      /\ Items(values') = (Items(values) \ (IF n = 1 THEN {Top} ELSE {})) \cup {e}
  BY <1>1, <1>5, Replaced DEF Result, Top, TInv, Apart
<1>7. TreesOK'
  <2>1. /\ Forest(Allocated \cup {e}, Roots \cup {e}, Kids)
        /\ ~lost => Full(Allocated \cup {e}, Roots \cup {e}, Kids)
    BY <1>1, <1>5, ForestGrow DEF TInv, TreesOK
  <2>2. CASE n = 0
    <3>1. more = {}
      BY <1>1, <2>2 DEF more, KidsOf
    <3>2. Roots' = Roots \cup {e}
      BY <1>1, <1>2, <1>6, <2>2 DEF Roots
    <3> QED BY <1>2, <1>5, <2>1, <3>1, <3>2 DEF TreesOK
  <2>3. CASE n = 1
    <3>1. PICK j \in {0, 1} : more = {<<e, j, Top>>}
      <4>1. CASE left = Top /\ list = <<>>
        <5>1. more = {x \in {e} \X Nat \X Expr : x[2] <= 0 /\ left = x[3]}
          BY <4>1 DEF more, KidsOf
        <5>2. more = {<<e, 0, Top>>}
          BY <1>3, <2>3, <4>1, <5>1
        <5> QED BY <5>2
      <4>2. CASE left = NULL /\ list = <<Top>>
        <5>1. \A x \in {e} \X Nat \X Expr : x \in more <=> x[2] = 1 /\ x[3] = Top
          BY <1>1, <4>2 DEF more, KidsOf
        <5>2. <<e, 1, Top>> \in {e} \X Nat \X Expr /\ more \subseteq {e} \X Nat \X Expr
          BY <1>3, <2>3 DEF more, KidsOf
        <5>3. more = {<<e, 1, Top>>}
          BY <5>1, <5>2
        <5> QED BY <5>3
      <4> QED BY <2>3, <4>1, <4>2
    <3>2. Top \in Roots \cup {e} /\ e \in Roots \cup {e} /\ Top # e
      BY <1>1, <1>3, <1>5, <2>3
    <3>3. Roots' = (Roots \cup {e}) \ {Top}
      BY <1>1, <1>2, <1>3, <1>6, <2>3, <3>2 DEF Roots
    <3>4. /\ Forest(Allocated', Roots', Kids')
          /\ ~lost => Full(Allocated', Roots', Kids')
      BY <1>5, <2>1, <3>1, <3>2, <3>3, ForestJoin
    <3> QED BY <1>2, <3>4 DEF TreesOK
  <2> QED BY <2>2, <2>3
<1>8. Apart'
  <2>1. root \notin Items(values')
    BY <1>1, <1>5, <1>6 DEF TInv, Apart
  <2> QED BY <1>6, <2>1 DEF TInv, Apart
<1>9. Phases' /\ EvalOK'
  BY <1>1 DEF Phases, EvalOK
<1>10. ListsOK'
  <2>1. /\ expr' = [expr EXCEPT ![e] = [type |-> type, str |-> str, left |-> left, list |-> list]]
        /\ DOMAIN expr = Expr
    BY DEF New, TInv, IInv, TypeOK
  <2> QED BY <1>5, <2>1 DEF TInv, ListsOK
<1> QED BY <1>7, <1>8, <1>9, <1>10

\* expression_add_list_item: the top of the stack goes below the node under it.
LEMMA RuleAddsItem ==
  ASSUME TInv, ReduceNext
  PROVE  TreesOK' /\ Apart' /\ Phases' /\ ListsOK' /\ EvalOK'
<1>1. /\ phase = "parse" /\ Len(values) >= 2
      /\ expr' = [expr EXCEPT ![Under].list = Append(@, Top)]
      /\ values' = Append(SubSeq(values, 1, Len(values) - 2), values[Len(values) - 1])
      /\ UNCHANGED <<phase, root, doomed, lost, ctl>>
  BY DEF ReduceNext, Reducing, Reduced, Result, Under, eval
<1>2. /\ doomed = <<>> /\ ctl = <<>> /\ Dooms = {} /\ Edges = Kids
      /\ Roots = Kept \cup Items(values) /\ Kept = {root} \ {NULL}
      /\ Items(values) \subseteq Allocated /\ Items(values) \subseteq Expr
      /\ Kept \cap Items(values) = {} /\ values \in Seq(Expr)
  BY <1>1, Parsing
<1>3. Dooms' = {} /\ Edges' = Kids' /\ Kept' = Kept
  BY <1>1, <1>2 DEF Dooms, Edges, Passed, Kept
<1>4. Top \in Items(values) /\ Under \in Items(values) /\ Top # Under
  <2>1. /\ Len(values) \in 1..Len(values) /\ Len(values) - 1 \in 1..Len(values)
        /\ Len(values) # Len(values) - 1
    BY <1>1, <1>2
  <2> QED BY <2>1 DEF Top, Under, Items, TInv, Apart, Distinct
<1>5. Distinct(values') /\ Items(values') = Items(values) \ {Top}
  BY <1>1, <1>2, Popped DEF Top, TInv, Apart
<1> DEFINE i == Len(expr[Under].list) + 1
<1>6. /\ expr \in [Expr -> Expression] /\ Top \in Expr /\ Under \in Expr
      /\ expr[Under].list \in Seq(Expr)
  BY <1>2, <1>4 DEF TInv, IInv, TypeOK, Expression, Nameless, Named
<1>7. /\ expr'[Under].type = expr[Under].type /\ expr'[Under].left = expr[Under].left
      /\ expr'[Under].list = Append(expr[Under].list, Top)
      /\ \A x \in Expr \ {Under} : expr'[x] = expr[x]
      /\ DOMAIN expr' = Expr
  <2>1. DOMAIN expr = Expr /\ DOMAIN expr[Under] = {"type", "str", "left", "list"}
    BY <1>6 DEF Expression, Nameless, Named
  <2> QED BY <1>1, <1>6, <2>1
<1>8. Allocated' = Allocated
  BY <1>7 DEF Allocated
<1>9. /\ Len(expr'[Under].list) = i /\ i \in Nat /\ i >= 1
      /\ expr'[Under].list[i] = Top
      /\ \A j \in 1..(i - 1) : expr'[Under].list[j] = expr[Under].list[j]
  BY <1>6, <1>7, AppendProperties
<1>10. Kids' = Kids \cup {<<Under, i, Top>>}
  <2>1. ASSUME NEW x \in Expr \X Nat \X Expr
        PROVE  x \in Kids' <=> x \in Kids \/ x = <<Under, i, Top>>
    <3>1. CASE x[1] # Under
      <4>1. expr'[x[1]] = expr[x[1]]
        BY <1>7, <3>1
      <4> QED BY <1>8, <3>1, <4>1 DEF Kids, Child
    <3>2. CASE x[1] = Under
      <4>1. CASE x[2] = i
        <5>1. x \notin Kids
          BY <1>6, <3>2, <4>1 DEF Kids
        <5>2. x \in Kids' <=> x[3] = Top
          BY <1>2, <1>4, <1>8, <1>9, <3>2, <4>1 DEF Kids, Child
        <5> QED BY <3>2, <4>1, <5>1, <5>2
      <4>2. CASE x[2] # i
        <5>1. x[2] <= i <=> x[2] <= Len(expr[Under].list)
          BY <1>6, <4>2
        <5>2. x[2] <= i =>
                 (IF x[2] = 0 THEN expr'[x[1]].left ELSE expr'[x[1]].list[x[2]])
                 = Child(x[1], x[2])
          <6>1. x[2] = 0 => expr'[x[1]].left = expr[x[1]].left
            BY <1>7, <3>2
          <6>2. x[2] <= i /\ x[2] # 0 => x[2] \in 1..(i - 1)
            BY <1>9, <4>2
          <6>3. x[2] <= i /\ x[2] # 0 => expr'[x[1]].list[x[2]] = expr[x[1]].list[x[2]]
            BY <1>9, <3>2, <6>2
          <6> QED BY <6>1, <6>3 DEF Child
        <5>3. Len(expr'[x[1]].list) = i
          BY <1>9, <3>2
        <5>4. x \in Kids' <=> x \in Kids
          <6> HIDE DEF i
          <6> QED BY <1>8, <3>2, <5>1, <5>2, <5>3 DEF Kids, Child
        <5> QED BY <3>2, <4>2, <5>4
      <4> QED BY <4>1, <4>2
    <3> QED BY <3>1, <3>2
  <2>2. Kids \subseteq Expr \X Nat \X Expr /\ Kids' \subseteq Expr \X Nat \X Expr
        /\ <<Under, i, Top>> \in Expr \X Nat \X Expr
    BY <1>6, <1>9 DEF Kids
  <2> QED BY <2>1, <2>2
<1> HIDE DEF i
<1>11. Roots' = Roots \ {Top}
  BY <1>2, <1>3, <1>4, <1>5 DEF Roots
<1>12. Under \in Roots /\ Top \in Roots
  BY <1>2, <1>4
<1>13. TreesOK'
  <2>1. Forest(Allocated, Roots, Kids) /\ (~lost => Full(Allocated, Roots, Kids))
    BY <1>2 DEF TInv, TreesOK
  <2>2. /\ Forest(Allocated', Roots', Kids')
        /\ ~lost => Full(Allocated', Roots', Kids')
    BY <1>4, <1>8, <1>10, <1>11, <1>12, <2>1, ForestJoin
  <2> QED BY <1>1, <1>3, <2>2 DEF TreesOK
<1>14. Apart'
  BY <1>1, <1>2, <1>5 DEF TInv, Apart
<1>15. Phases' /\ EvalOK'
  BY <1>1, <1>2 DEF Phases, EvalOK
<1>16. ListsOK'
  BY <1>6, <1>7 DEF TInv, ListsOK
<1> QED BY <1>13, <1>14, <1>15, <1>16

\* expression_delist: the item of a list of one takes its place on the stack.
LEMMA RuleDelists ==
  ASSUME TInv, ReduceDelist
  PROVE  TreesOK' /\ Apart' /\ Phases' /\ ListsOK' /\ EvalOK'
<1>1. /\ phase = "parse" /\ Len(values) >= 1 /\ Delist
      /\ UNCHANGED <<phase, root, doomed, lost, ctl>>
  BY DEF ReduceDelist, Reducing, Reduced, eval
<1>2. /\ doomed = <<>> /\ ctl = <<>> /\ Dooms = {} /\ Edges = Kids
      /\ Roots = Kept \cup Items(values) /\ Kept = {root} \ {NULL}
      /\ root \in Expr \cup {NULL} /\ NULL \notin Expr
      /\ Items(values) \subseteq Allocated /\ Items(values) \subseteq Expr
      /\ Kept \cap Items(values) = {} /\ values \in Seq(Expr)
  BY <1>1, Parsing
<1>3. Phases' /\ EvalOK'
  BY <1>1, <1>2 DEF Phases, EvalOK
<1>4. Top \in Items(values) /\ Top \in Expr
  BY <1>1, <1>2 DEF Top, Items
<1>5. CASE expr[Top].type = "list" /\ Len(expr[Top].list) = 1
  <2> DEFINE item == expr[Top].list[1]
             y == <<Top, 1, item>>
  <2>1. DeleteSelf(Top) /\ values' = Append(SubSeq(values, 1, Len(values) - 1), item)
    BY <1>1, <1>5 DEF Delist, Result
  <2>2. item \in Expr
    BY <1>4, <1>5 DEF TInv, IInv, TypeOK, Expression, Nameless, Named
  <2>3. y \in Kids /\ \A x \in Kids : x[1] = Top => x = y
    <3>1. y \in Kids
      BY <1>2, <1>4, <1>5, <2>2 DEF Kids, Child
    <3>2. expr[Top].left = NULL
      BY <1>4, <1>5 DEF TInv, ListsOK
    <3>3. ASSUME NEW x \in Kids, x[1] = Top
          PROVE  x = y
      <4>1. x \in Expr \X Nat \X Expr /\ x[2] <= 1 /\ Child(Top, x[2]) = x[3]
        BY <1>5, <3>3 DEF Kids
      <4>2. x[2] # 0
        BY <1>2, <3>2, <4>1 DEF Child
      <4>3. x[2] = 1
        BY <4>1, <4>2
      <4>4. x[3] = item
        BY <4>1, <4>3 DEF Child
      <4> QED BY <3>3, <4>1, <4>3, <4>4
    <3> QED BY <3>1, <3>3
  <2>4. y[1] = Top /\ y[3] = item
    OBVIOUS
  <2> HIDE DEF y, item
  <2>5. Allocated' = Allocated \ {Top} /\ Kids' = {x \in Kids : x[1] # Top} /\ ListsOK'
    BY <1>4, <2>1, FreedNode DEF TInv, IInv
  <2>6. Kids' = Kids \ {y}
    BY <2>3, <2>4, <2>5
  <2>7. Forest(Allocated, Roots, Kids) /\ (~lost => Full(Allocated, Roots, Kids))
    BY <1>2 DEF TInv, TreesOK
  <2>8. item \in Allocated \ Roots
    BY <2>3, <2>4, <2>7 DEF Forest
  <2>9. /\ Forest(Allocated, Roots \cup {item}, Kids')
        /\ ~lost => Full(Allocated, Roots \cup {item}, Kids')
    BY <2>3, <2>4, <2>6, <2>7, ForestCut
  <2>10. /\ Distinct(values')
         /\ Items(values') = (Items(values) \ {Top}) \cup {item}
    BY <1>1, <1>2, <2>1, <2>2, <2>8, Replaced DEF Top, TInv, Apart
  <2>11. Dooms' = {} /\ Edges' = Kids' /\ Kept' = Kept
    BY <1>1, <1>2 DEF Dooms, Edges, Passed, Kept
  <2>12. Roots' = (Roots \cup {item}) \ {Top}
    BY <1>2, <1>4, <2>8, <2>10, <2>11 DEF Roots
  <2>13. Top \in Roots \cup {item} /\ \A x \in Kids' : x[1] # Top
    BY <1>2, <1>4, <2>5
  <2>14. TreesOK'
    <3>1. /\ Forest(Allocated', Roots', Kids')
          /\ ~lost => Full(Allocated', Roots', Kids')
      BY <2>5, <2>9, <2>12, <2>13, ForestDrop
    <3> QED BY <1>1, <2>11, <3>1 DEF TreesOK
  <2>15. root \notin Items(values')
    BY <1>2, <2>2, <2>8, <2>10 DEF TInv, Apart
  <2>16. Apart'
    BY <1>1, <2>10, <2>15 DEF TInv, Apart
  <2> QED BY <1>3, <2>5, <2>14, <2>16
<1>6. CASE ~(expr[Top].type = "list" /\ Len(expr[Top].list) = 1)
  <2>1. UNCHANGED <<expr, root, values, doomed, lost>>
    BY <1>1, <1>6 DEF Delist
  <2> QED BY <1>1, <1>3, <2>1, SameTrees
<1> QED BY <1>5, <1>6

\* The end of yyparse: the tree on the stack becomes the tree of the environment, and
\* what was there before is forgotten, as is the stack after a syntax error.
LEMMA ParseEnds ==
  ASSUME TInv, ParseDone \/ SyntaxError
  PROVE  TreesOK' /\ Apart' /\ Phases' /\ ListsOK' /\ EvalOK'
<1>1. /\ phase = "parse" /\ phase' \in {"eval", "idle"} /\ values' = <<>>
      /\ UNCHANGED <<expr, doomed, ctl>>
  BY DEF ParseDone, SyntaxError, Reducing, eval
<1>2. /\ doomed = <<>> /\ ctl = <<>> /\ Dooms = {} /\ Edges = Kids
      /\ Roots = Kept \cup Items(values) /\ Kept = {root} \ {NULL}
      /\ root \in Expr \cup {NULL} /\ NULL \notin Expr
      /\ Items(values) \subseteq Allocated /\ Items(values) \subseteq Expr
      /\ values \in Seq(Expr)
  BY <1>1, Parsing
<1>3. Allocated' = Allocated /\ Edges' = Edges
  BY <1>1 DEF Allocated, Edges, Kids, Child, Passed
<1>4. Dooms' = {} /\ Items(values') = {} /\ Distinct(values')
  BY <1>1, <1>2 DEF Dooms, Items, Distinct
<1>5. Apart' /\ Phases' /\ ListsOK'
  BY <1>1, <1>2, <1>4 DEF Apart, Phases, TInv, ListsOK
<1>6. Forest(Allocated, Roots, Edges) /\ (~lost => Full(Allocated, Roots, Edges))
  BY DEF TInv, TreesOK
<1>7. CASE ParseDone
  <2>1. /\ Len(values) = 1 /\ lost' = (lost \/ root # NULL)
        /\ root' = Top /\ cur' = Top /\ phase' = "eval"
    BY <1>7 DEF ParseDone
  <2>2. Items(values) = {Top} /\ Top \in Expr
    BY <1>2, <2>1 DEF Items, Top
  <2>3. Roots' = {Top}
    BY <1>2, <1>4, <2>1, <2>2 DEF Roots, Kept
  <2>4. Forest(Allocated, Roots', Edges)
    BY <1>2, <1>6, <2>2, <2>3, ForestForget
  <2>5. ~lost' => Full(Allocated, Roots', Edges)
    BY <1>2, <1>6, <2>1, <2>2, <2>3
  <2>6. EvalOK'
    BY <1>1, <1>2, <1>3, <2>1, <2>2 DEF EvalOK
  <2> QED BY <1>3, <1>5, <2>4, <2>5, <2>6 DEF TreesOK
<1>8. CASE SyntaxError
  <2>1. lost' = (lost \/ values # <<>>) /\ root' = root /\ phase' = "idle"
    BY <1>8 DEF SyntaxError
  <2>2. Roots' = Kept
    BY <1>1, <1>2, <1>4, <2>1 DEF Roots, Kept
  <2>3. Forest(Allocated, Roots', Edges)
    BY <1>2, <1>6, <2>2, ForestForget
  <2>4. values = <<>> => Items(values) = {}
    BY DEF Items
  <2>5. ~lost' => Full(Allocated, Roots', Edges)
    BY <1>2, <1>6, <2>1, <2>2, <2>4
  <2>6. EvalOK'
    BY <1>1, <1>2, <2>1 DEF EvalOK
  <2> QED BY <1>3, <1>5, <2>3, <2>5, <2>6 DEF TreesOK
<1> QED BY <1>7, <1>8

\* Every rule keeps the trees.
LEMMA ParseTrees == TInv /\ Parse => TInv'
<1> SUFFICES ASSUME TInv, Parse PROVE TInv'
  OBVIOUS
<1>1. IInv'
  BY ParseKeeps DEF TInv
<1> SUFFICES TreesOK' /\ Apart' /\ Phases' /\ ListsOK' /\ EvalOK'
  BY <1>1 DEF TInv
<1> USE DEF Reduced, Reducing, eval
<1>2. CASE ReduceLeaf
  BY <1>2, RuleMakesNode DEF ReduceLeaf
<1>3. CASE ReduceCall
  <2>1. CASE input[1].args
    BY <1>3, <2>1, RuleMakesNode DEF ReduceCall
  <2>2. CASE ~input[1].args
    BY <1>3, <2>2, RuleMakesNode DEF ReduceCall
  <2> QED BY <2>1, <2>2
<1>4. CASE ReduceCommand
  BY <1>4, RuleMakesNode DEF ReduceCommand
<1>5. CASE ReduceFunction
  BY <1>5, RuleMakesNode DEF ReduceFunction
<1>6. CASE ReduceFirst
  BY <1>6, RuleMakesNode DEF ReduceFirst
<1>7. CASE ReduceNext
  BY <1>7, RuleAddsItem
<1>8. CASE ReduceDelist
  BY <1>8, RuleDelists
<1>9. CASE ParseDone \/ SyntaxError
  BY <1>9, ParseEnds
<1> QED BY <1>2, <1>3, <1>4, <1>5, <1>6, <1>7, <1>8, <1>9 DEF Parse

-----------------------------------------------------------------------------
(* expression_delete                                                       *)

\* What holds while a tree is deleted.
LEMMA Deleting ==
  ASSUME TInv, phase = "delete"
  PROVE  /\ values = <<>> /\ ctl = <<>> /\ Items(values) = {} /\ Kept = {}
         /\ Roots = Dooms
         /\ doomed \in Seq(DeleteCall) /\ Dooms \subseteq Expr
         /\ Forest(Allocated, Roots, Edges) /\ (~lost => Full(Allocated, Roots, Edges))
<1>1. values = <<>> /\ ctl = <<>>
  BY DEF TInv, Phases
<1>2. Items(values) = {} /\ Kept = {}
  BY <1>1 DEF Items, Kept
<1>3. Roots = Dooms
  BY <1>2 DEF Roots
<1>4. doomed \in Seq(DeleteCall) /\ Dooms \subseteq Expr
  <2>1. doomed \in Seq(DeleteCall)
    BY DEF TInv, IInv, TypeOK
  <2>2. \A k \in 1..Len(doomed) : doomed[k] \in DeleteCall
    BY <2>1
  <2>3. \A k \in 1..Len(doomed) : doomed[k].e \in Expr
    BY <2>2 DEF DeleteCall
  <2> QED BY <2>1, <2>3 DEF Dooms
<1>5. Forest(Allocated, Roots, Edges) /\ (~lost => Full(Allocated, Roots, Edges))
  BY DEF TInv, TreesOK
<1> QED BY <1>1, <1>2, <1>3, <1>4, <1>5

\* A child is deleted before its parent: the edge to it is cut.
LEMMA DeleteChildTrees ==
  ASSUME TInv, DeleteChild
  PROVE  TreesOK' /\ Apart' /\ Phases' /\ ListsOK' /\ EvalOK'
<1> DEFINE d == Doomed
           n == Len(doomed)
           c == IF d.i = 0 THEN expr[d.e].left ELSE expr[d.e].list[d.i]
           rest == [doomed EXCEPT ![n].i = @ + 1]
<1>1. /\ phase = "delete" /\ doomed # <<>> /\ d.i <= Len(expr[d.e].list)
      /\ doomed' = IF c = NULL THEN rest ELSE Append(rest, [e |-> c, i |-> 0])
      /\ UNCHANGED <<expr, root, values, ctl, phase, lost, cur>>
  BY DEF DeleteChild, DeleteNext, tree, eval
<1>2. /\ values = <<>> /\ ctl = <<>> /\ Items(values) = {} /\ Kept = {}
      /\ Roots = Dooms
      /\ doomed \in Seq(DeleteCall) /\ Dooms \subseteq Expr
      /\ Forest(Allocated, Roots, Edges) /\ (~lost => Full(Allocated, Roots, Edges))
  BY <1>1, Deleting
<1>3. /\ n \in Nat /\ n >= 1 /\ n \in 1..n /\ d = doomed[n]
      /\ d.e \in Expr /\ d.i \in Nat
      /\ \A k \in 1..n : doomed[k].e \in Expr /\ doomed[k].i \in Nat
  <2>1. n \in Nat /\ n >= 1 /\ n \in 1..n
    BY <1>1, <1>2
  <2>2. \A k \in 1..n : doomed[k] \in DeleteCall
    BY <1>2
  <2>3. \A k \in 1..n : doomed[k].e \in Expr /\ doomed[k].i \in Nat
    BY <2>2 DEF DeleteCall
  <2> QED BY <2>1, <2>3 DEF Doomed
<1>4. /\ rest \in Seq(DeleteCall) /\ Len(rest) = n
      /\ \A k \in 1..(n - 1) : rest[k] = doomed[k]
      /\ rest[n].e = d.e /\ rest[n].i = d.i + 1
  <2> DEFINE r == [doomed[n] EXCEPT !.i = @ + 1]
  <2>1. r = [e |-> d.e, i |-> d.i + 1] /\ r \in DeleteCall
    <3>1. doomed[n] \in DeleteCall
      BY <1>2, <1>3
    <3>2. doomed[n] = [e |-> d.e, i |-> d.i]
      BY <1>3, <3>1 DEF DeleteCall
    <3> QED BY <1>3, <3>2 DEF DeleteCall
  <2>2. rest = [doomed EXCEPT ![n] = r]
    BY <1>3
  <2> HIDE DEF r
  <2>3. /\ rest \in Seq(DeleteCall) /\ Len(rest) = n
        /\ \A k \in 1..n : rest[k] = IF k = n THEN r ELSE doomed[k]
    BY <1>2, <1>3, <2>1, <2>2, ExceptSeq
  <2> HIDE DEF rest
  <2> QED BY <1>3, <2>1, <2>3
<1>5. c \in Expr \cup {NULL} /\ c = Child(d.e, d.i)
  <2>1. expr[d.e].left \in Expr \cup {NULL} /\ expr[d.e].list \in Seq(Expr)
    BY <1>3 DEF TInv, IInv, TypeOK, Expression, Nameless, Named
  <2> QED BY <1>1, <1>3, <2>1 DEF Child
<1>6. \A k \in 1..n : rest[k].e = doomed[k].e
  BY <1>3, <1>4
<1> HIDE DEF c, rest, d, n
<1>7. Allocated' = Allocated /\ Kids' = Kids
  BY <1>1 DEF Allocated, Kids, Child
<1>8. \A k \in 1..n : doomed[k].e = d.e => k = n
  BY <1>3 DEF TInv, Apart, n
<1>9. \A e : \A i \in Nat :
        (\E k \in 1..n : rest[k].e = e /\ i < rest[k].i)
        <=> Passed(e, i) \/ (e = d.e /\ i = d.i)
  <2> SUFFICES ASSUME NEW e, NEW i \in Nat
               PROVE  (\E k \in 1..n : rest[k].e = e /\ i < rest[k].i)
                      <=> Passed(e, i) \/ (e = d.e /\ i = d.i)
    OBVIOUS
  <2>1. \A k \in 1..n : k \in 1..(n - 1) \/ k = n
    BY <1>3
  <2>2. ASSUME NEW k \in 1..n, rest[k].e = e, i < rest[k].i
        PROVE  Passed(e, i) \/ (e = d.e /\ i = d.i)
    <3>1. CASE k = n
      BY <1>3, <1>4, <2>2, <3>1 DEF Passed, n
    <3>2. CASE k \in 1..(n - 1)
      BY <1>4, <2>2, <3>2 DEF Passed, n
    <3> QED BY <2>1, <3>1, <3>2
  <2>3. ASSUME NEW k \in 1..n, doomed[k].e = e, i < doomed[k].i
        PROVE  rest[k].e = e /\ i < rest[k].i
    <3>1. CASE k = n
      BY <1>3, <1>4, <2>3, <3>1
    <3>2. CASE k \in 1..(n - 1)
      BY <1>4, <2>3, <3>2
    <3> QED BY <2>1, <3>1, <3>2
  <2>4. e = d.e /\ i = d.i => rest[n].e = e /\ i < rest[n].i
    BY <1>3, <1>4
  <2> QED BY <1>3, <2>2, <2>3, <2>4 DEF Passed, n
<1>10. ~Passed(d.e, d.i)
  BY <1>3, <1>8 DEF Passed, n
<1>11. \A e : \A i \in Nat : Passed(e, i)' <=> Passed(e, i) \/ (e = d.e /\ i = d.i)
  <2>1. CASE c = NULL
    <3>1. doomed' = rest /\ Len(doomed') = n
      BY <1>1, <1>4, <2>1
    <3>2. \A e : \A i \in Nat : Passed(e, i)' <=> \E k \in 1..n : rest[k].e = e /\ i < rest[k].i
      BY <3>1 DEF Passed
    <3> QED BY <1>9, <3>2
  <2>2. CASE c # NULL
    <3> DEFINE f == [e |-> c, i |-> 0]
    <3>1. f \in DeleteCall /\ doomed' = Append(rest, f)
      BY <1>1, <1>5, <2>2 DEF DeleteCall
    <3> HIDE DEF f
    <3>2. /\ Len(doomed') = n + 1 /\ doomed'[n + 1] = f
          /\ \A k \in 1..n : doomed'[k] = rest[k]
      BY <1>4, <3>1, AppendProperties
    <3>3. \A k \in 1..(n + 1) : k \in 1..n \/ k = n + 1
      BY <1>3
    <3>4. \A i \in Nat : ~(i < f.i)
      BY DEF f
    <3>5. \A k \in 1..n : k \in 1..(n + 1)
      BY <1>3
    <3>6. \A e : \A i \in Nat : Passed(e, i)' <=> \E k \in 1..n : rest[k].e = e /\ i < rest[k].i
      BY <3>2, <3>3, <3>4, <3>5 DEF Passed
    <3> QED BY <1>9, <3>6
  <2> QED BY <2>1, <2>2
<1>12. Edges' = {x \in Edges : ~(x[1] = d.e /\ x[2] = d.i)}
  <2>1. \A x \in Kids : x[2] \in Nat
    BY DEF Kids
  <2> QED BY <1>7, <1>11, <2>1 DEF Edges
<1>13. Kept' = {} /\ Items(values') = {} /\ Roots' = Dooms'
  BY <1>1, <1>2 DEF Kept, Items, Roots
<1>14. Phases' /\ ListsOK' /\ EvalOK'
  BY <1>1, <1>2, <1>7 DEF Phases, ListsOK, EvalOK, TInv
<1>15. Distinct(values') /\ root' \notin Items(values')
  BY <1>1, <1>13 DEF TInv, Apart
<1>16. CASE c = NULL
  <2>1. doomed' = rest
    BY <1>1, <1>16
  <2>2. \A x \in Edges : ~(x[1] = d.e /\ x[2] = d.i)
    BY <1>5, <1>16, HandlesFacts DEF Edges, Kids
  <2>3. Edges' = Edges
    BY <1>12, <2>2
  <2>4. Dooms' = Dooms
    BY <1>4, <1>6, <2>1 DEF Dooms, n
  <2>5. TreesOK'
    BY <1>1, <1>2, <1>7, <1>13, <2>3, <2>4 DEF TreesOK
  <2>6. Apart'
    BY <1>4, <1>6, <1>15, <2>1 DEF TInv, Apart, n
  <2> QED BY <1>14, <2>5, <2>6
<1>17. CASE c # NULL
  <2> DEFINE f == [e |-> c, i |-> 0]
             y == <<d.e, d.i, c>>
  <2>1. f \in DeleteCall /\ f.e = c /\ doomed' = Append(rest, f) /\ c \in Expr
    BY <1>1, <1>5, <1>17 DEF DeleteCall
  <2>2. y[1] = d.e /\ y[2] = d.i /\ y[3] = c
    OBVIOUS
  <2> HIDE DEF f
  <2>3. d.e \in Allocated /\ d.e \in Dooms
    BY <1>2, <1>3 DEF Forest, Dooms, n
  <2>4. d.i <= Len(expr[d.e].list)
    BY <1>1
  <2>5. y \in Edges
    BY <1>3, <1>5, <1>10, <2>1, <2>3, <2>4 DEF Edges, Kids
  <2>6. \A x \in Edges : x[1] = d.e /\ x[2] = d.i <=> x = y
    <3>1. ASSUME NEW x \in Edges, x[1] = d.e, x[2] = d.i
          PROVE  x = y
      <4>1. x \in Expr \X Nat \X Expr /\ x[3] = Child(x[1], x[2])
        BY DEF Edges, Kids
      <4> QED BY <1>5, <3>1, <4>1
    <3> QED BY <2>2, <3>1
  <2> HIDE DEF y
  <2>7. Edges' = Edges \ {y}
    BY <1>12, <2>6
  <2>8. /\ Len(doomed') = n + 1 /\ doomed'[n + 1] = f
        /\ \A k \in 1..n : doomed'[k] = rest[k]
    BY <1>4, <2>1, AppendProperties
  <2>9. \A k \in 1..(n + 1) : k \in 1..n \/ k = n + 1
    BY <1>3
  <2>10. \A k \in 1..n : k \in 1..(n + 1) /\ n + 1 \in 1..(n + 1)
    BY <1>3
  <2>11. n + 1 \in 1..(n + 1)
    BY <1>3
  <2>12. \A k \in 1..n : doomed'[k].e = doomed[k].e
    BY <1>6, <2>8
  <2>13. Dooms' = Dooms \cup {c}
    <3>1. \A x : x \in Dooms' <=> x \in Dooms \/ x = c
      BY <2>1, <2>8, <2>9, <2>10, <2>11, <2>12 DEF Dooms, n
    <3> QED BY <3>1
  <2>14. c \notin Dooms
    BY <1>2, <2>2, <2>5 DEF Forest
  <2>15. TreesOK'
    <3>1. /\ Forest(Allocated', Roots', Edges')
          /\ ~lost => Full(Allocated', Roots', Edges')
      BY <1>2, <1>7, <1>13, <2>2, <2>5, <2>7, <2>13, ForestCut
    <3> QED BY <1>1, <3>1 DEF TreesOK
  <2>16. Apart'
    <3>1. \A k \in 1..n : doomed[k].e # c
      BY <2>14 DEF Dooms, n
    <3>2. ASSUME NEW j \in 1..(n + 1), NEW k \in 1..(n + 1), doomed'[j].e = doomed'[k].e
          PROVE  j = k
      <4>1. CASE j \in 1..n /\ k \in 1..n
        BY <2>12, <3>2, <4>1 DEF TInv, Apart, n
      <4>2. CASE j = n + 1 /\ k \in 1..n
        BY <2>1, <2>8, <2>12, <3>1, <3>2, <4>2
      <4>3. CASE j \in 1..n /\ k = n + 1
        BY <2>1, <2>8, <2>12, <3>1, <3>2, <4>3
      <4>4. CASE j = n + 1 /\ k = n + 1
        BY <4>4
      <4> QED BY <2>9, <4>1, <4>2, <4>3, <4>4
    <3> QED BY <1>15, <2>8, <3>2 DEF Apart
  <2> QED BY <1>14, <2>15, <2>16
<1> QED BY <1>16, <1>17

\* A node is freed when all its children are: no edge leaves it.
LEMMA DeleteNodeTrees ==
  ASSUME TInv, DeleteNode
  PROVE  TreesOK' /\ Apart' /\ Phases' /\ ListsOK' /\ EvalOK'
<1> DEFINE e == Doomed.e
           n == Len(doomed)
<1>1. /\ phase = "delete" /\ doomed # <<>> /\ Doomed.i > Len(expr[e].list)
      /\ DeleteSelf(e)
      /\ doomed' = SubSeq(doomed, 1, n - 1)
      /\ UNCHANGED <<root, values, ctl, phase, lost>>
  BY DEF DeleteNode, eval
<1>2. /\ values = <<>> /\ ctl = <<>> /\ Items(values) = {} /\ Kept = {}
      /\ Roots = Dooms
      /\ doomed \in Seq(DeleteCall) /\ Dooms \subseteq Expr
      /\ Forest(Allocated, Roots, Edges) /\ (~lost => Full(Allocated, Roots, Edges))
  BY <1>1, Deleting
<1>3. /\ n \in Nat /\ n >= 1 /\ n \in 1..n /\ Doomed = doomed[n] /\ e \in Expr
      /\ \A k \in 1..n : doomed[k] \in DeleteCall
  <2>1. n \in Nat /\ n >= 1 /\ n \in 1..n
    BY <1>1, <1>2
  <2>2. \A k \in 1..n : doomed[k] \in DeleteCall
    BY <1>2
  <2> QED BY <2>1, <2>2 DEF Doomed, DeleteCall
<1>4. /\ Len(doomed') = n - 1
      /\ \A k \in 1..(n - 1) : doomed'[k] = doomed[k] /\ k \in 1..n
  <2> DEFINE m == n - 1
             u == SubSeq(doomed, 1, m)
  <2>1. m \in Nat /\ m - 1 + 1 = m /\ 1 \in Int /\ m \in Int
        /\ \A i \in 1..m : 1 + i - 1 = i /\ i \in 1..n
    BY <1>3
  <2>2. \A i \in 1..m : doomed[i] \in DeleteCall
    BY <1>3, <2>1
  <2>3. /\ Len(u) = IF 1 <= m THEN m - 1 + 1 ELSE 0
        /\ \A i \in 1..(m - 1 + 1) : u[i] = doomed[1 + i - 1]
    BY <2>1, <2>2, SubSeqProperties
  <2> HIDE DEF u, m
  <2>4. Len(u) = m /\ \A i \in 1..m : u[i] = doomed[i]
    BY <2>1, <2>3
  <2> QED BY <1>1, <2>1, <2>4 DEF u, m
<1> HIDE DEF e, n
<1>5. Allocated' = Allocated \ {e} /\ Kids' = {x \in Kids : x[1] # e} /\ ListsOK'
  BY <1>1, <1>3, FreedNode DEF TInv, IInv
<1>6. \A k \in 1..(n - 1) : doomed[k].e # e
  <2>1. \A k \in 1..(n - 1) : k # n /\ k \in 1..n
    BY <1>3
  <2> QED BY <1>3, <2>1 DEF TInv, Apart, e, n
<1>7. \A k \in 1..n : k \in 1..(n - 1) \/ k = n
  BY <1>3
<1>8. \A x \in Edges : x[1] # e
  <2> SUFFICES ASSUME NEW x \in Edges, x[1] = e PROVE FALSE
    OBVIOUS
  <2>1. x[2] \in Nat /\ x[2] <= Len(expr[e].list) /\ ~Passed(e, x[2])
    BY DEF Edges, Kids
  <2>2. expr[e].list \in Seq(Expr) /\ doomed[n].i \in Nat
    BY <1>3 DEF TInv, IInv, TypeOK, Expression, Nameless, Named, DeleteCall
  <2>3. x[2] < doomed[n].i
    BY <1>1, <1>3, <2>1, <2>2
  <2> QED BY <1>3, <2>1, <2>3 DEF Passed, e, n
<1>9. \A d, i : d # e => (Passed(d, i)' <=> Passed(d, i))
  BY <1>3, <1>4, <1>7 DEF Passed, e, n
<1>10. Edges' = Edges
  BY <1>5, <1>8, <1>9 DEF Edges
<1>11. Dooms' = Dooms \ {e} /\ e \in Dooms
  <2>1. \A x : x \in Dooms' <=> x \in Dooms /\ x # e
    BY <1>3, <1>4, <1>6, <1>7 DEF Dooms, e, n
  <2> QED BY <1>3, <2>1 DEF Dooms, e, n
<1>12. Kept' = {} /\ Items(values') = {} /\ Roots' = Dooms'
  BY <1>1, <1>2 DEF Kept, Items, Roots
<1>13. TreesOK'
  <2>1. /\ Forest(Allocated', Roots', Edges')
        /\ ~lost => Full(Allocated', Roots', Edges')
    BY <1>2, <1>5, <1>8, <1>10, <1>11, <1>12, ForestDrop
  <2> QED BY <1>1, <2>1 DEF TreesOK
<1>14. Apart'
  <2>1. Distinct(values') /\ root' \notin Items(values')
    BY <1>1, <1>12 DEF TInv, Apart
  <2>2. \A j, k \in 1..(n - 1) : doomed'[j].e = doomed'[k].e => j = k
    BY <1>4 DEF TInv, Apart, n
  <2> QED BY <1>4, <2>1, <2>2 DEF Apart
<1>15. Phases' /\ EvalOK'
  BY <1>1, <1>2 DEF Phases, EvalOK
<1> QED BY <1>5, <1>13, <1>14, <1>15

\* When the last call of expression_delete returns, nothing is left of the tree.
LEMMA DeleteDoneTrees ==
  ASSUME TInv, DeleteDone
  PROVE  TreesOK' /\ Apart' /\ Phases' /\ ListsOK' /\ EvalOK'
<1>1. /\ phase = "delete" /\ doomed = <<>> /\ phase' = then /\ root' = NULL
      /\ UNCHANGED <<expr, values, doomed, ctl, lost>>
  BY DEF DeleteDone, eval
<1>2. /\ values = <<>> /\ ctl = <<>> /\ Items(values) = {} /\ Kept = {}
      /\ Roots = Dooms
      /\ Forest(Allocated, Roots, Edges) /\ (~lost => Full(Allocated, Roots, Edges))
  BY <1>1, Deleting
<1>3. then \in {"idle", "parse", "closed"}
  BY DEF TInv, IInv, TypeOK
<1>4. Allocated' = Allocated /\ Edges' = Edges
  BY <1>1 DEF Allocated, Edges, Kids, Child, Passed
<1>5. Items(values') = {} /\ Kept' = {} /\ Dooms' = Dooms
  BY <1>1, <1>2 DEF Items, Kept, Dooms
<1>6. Roots' = Roots
  BY <1>2, <1>5 DEF Roots
<1>7. TreesOK'
  BY <1>1, <1>2, <1>4, <1>6 DEF TreesOK
<1>8. Apart'
  BY <1>1, <1>5 DEF TInv, Apart, Distinct
<1>9. Phases' /\ ListsOK' /\ EvalOK'
  BY <1>1, <1>2, <1>3 DEF Phases, ListsOK, EvalOK, TInv
<1> QED BY <1>7, <1>8, <1>9

\* Deletion keeps the trees that are not deleted, and frees all of the one that is.
LEMMA DeleteTrees == TInv /\ Delete => TInv'
<1> SUFFICES ASSUME TInv, Delete PROVE TInv'
  OBVIOUS
<1>1. IInv'
  BY DeleteKeeps DEF TInv
<1>2. TreesOK' /\ Apart' /\ Phases' /\ ListsOK' /\ EvalOK'
  BY DeleteChildTrees, DeleteNodeTrees, DeleteDoneTrees DEF Delete
<1> QED BY <1>1, <1>2 DEF TInv

-----------------------------------------------------------------------------
(* Scripts                                                                 *)

\* The root of the tree that is to be deleted is the first to be doomed.
LEMMA DeleteRootTrees ==
  ASSUME TInv, NEW p \in {"idle", "parse", "closed"}, DeleteRoot(p), phase \in {"idle", "cleanup"},
         UNCHANGED <<expr, root, values, ctl, lost>>
  PROVE  TreesOK' /\ Apart' /\ Phases' /\ ListsOK' /\ EvalOK'
<1>1. values = <<>> /\ ctl = <<>> /\ doomed = <<>>
  BY DEF TInv, Phases
<1>2. root \in Expr \cup {NULL}
  BY DEF TInv, IInv, TypeOK
<1>3. CASE root = NULL
  <2>1. phase' = p /\ UNCHANGED doomed
    BY <1>3 DEF DeleteRoot
  <2>2. Phases' /\ EvalOK'
    BY <1>1, <2>1 DEF Phases, EvalOK
  <2> QED BY <2>1, <2>2, SameTrees
<1>4. CASE root # NULL
  <2>1. phase' = "delete" /\ doomed' = <<[e |-> root, i |-> 0]>>
    BY <1>4 DEF DeleteRoot
  <2>2. Len(doomed') = 1 /\ doomed'[1].e = root /\ doomed'[1].i = 0
    BY <2>1
  <2>3. Allocated' = Allocated /\ Kids' = Kids
    BY DEF Allocated, Kids, Child
  <2>4. \A d : \A i \in Nat : ~Passed(d, i) /\ ~Passed(d, i)'
    BY <1>1, <2>2 DEF Passed
  <2>5. Edges' = Edges
    <3>1. \A x \in Kids : x[2] \in Nat
      BY DEF Kids
    <3> QED BY <2>3, <2>4, <3>1 DEF Edges
  <2>6. Items(values) = {} /\ Items(values') = {}
    BY <1>1 DEF Items
  <2>7. Dooms = {} /\ Dooms' = {root} /\ Kept = {root} /\ Kept' = {}
    BY <1>1, <1>4, <2>1, <2>2 DEF Dooms, Kept
  <2>8. Roots' = Roots
    BY <2>6, <2>7 DEF Roots
  <2>9. TreesOK'
    BY <2>3, <2>5, <2>8 DEF TInv, TreesOK
  <2>10. Apart'
    BY <1>1, <2>2, <2>6 DEF Apart, Distinct
  <2>11. Phases' /\ ListsOK' /\ EvalOK'
    BY <1>1, <2>1 DEF Phases, EvalOK, TInv, ListsOK
  <2> QED BY <2>9, <2>10, <2>11
<1> QED BY <1>3, <1>4

\* Beginning and ending scripts keeps the trees; cleanup only unlinks the functions.
LEMMA RunTrees ==
  TInv /\ (Run \/ NoValue \/ Finish \/ Close \/ CleanupStep \/ CleanupDone) => TInv'
<1> SUFFICES ASSUME TInv, Run \/ NoValue \/ Finish \/ Close \/ CleanupStep \/ CleanupDone
             PROVE  TInv'
  OBVIOUS
<1>1. IInv'
  BY RunKeeps DEF TInv
<1> SUFFICES TreesOK' /\ Apart' /\ Phases' /\ ListsOK' /\ EvalOK'
  BY <1>1 DEF TInv
<1>2. CASE \E s \in Scripts : RunMain(s)
  <2>1. phase = "idle" /\ phase' = "parse" /\ UNCHANGED <<expr, root, values, ctl, doomed, lost>>
    BY <1>2 DEF RunMain, tree, eval
  <2>2. Phases' /\ EvalOK'
    BY <2>1 DEF TInv, Phases, EvalOK
  <2> QED BY <2>1, <2>2, SameTrees
<1>3. CASE \E s \in Scripts : RunEval(s)
  BY <1>3, DeleteRootTrees DEF RunEval, tree, eval
<1>4. CASE NoValue \/ Finish \/ Close \/ CleanupStep
  <2>1. /\ phase \in {"return", "idle", "cleanup"} /\ phase' \in {"crashed", "idle", "cleanup"}
        /\ ctl = <<>>
        /\ UNCHANGED <<expr, root, values, ctl, doomed, lost>>
    <3>1. CASE NoValue
      BY <3>1 DEF NoValue, tree, eval
    <3>2. CASE Finish
      BY <3>2 DEF Finish, tree, eval
    <3>3. CASE Close
      BY <3>3 DEF Close, tree, eval, TInv, Phases
    <3>4. CASE CleanupStep
      BY <3>4 DEF CleanupStep, tree, eval, TInv, Phases
    <3> QED BY <1>4, <3>1, <3>2, <3>3, <3>4
  <2>2. Phases' /\ EvalOK'
    BY <2>1 DEF TInv, Phases, EvalOK
  <2> QED BY <2>1, <2>2, SameTrees
<1>5. CASE CleanupDone
  <2>1. then \in {"idle", "parse", "closed"}
    BY DEF TInv, IInv, TypeOK
  <2> QED BY <1>5, <2>1, DeleteRootTrees DEF CleanupDone, tree, eval
<1> QED BY <1>2, <1>3, <1>4, <1>5 DEF Run

-----------------------------------------------------------------------------
(* Evaluating                                                              *)

\* While nothing is being deleted, the children of a node are allocated.
LEMMA ChildAllocated ==
  ASSUME TInv, phase # "delete", NEW e \in Allocated
  PROVE  /\ expr[e].left \in Allocated \cup {NULL}
         /\ \A i \in 1..Len(expr[e].list) : expr[e].list[i] \in Allocated
<1>1. doomed = <<>>
  BY DEF TInv, Phases
<1>2. Edges = Kids
  BY <1>1 DEF Edges, Passed
<1>3. e \in Expr /\ expr[e] \in Expression
  BY DEF Allocated, TInv, IInv, TypeOK
<1>4. expr[e].left \in Expr \cup {NULL} /\ expr[e].list \in Seq(Expr)
  BY <1>3 DEF Expression, Nameless, Named
<1>5. \A x \in Kids : x[3] \in Allocated
  BY <1>2 DEF TInv, TreesOK, Forest
<1>6. expr[e].left \in Allocated \cup {NULL}
  <2>1. CASE expr[e].left \in Expr
    <3>1. <<e, 0, expr[e].left>> \in Kids
      BY <1>3, <1>4, <2>1 DEF Kids, Child
    <3> QED BY <1>5, <3>1
  <2> QED BY <1>4, <2>1
<1>7. ASSUME NEW i \in 1..Len(expr[e].list)
      PROVE  expr[e].list[i] \in Allocated
  <2>1. i \in Nat /\ i # 0 /\ i <= Len(expr[e].list) /\ expr[e].list[i] \in Expr
    BY <1>4
  <2>2. <<e, i, expr[e].list[i]>> \in Kids
    BY <1>3, <2>1 DEF Kids, Child
  <2> QED BY <1>5, <2>2
<1> QED BY <1>6, <1>7

\* The loop over the functions is at the head or at an allocated definition.
LEMMA CursorAllocated ==
  ASSUME IInv, phase \in {"define", "lookup", "cleanup"}, cursor # ListHead
  PROVE  cursor \in Allocated
<1>1. TypeOK /\ FunctionsSound
  BY DEF IInv
<1>2. PICK k \in 1..(Len(functions) + 1) : cursor = RingAt(ListHead, functions, k)
  BY DEF IInv, CursorOK
<1> QED BY <1>1, <1>2, NextCursor DEF Allocated

\* The places of the active calls.
Good == {f \in CallFrame : f.e \in Allocated \cup {ListHead}}
LEMMA GoodFrames ==
  ASSUME TInv
  PROVE  ctl \in Seq(Good)
<1>1. ctl \in Seq(CallFrame) /\ Len(ctl) \in Nat
  BY DEF TInv, IInv, TypeOK
<1>2. \A i \in 1..Len(ctl) : ctl[i] \in CallFrame /\ ctl[i].e \in Allocated \cup {ListHead}
  BY <1>1 DEF TInv, EvalOK
<1>3. ctl \in [1..Len(ctl) -> Good]
  BY <1>1, <1>2 DEF Good
<1> QED BY <1>1, <1>3, SeqDef

\* A step of the evaluation: where it goes and what it will return to is allocated.
LEMMA EvaluatedTrees ==
  ASSUME TInv, UNCHANGED <<expr, root, values, doomed, lost>>,
         phase \in {"eval", "define", "lookup", "return"},
         phase' \in {"eval", "define", "lookup", "return", "crashed"},
         phase' \in {"eval", "define", "lookup"} => cur' \in Allocated,
         ctl' \in Seq(Good)
  PROVE  TreesOK' /\ Apart' /\ Phases' /\ ListsOK' /\ EvalOK'
<1>1. TreesOK' /\ Apart' /\ ListsOK' /\ Allocated' = Allocated
  BY SameTrees
<1>2. Phases'
  BY DEF TInv, Phases
<1>3. \A i \in 1..Len(ctl') : ctl'[i] \in Good
  OBVIOUS
<1>4. EvalOK'
  BY <1>1, <1>3 DEF EvalOK, Good
<1> QED BY <1>1, <1>2, <1>4

\* A step of the evaluation that calls kfs_lang_eval_value for an allocated node.
LEMMA ContinueTrees ==
  ASSUME TInv, UNCHANGED <<expr, root, values, doomed, lost>>,
         phase \in {"eval", "define", "lookup", "return"},
         NEW e \in Allocated \cup {NULL}, Continue(e), ctl' \in Seq(Good)
  PROVE  TreesOK' /\ Apart' /\ Phases' /\ ListsOK' /\ EvalOK'
<1>1. /\ phase' \in {"eval", "return"}
      /\ phase' \in {"eval", "define", "lookup"} => cur' \in Allocated
  BY DEF Continue
<1> QED BY <1>1, EvaluatedTrees

\* Evaluation follows the trees and leaves them as they are.
LEMMA EvaluateTrees == TInv /\ Evaluate => TInv'
<1> SUFFICES ASSUME TInv, Evaluate PROVE TInv'
  OBVIOUS
<1>1. IInv'
  BY EvaluateKeeps DEF TInv
<1> SUFFICES TreesOK' /\ Apart' /\ Phases' /\ ListsOK' /\ EvalOK'
  BY <1>1 DEF TInv
<1>2. ctl \in Seq(Good)
  BY GoodFrames
<1>3. phase \in {"eval", "define", "lookup"} =>
        /\ cur \in Allocated /\ cur \in Expr
        /\ expr[cur].left \in Allocated \cup {NULL}
        /\ expr[cur].list # <<>> => expr[cur].list[1] \in Allocated
  <2> SUFFICES ASSUME phase \in {"eval", "define", "lookup"}
               PROVE  /\ cur \in Allocated /\ cur \in Expr
                      /\ expr[cur].left \in Allocated \cup {NULL}
                      /\ expr[cur].list # <<>> => expr[cur].list[1] \in Allocated
    OBVIOUS
  <2>1. cur \in Allocated
    BY DEF TInv, EvalOK
  <2>2. cur \in Expr /\ expr[cur] \in Expression
    BY <2>1 DEF Allocated, TInv, IInv, TypeOK
  <2>3. expr[cur].list \in Seq(Expr)
    BY <2>2 DEF Expression, Nameless, Named
  <2>4. expr[cur].list # <<>> => 1 \in 1..Len(expr[cur].list)
    BY <2>3
  <2> QED BY <2>1, <2>2, <2>4, ChildAllocated
<1>4. phase = "return" /\ ctl # <<>> =>
        /\ Below \in Seq(Good) /\ Frame \in Good /\ Frame \in CallFrame /\ Frame.i \in Nat
        /\ Frame.op \in {"command", "list"} => Frame.e # ListHead
        /\ Frame.e # ListHead =>
             /\ Frame.e \in Allocated
             /\ expr[Frame.e].left \in Allocated \cup {NULL}
             /\ \A i \in 1..Len(expr[Frame.e].list) : expr[Frame.e].list[i] \in Allocated
  <2> SUFFICES ASSUME phase = "return", ctl # <<>>
               PROVE  /\ Below \in Seq(Good) /\ Frame \in Good /\ Frame \in CallFrame
                      /\ Frame.i \in Nat
                      /\ Frame.op \in {"command", "list"} => Frame.e # ListHead
                      /\ Frame.e # ListHead =>
                           /\ Frame.e \in Allocated
                           /\ expr[Frame.e].left \in Allocated \cup {NULL}
                           /\ \A i \in 1..Len(expr[Frame.e].list) :
                                expr[Frame.e].list[i] \in Allocated
    OBVIOUS
  <2>1. Below \in Seq(Good) /\ Frame \in Good
    BY <1>2, Pop DEF Below, Frame
  <2> HIDE DEF Frame
  <2>2. Frame \in CallFrame /\ Frame.e \in Allocated \cup {ListHead}
    BY <2>1 DEF Good
  <2>3. Frame.i \in Nat /\ (Frame.op \in {"command", "list"} => Frame.e # ListHead)
    BY <2>2, FrameTyped
  <2> QED BY <2>1, <2>2, <2>3, ChildAllocated
<1>5. CASE EvalLeaf \/ SkipCommand
  BY <1>2, <1>5, EvaluatedTrees DEF EvalLeaf, SkipCommand, Entering, Evaluated, tree, eval
<1>6. CASE EvalCommand
  <2>1. phase = "eval" /\ UNCHANGED <<expr, root, values, doomed, lost>>
    BY <1>6 DEF EvalCommand, Entering, Evaluated, tree
  <2>2. [op |-> "command", e |-> cur, i |-> 0] \in Good
    BY <1>3, <2>1 DEF Good, CallFrame
  <2>3. ctl' \in Seq(Good) /\ Continue(expr[cur].left)
    BY <1>2, <1>6, <2>2 DEF EvalCommand, Descend
  <2> QED BY <1>3, <2>1, <2>3, ContinueTrees
<1>7. CASE EvalList
  <2> DEFINE item == IF expr[cur].list = <<>> THEN NULL ELSE expr[cur].list[1]
  <2>1. phase = "eval" /\ UNCHANGED <<expr, root, values, doomed, lost>>
    BY <1>7 DEF EvalList, Entering, Evaluated, tree
  <2>2. [op |-> "list", e |-> cur, i |-> 1] \in Good
    BY <1>3, <2>1 DEF Good, CallFrame
  <2>3. ctl' \in Seq(Good) /\ Continue(item)
    BY <1>2, <1>7, <2>2 DEF EvalList, Descend
  <2>4. item \in Allocated \cup {NULL}
    BY <1>3, <2>1
  <2> HIDE DEF item
  <2> QED BY <2>1, <2>3, <2>4, ContinueTrees
<1>8. CASE EvalFunction \/ EvalCall
  BY <1>2, <1>3, <1>8, EvaluatedTrees DEF EvalFunction, EvalCall, Entering, Evaluated, tree, eval
<1>9. CASE Search
  BY <1>2, <1>3, <1>9, EvaluatedTrees DEF Search, Evaluated, tree, eval
<1>10. CASE DefineNew \/ Redefine
  BY <1>2, <1>10, EvaluatedTrees DEF DefineNew, Redefine, Defined, tree, eval
<1>11. CASE CallFound
  <2>1. phase = "lookup" /\ Found /\ UNCHANGED <<expr, root, values, doomed, lost>>
    BY <1>11 DEF CallFound, Evaluated, tree
  <2>2. cursor \in Allocated /\ cursor \in Expr
    BY <2>1, CursorAllocated DEF TInv, Found, Allocated
  <2>3. [op |-> "arguments", e |-> cursor, i |-> 0] \in Good
    BY <2>2, HandlesFacts DEF Good, CallFrame
  <2>4. ctl' \in Seq(Good) /\ Continue(expr[cur].left)
    BY <1>2, <1>11, <2>3 DEF CallFound, Descend
  <2> QED BY <1>3, <2>1, <2>4, ContinueTrees
<1>12. CASE StackOverflow
  BY <1>2, <1>12, EvaluatedTrees DEF StackOverflow, Evaluated, tree, eval
<1>17. CASE CallMissing
  <2>1. phase = "lookup" /\ UNCHANGED <<expr, root, values, doomed, lost>>
    BY <1>17 DEF CallMissing, Evaluated, tree
  <2>2. [op |-> "arguments", e |-> ListHead, i |-> 0] \in Good
    BY MissingFrame DEF Good
  <2>3. ctl' \in Seq(Good) /\ Continue(expr[cur].left)
    BY <1>2, <1>17, <2>2 DEF CallMissing, Descend
  <2> QED BY <1>3, <2>1, <2>3, ContinueTrees
<1>13. CASE CallBody
  <2>1. /\ phase = "return" /\ ctl # <<>> /\ UNCHANGED <<expr, root, values, doomed, lost>>
        /\ Frame.op = "arguments" /\ Frame.e # ListHead
    BY <1>13 DEF CallBody, Returning, Evaluated, tree, Frame
  <2>2. [Frame EXCEPT !.op = "body"] \in Good
    BY <1>4, <2>1, FrameTyped DEF Good
  <2>3. ctl' \in Seq(Good) /\ Continue(expr[Frame.e].left)
    BY <1>4, <1>13, <2>1, <2>2 DEF CallBody
  <2> QED BY <1>4, <2>1, <2>3, ContinueTrees
<1>18. CASE CallNoBody
  <2>1. /\ phase = "return" /\ ctl # <<>> /\ UNCHANGED <<expr, root, values, doomed, lost>>
        /\ Frame.op = "arguments"
    BY <1>18 DEF CallNoBody, Returning, Evaluated, tree, Frame
  <2>2. [Frame EXCEPT !.op = "body"] \in Good
    BY <1>4, <2>1, FrameTyped DEF Good
  <2>4. Append(Below, [Frame EXCEPT !.op = "body"]) \in Seq(Good)
    BY <1>4, <2>1, <2>2
  <2>5. ctl' = Append(Below, [Frame EXCEPT !.op = "body"]) \/ ctl' = ctl
    BY <1>18 DEF CallNoBody
  <2>3. ctl' \in Seq(Good) /\ phase' \in {"return", "crashed"}
    BY <1>2, <1>18, <2>4, <2>5 DEF CallNoBody, Continue
  <2> QED BY <2>1, <2>3, EvaluatedTrees
<1>14. CASE CallReturn \/ CommandReturn \/ ListReturn
  <2>1. /\ phase = "return" /\ ctl # <<>> /\ ctl' = Below /\ phase' = "return"
        /\ UNCHANGED <<expr, root, values, doomed, lost>>
    BY <1>14 DEF CallReturn, CommandReturn, ListReturn, Returning, Evaluated, tree
  <2> QED BY <1>4, <2>1, EvaluatedTrees
<1>15. CASE CommandAgain
  <2>1. /\ phase = "return" /\ ctl # <<>> /\ UNCHANGED <<expr, root, values, doomed, lost, ctl>>
        /\ Continue(expr[Frame.e].left) /\ Frame.op = "command"
    BY <1>15 DEF CommandAgain, Returning, Evaluated, tree, Frame
  <2> QED BY <1>2, <1>4, <2>1, ContinueTrees
<1>16. CASE ListItem
  <2>1. /\ phase = "return" /\ ctl # <<>> /\ UNCHANGED <<expr, root, values, doomed, lost>>
        /\ Frame.i < Len(expr[Frame.e].list) /\ Frame.op = "list"
    BY <1>16 DEF ListItem, Returning, Evaluated, tree, Frame
  <2>2. [Frame EXCEPT !.i = @ + 1] \in Good
    BY <1>4, <2>1, FrameTyped DEF Good
  <2>3. ctl' \in Seq(Good) /\ Continue(expr[Frame.e].list[Frame.i + 1])
    BY <1>4, <1>16, <2>1, <2>2 DEF ListItem
  <2>4. Len(expr[Frame.e].list) \in Nat
    <3>1. Frame.e \in Expr /\ expr[Frame.e] \in Expression
      BY <1>4, <2>1 DEF Allocated, TInv, IInv, TypeOK
    <3>2. expr[Frame.e].list \in Seq(Expr)
      BY <3>1 DEF Expression, Nameless, Named
    <3> QED BY <3>2
  <2>5. Frame.i + 1 \in 1..Len(expr[Frame.e].list)
    BY <1>4, <2>1, <2>4
  <2> QED BY <1>4, <2>1, <2>3, <2>5, ContinueTrees
<1> QED
  BY <1>5, <1>6, <1>7, <1>8, <1>9, <1>10, <1>11, <1>12, <1>13, <1>14, <1>15, <1>16, <1>17,
     <1>18 DEF Evaluate

-----------------------------------------------------------------------------
(* The theorems                                                            *)

\* A new environment has no trees.
LEMMA InitTrees == Init => TInv
<1> SUFFICES ASSUME Init PROVE TInv
  OBVIOUS
<1>1. IInv
  BY InitIInv
<1>2. Allocated = {}
  BY DEF Init, Allocated, Free
<1>3. Kids = {} /\ Edges = {}
  BY <1>2 DEF Kids, Edges
<1>4. Roots = {}
  BY DEF Init, Roots, Kept, Items, Dooms
<1>5. TreesOK
  BY <1>2, <1>3, <1>4 DEF TreesOK, Forest, Full
<1>6. Apart /\ Phases /\ EvalOK
  BY DEF Init, Apart, Distinct, Items, Phases, EvalOK
<1>7. ListsOK
  BY DEF Init, ListsOK, Free
<1> QED BY <1>1, <1>5, <1>6, <1>7 DEF TInv

\* Every step of an environment keeps its trees.
LEMMA NextTrees == TInv /\ [Next]_vars => TInv'
<1> SUFFICES ASSUME TInv, [Next]_vars PROVE TInv'
  OBVIOUS
<1>1. CASE Stopped \/ UNCHANGED vars
  <2>1. UNCHANGED vars
    BY <1>1 DEF Stopped
  <2>2. IInv'
    BY <2>1, NextIInv DEF TInv
  <2>3. UNCHANGED <<expr, root, values, doomed, lost, phase, cur, ctl>>
    BY <2>1 DEF vars, tree, eval
  <2>4. Allocated' = Allocated
    BY <2>3 DEF Allocated
  <2>5. Edges' = Edges
    BY <2>3, <2>4 DEF Edges, Kids, Child, Passed
  <2>6. Roots' = Roots
    BY <2>3 DEF Roots, Kept, Items, Dooms
  <2>7. TreesOK'
    BY <2>3, <2>4, <2>5, <2>6 DEF TInv, TreesOK
  <2>8. Apart' /\ Phases' /\ ListsOK' /\ EvalOK'
    BY <2>3, <2>4 DEF TInv, Apart, Distinct, Items, Phases, ListsOK, EvalOK
  <2> QED BY <2>2, <2>7, <2>8 DEF TInv
<1> QED
  BY <1>1, ParseTrees, DeleteTrees, RunTrees, EvaluateTrees DEF Next

\* kfs_lang_env.c:632: what the code is going to follow is allocated, also when a
\* function is redefined or forgotten while it runs.
THEOREM NothingUsedAfterFree == Spec => []NoUseAfterFree
<1>1. TInv => NoUseAfterFree
  <2> SUFFICES ASSUME TInv PROVE NoUseAfterFree
    OBVIOUS
  <2>1. Roots \subseteq Allocated
    BY DEF TInv, TreesOK, Forest
  <2>2. (IF phase = "delete" THEN {} ELSE {root}) \subseteq Allocated \cup {NULL}
    BY <2>1 DEF Roots, Kept
  <2>3. phase \in {"eval", "define", "lookup"} => cur \in Allocated
    BY DEF TInv, EvalOK
  <2>4. phase \in {"define", "lookup", "cleanup"} => cursor \in Allocated \cup {ListHead}
    BY CursorAllocated DEF TInv
  <2>5. /\ {values[i] : i \in 1..Len(values)} \subseteq Allocated
        /\ {doomed[i].e : i \in 1..Len(doomed)} \subseteq Allocated
    BY <2>1 DEF Roots, Items, Dooms
  <2>6. {ctl[i].e : i \in 1..Len(ctl)} \subseteq Allocated \cup {ListHead}
    BY DEF TInv, EvalOK
  <2> QED BY <2>2, <2>3, <2>4, <2>5, <2>6 DEF NoUseAfterFree, InUse
<1> QED BY InitTrees, NextTrees, <1>1, PTL DEF Spec

\* expression.c:197, kfs_lang_env.c:667: a tree is freed with all its nodes; only a
\* syntax error and a tree that main does not free leave something behind.
THEOREM TreesAreFreed == Spec => []NothingLost
<1>1. TInv => NothingLost
  <2> SUFFICES ASSUME TInv, ~lost, phase \in {"idle", "closed"}, root = NULL
               PROVE  Allocated = {}
    BY DEF NothingLost
  <2>1. values = <<>> /\ doomed = <<>>
    BY DEF TInv, Phases
  <2>2. Roots = {}
    BY <2>1 DEF Roots, Kept, Items, Dooms
  <2>3. Forest(Allocated, {}, Edges) /\ Full(Allocated, {}, Edges)
    BY <2>2 DEF TInv, TreesOK
  <2> QED BY <2>3, ForestEmpty
<1> QED BY InitTrees, NextTrees, <1>1, PTL DEF Spec

=============================================================================
