--------------------------- MODULE KfsFlowProofs ----------------------------
(***************************************************************************)
(* What "return", "break" and "continue" reach, and who owns the memory of *)
(* values, proved for all scripts of the grammar and all operators on      *)
(* values that make none of the three.  An invariant says what every place *)
(* below a frame may get (VInv), another what stands below a loop and      *)
(* below a "break" (LInv), and a third how many cells each part of the     *)
(* state accounts for (OInv).  At the end, and apart from these: what      *)
(* replace_system_props makes of the text of a string.                     *)
(***************************************************************************)
EXTENDS KfsEvalProofs, KfsReplaced, FiniteSetTheorems

-----------------------------------------------------------------------------
(* Flow control.  V are the values that operands have and variables hold.  *)

\* The names of the entries of an object expression.
Names(e) == {e.object[k].name : k \in DOMAIN e.object}

\* V is closed under what the interpreter makes of expressions and values, and
\* none of them is what "return" makes.  (The least such set is built from what
\* expressions and files yield by applying the operators again and again.)
Closed(X, V) ==
  /\ {Null, value_new("Empty"), value_new_double, value_new_object(EmptyDict)} \subseteq V
  /\ \A n \in Int : value_new_int(n) \in V
  /\ \A b \in BOOLEAN : value_new_bool(b) \in V
  /\ \A l \in Seq(V) : value_new_list(l) \in V
  /\ \A e \in X : e.type = "eObjectVALUE" =>
       \A o \in [Names(e) -> V] : value_new_object(o) \in V
  /\ \A e \in X : e.type = "eStringVALUE" => \A n \in Nat : eval_string(e, n) \in V
  /\ JsonValues \cup FileValues \subseteq V \cup {Wild} /\ DoubleInts \subseteq Int
  /\ \A v \in V :
       /\ v.type # "FC_Return"
       /\ v.type \in {"Int", "Bool"} => v.i \in Int
       /\ v.type = "List" => v.l \in Seq(V)
       /\ v.type = "Object" => \A name \in DOMAIN v.o : v.o[name] \in V
       /\ Copy(v) \in V /\ Negation(v) \in V \cup {Wild}
       /\ \A type \in BinaryTypes : \A w \in V : Binary(type, v, w) \subseteq V \cup {Wild}

\* What commands may return besides: "return", "break" and "continue".
Returns(V) == {FCReturn(l) : l \in Seq(V)}
LoopExits == {value_new("FC_Break"), value_new("FC_Conti")}
Yields(V) == V \cup Returns(V) \cup LoopExits

\* What else the grammar says of trees.
LEMMA MoreTreeFacts ==
  ASSUME NEW X, NEW C, Parsed(X, C), NEW e \in C
  PROVE  /\ e.type \in {"eObjectVALUE", "eStringVALUE", "eARRAY_ACCESS", "eFUNCTION_CALL"}
              \cup BinaryTypes => e \in X
         /\ e.type = "eStringVALUE" => e.id \in LiteralIds
         /\ e.type = "eIntVALUE" => e.lValue \in Int
         /\ e.type = "eBoolVALUE" => e.lValue \in BOOLEAN
         /\ e.type \in {"eRETURN", "eBREAK", "eCONTI", "eIF", "eWHILE", "eBLOCK"} => e \notin X
<1> USE DEF BinaryTypes
<1>1. e \in X => ExprNode(e, X)
  BY DEF Parsed
<1>2. \/ e \in X
      \/ e.type \in {"eBREAK", "eCONTI"}
      \/ InputNode(e, X, C, C, C)
  BY DEF Parsed
<1>3. CASE e \in X
  BY <1>1, <1>3 DEF ExprNode
<1>4. CASE e \notin X
  BY <1>2, <1>4 DEF InputNode
<1> QED
  BY <1>3, <1>4

-----------------------------------------------------------------------------
(* All variables hold values of V.                                         *)
StoredLevel(V, level) == \A name \in DOMAIN level : level[name] \in V
StoredSpace(V, vs) == \A l \in DOMAIN vs : StoredLevel(V, vs[l])
Stored(V, sp) == \A k \in DOMAIN sp : StoredSpace(V, sp[k])

\* kfs_lang_get_var
LEMMA StoredGet ==
  ASSUME NEW X, NEW V, Closed(X, V), NEW sp, IsSpaces(sp), Stored(V, sp), NEW name
  PROVE  kfs_lang_get_var(sp, name) \in V
<1> DEFINE vs == sp[Len(sp)]
           hits == {k \in DOMAIN vs : dict_get(vs[k], name) # Null}
           found == var_stack_get(vs, name)
<1>1. Len(sp) \in DOMAIN sp /\ Len(vs) \in Nat /\ DOMAIN vs = 1 .. Len(vs)
  BY LastSpace, IsSeqFacts
<1>2. StoredSpace(V, vs)
  BY <1>1 DEF Stored
<1>3. Null \in V /\ value_new("Empty") \in V
  BY DEF Closed
<1>4. \A k \in DOMAIN vs : dict_get(vs[k], name) \in V
  BY <1>2, <1>3 DEF StoredSpace, StoredLevel, dict_get
<1>5. found \in V
  <2>1. CASE hits = {}
    BY <1>3, <2>1 DEF var_stack_get
  <2>2. CASE hits # {}
    <3>1. found = dict_get(vs[Max(hits)], name)
      BY <2>2 DEF var_stack_get
    <3>2. hits \subseteq 1 .. Len(vs)
      BY <1>1
    <3> HIDE DEF hits, found, vs
    <3>3. Max(hits) \in hits
      BY <1>1, <2>2, <3>2, GreatestExists
    <3> QED BY <1>1, <1>4, <3>1, <3>2, <3>3
  <2> QED BY <2>1, <2>2
<1>6. kfs_lang_get_var(sp, name) = IF found = Null THEN value_new("Empty") ELSE found
  BY DEF kfs_lang_get_var, kfs_lang_env_actual_space
<1> QED
  BY <1>3, <1>5, <1>6

\* kfs_lang_set_var
LEMMA StoredSet ==
  ASSUME NEW V, NEW sp, Stored(V, sp), NEW name, NEW v \in V
  PROVE  Stored(V, kfs_lang_set_var(sp, name, v))
<1> DEFINE n == Len(sp)
           top == sp[n]
           i == AssignedLevel(top, name)
           x == dict_set(top[i], name, v)
           vs == [top EXCEPT ![i] = x]
<1>1. kfs_lang_set_var(sp, name, v) = [sp EXCEPT ![n] = vs]
  BY DEF kfs_lang_set_var, var_stack_set
<1>2. n \in DOMAIN sp => StoredSpace(V, vs)
  <2> SUFFICES ASSUME n \in DOMAIN sp PROVE StoredSpace(V, vs)
    OBVIOUS
  <2>1. StoredSpace(V, top)
    BY DEF Stored
  <2>2. i \in DOMAIN top => StoredLevel(V, x)
    <3> HIDE DEF i, top
    <3> QED BY <2>1 DEF StoredSpace, StoredLevel, dict_set
  <2>3. DOMAIN vs = DOMAIN top /\ \A l \in DOMAIN top : vs[l] = IF l = i THEN x ELSE top[l]
    <3> HIDE DEF i, top, x
    <3> QED OBVIOUS
  <2> HIDE DEF i, top, x, vs
  <2> QED BY <2>1, <2>2, <2>3 DEF StoredSpace
<1> HIDE DEF vs
<1> QED
  BY <1>1, <1>2 DEF Stored

\* The first level of a function holds copies of its arguments.
LEMMA StoredArguments ==
  ASSUME NEW X, NEW V, Closed(X, V), NEW values \in V
  PROVE  StoredLevel(V, variables_new(values))
BY DEF StoredLevel, variables_new, Closed, EmptyDict

\* add_space and remove_space
LEMMA StoredAddSpace ==
  ASSUME NEW V, NEW sp, IsSeq(sp), Stored(V, sp), NEW v, StoredLevel(V, variables_new(v))
  PROVE  Stored(V, kfs_lang_env_add_space(sp, v))
<1> DEFINE level == variables_new(v)
           vs == <<level>>
<1>1. DOMAIN vs = 1 .. 1 /\ vs[1] = level
  OBVIOUS
<1>2. StoredSpace(V, vs)
  BY <1>1 DEF StoredSpace
<1> HIDE DEF vs
<1>3. /\ DOMAIN Append(sp, vs) = 1 .. Len(sp) + 1
      /\ \A k \in DOMAIN sp : Append(sp, vs)[k] = sp[k]
      /\ Append(sp, vs)[Len(sp) + 1] = vs
  BY AppendFacts
<1>4. Len(sp) \in Nat /\ DOMAIN sp = 1 .. Len(sp)
  BY IsSeqFacts
<1>5. Stored(V, Append(sp, vs))
  BY <1>2, <1>3, <1>4 DEF Stored
<1> QED
  BY <1>5 DEF kfs_lang_env_add_space, vs

\* When a function ends, its space goes.
LEMMA StoredRemoveSpace ==
  ASSUME NEW V, NEW sp, IsSeq(sp), Stored(V, sp)
  PROVE  Stored(V, kfs_lang_env_remove_space(sp))
<1>1. CASE sp = <<>>
  BY <1>1 DEF kfs_lang_env_remove_space
<1>2. CASE sp # <<>>
  <2>1. /\ DOMAIN Front(sp) = 1 .. Len(sp) - 1 /\ DOMAIN sp = 1 .. Len(sp) /\ Len(sp) \in Nat
        /\ \A k \in DOMAIN Front(sp) : Front(sp)[k] = sp[k]
    BY <1>2, FrontFacts, IsSeqFacts
  <2>2. Stored(V, Front(sp))
    BY <2>1 DEF Stored
  <2> QED BY <1>2, <2>2 DEF kfs_lang_env_remove_space
<1> QED BY <1>1, <1>2

\* The last space is replaced by another.
LEMMA StoredReplaced ==
  ASSUME NEW V, NEW sp, Stored(V, sp), NEW vs, StoredSpace(V, vs)
  PROVE  Stored(V, [sp EXCEPT ![Len(sp)] = vs])
BY DEF Stored

\* A block starts with an empty level, and takes the innermost away.
LEMMA StoredAddVars ==
  ASSUME NEW V, NEW sp, IsSpaces(sp), Stored(V, sp)
  PROVE  Stored(V, kfs_lang_env_space_add_vars(sp))
<1> DEFINE top == sp[Len(sp)]
           vs == Append(top, EmptyDict)
<1>1. IsSeq(top) /\ StoredSpace(V, top)
  BY LastSpace DEF Stored
<1>2. StoredLevel(V, EmptyDict)
  BY DEF StoredLevel, EmptyDict
<1> HIDE DEF top
<1>3. /\ DOMAIN vs = 1 .. Len(top) + 1 /\ vs[Len(top) + 1] = EmptyDict
      /\ \A k \in DOMAIN top : vs[k] = top[k]
      /\ Len(top) \in Nat /\ DOMAIN top = 1 .. Len(top)
  BY <1>1, AppendFacts, IsSeqFacts
<1> HIDE DEF vs
<1>4. StoredSpace(V, vs)
  BY <1>1, <1>2, <1>3 DEF StoredSpace
<1> QED
  BY <1>4, StoredReplaced DEF kfs_lang_env_space_add_vars, vs, top

\* When a block ends, its level goes, and the others keep their values.
LEMMA StoredDelVars ==
  ASSUME NEW V, NEW sp, IsSpaces(sp), Stored(V, sp)
  PROVE  Stored(V, kfs_lang_env_space_del_vars(sp))
<1> DEFINE top == sp[Len(sp)]
           vs == Front(top)
<1>1. IsSeq(top) /\ StoredSpace(V, top) /\ top # <<>>
  BY LastSpace DEF Stored
<1> HIDE DEF top
<1>2. /\ DOMAIN vs = 1 .. Len(top) - 1 /\ Len(top) \in Nat /\ DOMAIN top = 1 .. Len(top)
      /\ \A k \in DOMAIN vs : vs[k] = top[k]
  BY <1>1, FrontFacts, IsSeqFacts
<1>3. StoredSpace(V, vs)
  <2> HIDE DEF vs
  <2> QED BY <1>1, <1>2 DEF StoredSpace
<1> QED
  BY <1>1, <1>3, StoredReplaced DEF kfs_lang_env_space_del_vars, top
-----------------------------------------------------------------------------
(* Where an operand is expected, its value is one of V.                    *)
VFrame(V, f) ==
  /\ f.held \in Seq(V) /\ f.n \in Int
  /\ f.pc \in {"left held", "right held"} => f.held # <<>>
  /\ f.e.type = "eObjectVALUE" /\ f.pc = "item" =>
       f.n \in 1 .. Len(f.e.object) /\ Len(f.held) = f.n - 1

VPlace(X, V, c, v) ==
  v \in Yields(V) /\ (c # <<>> /\ ~CommandPlace(X, c[Len(c)]) => v \in V)

VInv(X, V) ==
  /\ Stored(V, spaces)
  /\ \A i \in DOMAIN ctl : VFrame(V, ctl[i])
  /\ phase = "return" => VPlace(X, V, ctl, ret)

\* What an expression returns is what the place it stands in may get.
LEMMA VYield ==
  ASSUME NEW X, NEW C, NEW V, IInv, PInv(X, C), VInv(X, V), phase = "eval",
         NEW v \in Yields(V), Yield(v), cur \in X => v \in V, spaces' = spaces
  PROVE  VInv(X, V)'
<1>1. IsSeq(ctl) /\ Starts(X, C, ctl, spaces, cur)
  BY DEF IInv, Stacks, Typed, PInv
<1>2. ctl # <<>> /\ ~CommandPlace(X, ctl[Len(ctl)]) => cur \in X
  BY <1>1, IsSeqFacts DEF Starts, ChildOf
<1>3. phase' = "return" /\ ret' = v /\ ctl' = ctl
  BY DEF Yield
<1> QED
  BY <1>2, <1>3 DEF VInv, VPlace

\* The frame that returns, and the place that gets its value.
LEMMA VTop ==
  ASSUME NEW X, NEW C, NEW V, IInv, PInv(X, C), VInv(X, V), phase = "return", ctl # <<>>
  PROVE  /\ Top.e \in C /\ Top.fn \in C /\ VFrame(V, Top) /\ VPlace(X, V, ctl, ret)
         /\ IsSeq(ctl) /\ IsSpaces(spaces) /\ IsFrame(Top)
         /\ DOMAIN Front(ctl) \subseteq DOMAIN ctl
         /\ \A i \in DOMAIN Front(ctl) : Front(ctl)[i] = ctl[i]
         /\ Front(ctl) # <<>> /\ ~CommandPlace(X, Front(ctl)[Len(Front(ctl))]) => Top.e \in X
<1>1. IsSeq(ctl) /\ IsSpaces(spaces) /\ IsFrame(Top) /\ Pure(X, C, ctl, spaces)
  BY TopFacts DEF Stacks, Typed, PInv
<1>2. /\ Len(ctl) \in DOMAIN ctl /\ Len(ctl) \in Nat /\ DOMAIN ctl = 1 .. Len(ctl)
      /\ DOMAIN Front(ctl) = 1 .. Len(ctl) - 1 /\ Len(Front(ctl)) = Len(ctl) - 1
      /\ \A i \in DOMAIN Front(ctl) : Front(ctl)[i] = ctl[i]
      /\ IsSeq(Front(ctl))
  BY <1>1, IsSeqFacts, FrontFacts
<1>3. Top.e \in C /\ Top.fn \in C /\ VFrame(V, Top) /\ VPlace(X, V, ctl, ret)
  BY <1>1, <1>2 DEF Pure, Trees, VInv, Top
<1>4. Len(ctl) - 1 \in DOMAIN ctl => Top.e \in ChildOf(X, C, ctl[Len(ctl) - 1])
  BY <1>1, <1>2 DEF Pure, Trees, Top
<1>5. Front(ctl) # <<>> => Len(ctl) - 1 \in DOMAIN Front(ctl)
  BY <1>2, IsSeqFacts
<1> QED
  BY <1>1, <1>2, <1>3, <1>4, <1>5 DEF ChildOf

\* A call returns.
LEMMA VPop ==
  ASSUME NEW X, NEW C, NEW V, IInv, PInv(X, C), VInv(X, V), phase = "return", ctl # <<>>,
         NEW v \in Yields(V), Pop(v), Top.e \in X => v \in V,
         NEW sp2, spaces' = sp2, Stored(V, sp2)
  PROVE  VInv(X, V)'
<1>1. phase' = "return" /\ ret' = v /\ ctl' = Front(ctl)
  BY DEF Pop
<1>2. \A i \in DOMAIN Front(ctl) : VFrame(V, Front(ctl)[i])
  BY VTop DEF VInv
<1>3. VPlace(X, V, Front(ctl), v)
  BY VTop DEF VPlace
<1>4. Stored(V, sp2)
  OBVIOUS
<1> QED
  BY <1>1, <1>2, <1>3, <1>4 DEF VInv

\* A step that does not return a value, in which no frame changes.
LEMMA VStay ==
  ASSUME NEW X, NEW V, VInv(X, V), phase' # "return", UNCHANGED <<ctl, spaces>>
  PROVE  VInv(X, V)'
BY DEF VInv

\* A step that enters a nested call, with a new frame or a changed one.
LEMMA VEnter ==
  ASSUME NEW X, NEW V, IInv, VInv(X, V), phase = "eval", NEW f, VFrame(V, f),
         ctl' = Append(ctl, f), phase' # "return", NEW sp2, spaces' = sp2, Stored(V, sp2)
  PROVE  VInv(X, V)'
<1>1. IsSeq(ctl)
  BY DEF IInv, Stacks, Typed
<1>2. /\ DOMAIN Append(ctl, f) = 1 .. Len(ctl) + 1 /\ DOMAIN ctl = 1 .. Len(ctl)
      /\ Len(ctl) \in Nat /\ \A i \in DOMAIN ctl : Append(ctl, f)[i] = ctl[i]
      /\ Append(ctl, f)[Len(ctl) + 1] = f
  BY <1>1, AppendFacts, IsSeqFacts
<1>3. \A i \in DOMAIN Append(ctl, f) : VFrame(V, Append(ctl, f)[i])
  BY <1>2 DEF VInv
<1> QED
  BY <1>3 DEF VInv

\* The frame on top, changed or not, goes on with a nested call.
LEMMA VGoOn ==
  ASSUME NEW X, NEW V, IInv, VInv(X, V), phase = "return", ctl # <<>>, NEW f, VFrame(V, f),
         ctl' = Append(Front(ctl), f), phase' # "return", NEW sp2, spaces' = sp2,
         Stored(V, sp2)
  PROVE  VInv(X, V)'
<1> DEFINE d == Front(ctl)
<1>1. IsSeq(ctl)
  BY TopFacts DEF Stacks, Typed
<1>2. /\ IsSeq(d) /\ \A i \in DOMAIN d : d[i] = ctl[i]
      /\ DOMAIN d \subseteq DOMAIN ctl
  BY <1>1, FrontFacts, IsSeqFacts
<1> HIDE DEF d
<1>3. /\ DOMAIN Append(d, f) = 1 .. Len(d) + 1 /\ DOMAIN d = 1 .. Len(d)
      /\ Len(d) \in Nat /\ \A i \in DOMAIN d : Append(d, f)[i] = d[i]
      /\ Append(d, f)[Len(d) + 1] = f
  BY <1>2, AppendFacts, IsSeqFacts
<1>4. \A i \in DOMAIN Append(d, f) : VFrame(V, Append(d, f)[i])
  BY <1>2, <1>3 DEF VInv
<1> QED
  BY <1>4 DEF VInv, d

\* A frame as it is made.
LEMMA VFrameEnters ==
  ASSUME NEW X, NEW V, IInv, VInv(X, V), phase = "eval", NEW pc \in Pcs, NEW fn, NEW child,
         \/ pc # "item" /\ Push(Frame(pc), child)
         \/ /\ Push([Frame(pc) EXCEPT !.n = 1], child)
            /\ cur.type = "eObjectVALUE" => Len(cur.object) \in Nat \ {0}
         \/ pc # "item" /\ Push([Frame(pc) EXCEPT !.fn = fn], child),
         pc \notin {"left held", "right held"}, UNCHANGED env
  PROVE  VInv(X, V)'
<1> DEFINE a == Frame(pc)
           b == [Frame(pc) EXCEPT !.n = 1]
           c == [Frame(pc) EXCEPT !.fn = fn]
<1>2. /\ a.e = cur /\ a.pc = pc /\ a.held = <<>> /\ a.n = 0
      /\ b.e = cur /\ b.pc = pc /\ b.held = <<>> /\ b.n = 1
      /\ c.e = cur /\ c.pc = pc /\ c.held = <<>> /\ c.n = 0
  BY DEF Frame
<1> HIDE DEF a, b, c
<1>1. \A f \in {a, b, c} : f.e = cur /\ f.pc = pc /\ f.held = <<>> /\ f.n \in Int
  <2>1. 0 \in Int /\ 1 \in Int
    BY ONLY EmptySeq
  <2> QED BY <1>2, <2>1, Zenon
<1>3. <<>> \in Seq(V) /\ Len(<<>>) = 0
  BY EmptySeq
<1>4. PICK f \in {a, b, c} : Push(f, child) /\ VFrame(V, f)
  <2>1. CASE Push(b, child) /\ (cur.type = "eObjectVALUE" => Len(cur.object) \in Nat \ {0})
    <3>1. VFrame(V, b)
      <4>4. b.n = 1 /\ b.held = <<>> /\ b.e = cur
        BY <1>2
      <4>5. Len(<<>>) = 1 - 1 /\ (cur.type = "eObjectVALUE" => 1 \in 1 .. Len(cur.object))
        BY ONLY <1>3, <2>1
      <4>1. b.held \in Seq(V) /\ Len(b.held) = b.n - 1
        BY <1>3, <4>4, <4>5, Zenon
      <4>2. b.e.type = "eObjectVALUE" => b.n \in 1 .. Len(b.e.object)
        BY <4>4, <4>5, Zenon
      <4>3. b.pc \notin {"left held", "right held"}
        BY <1>2
      <4> QED BY <1>1, <4>1, <4>2, <4>3 DEF VFrame
    <3> QED BY <2>1, <3>1
  <2>2. CASE pc # "item" /\ (Push(a, child) \/ Push(c, child))
    BY <1>1, <1>3, <2>2 DEF VFrame
  <2> QED BY <2>1, <2>2 DEF a, b, c
<1>5. ctl' = Append(ctl, f) /\ phase' = "eval" /\ spaces' = spaces
  BY <1>4 DEF Push, Descend, env
<1>6. Stored(V, spaces)
  BY DEF VInv
<1> QED
  BY <1>4, <1>5, <1>6, VEnter

\* The frame on top goes on with other locals.
LEMMA VFrameGoesOn ==
  ASSUME NEW X, NEW V, IInv, VInv(X, V), phase = "return", ctl # <<>>, IsFrame(Top), VFrame(V, Top),
         NEW pc, NEW n, NEW held, NEW child,
         \/ /\ Switch([Top EXCEPT !.n = n, !.held = held], child)
            /\ Top.pc = "item" /\ held \in Seq(V) /\ n \in Int
            /\ Top.e.type = "eObjectVALUE" => n \in 1 .. Len(Top.e.object) /\ Len(held) = n - 1
         \/ /\ Switch([Top EXCEPT !.pc = pc, !.held = held], child)
            /\ pc # "item" /\ held \in Seq(V) /\ held # <<>>
         \/ /\ \/ Switch([Top EXCEPT !.pc = pc, !.n = n], child) /\ n \in Int
               \/ Switch([Top EXCEPT !.pc = pc], child)
            /\ pc \notin {"item", "left held", "right held"},
         UNCHANGED env
  PROVE  VInv(X, V)'
<1> DEFINE a == [Top EXCEPT !.n = n, !.held = held]
           b == [Top EXCEPT !.pc = pc, !.held = held]
           c == [Top EXCEPT !.pc = pc, !.n = n]
           d == [Top EXCEPT !.pc = pc]
<1>1. \A f \in {a, b, c, d} : f.e = Top.e
  BY DEF IsFrame
<1>2. /\ a.n = n /\ a.held = held /\ a.pc = Top.pc
      /\ b.pc = pc /\ b.held = held /\ b.n = Top.n
      /\ c.pc = pc /\ c.held = Top.held /\ c.n = n
      /\ d.pc = pc /\ d.held = Top.held /\ d.n = Top.n
  BY DEF IsFrame
<1> HIDE DEF a, b, c, d
<1>3. PICK f \in {a, b, c, d} : Switch(f, child) /\ VFrame(V, f)
  <2>1. CASE /\ Switch(a, child) /\ Top.pc = "item" /\ held \in Seq(V) /\ n \in Int
             /\ Top.e.type = "eObjectVALUE" => n \in 1 .. Len(Top.e.object) /\ Len(held) = n - 1
    BY <1>1, <1>2, <2>1 DEF VFrame
  <2>2. CASE Switch(b, child) /\ pc # "item" /\ held \in Seq(V) /\ held # <<>>
    BY <1>1, <1>2, <2>2 DEF VFrame
  <2>3. CASE /\ (Switch(c, child) /\ n \in Int) \/ Switch(d, child)
             /\ pc \notin {"item", "left held", "right held"}
    BY <1>1, <1>2, <2>3 DEF VFrame
  <2> QED BY <2>1, <2>2, <2>3 DEF a, b, c, d
<1>4. ctl' = Append(Front(ctl), f) /\ phase' = "eval" /\ spaces' = spaces
  BY <1>3 DEF Switch, Descend, env
<1>5. Stored(V, spaces)
  BY DEF VInv
<1> QED
  BY <1>3, <1>4, <1>5, VGoOn

\* Expressions without operands.
LEMMA LeavesKeepV ==
  ASSUME NEW X, NEW C, NEW V, Parsed(X, C), Closed(X, V), IInv, PInv(X, C), VInv(X, V), Leaves
  PROVE  VInv(X, V)'
<1>1. phase = "eval" /\ spaces' = spaces /\ cur \in C
  BY DEF Leaves, EvalNull, EvalLeaf, EvalString, EvalNothing, EvalVar, EvalIsEmpty,
         EvalFunctionDef, Evaluating, env, PInv, Starts
<1>2. \A v \in V : v \in Yields(V)
  BY DEF Yields
<1>3. ASSUME NEW v \in V, Yield(v)
      PROVE  VInv(X, V)'
  BY <1>1, <1>2, <1>3, VYield
<1>4. IsSpaces(spaces) /\ Stored(V, spaces) /\ cut \in [LiteralIds -> Nat]
  BY <1>1 DEF IInv, Rest, Stacks, Typed, VInv
<1>5. CASE EvalNull \/ EvalNothing \/ EvalFunctionDef
  <2>1. Null \in V /\ Yield(Null)
    BY <1>5 DEF Closed, EvalNull, EvalNothing, EvalFunctionDef
  <2> QED BY <2>1, <1>3
<1>6. CASE EvalLeaf
  <2> DEFINE v == LeafValue(cur)
  <2>1. Yield(v) /\ cur.type \in LeafTypes
    BY <1>6 DEF EvalLeaf, Evaluating
  <2>2. CASE cur.type \in {"eBREAK", "eCONTI"}
    <3>1. v \in LoopExits
      BY <2>2 DEF LeafValue, LoopExits
    <3>2. cur \notin X
      BY <1>1, <2>2, MoreTreeFacts
    <3> HIDE DEF v
    <3>3. v \in Yields(V)
      BY <3>1 DEF Yields
    <3> QED BY <1>1, <2>1, <3>2, <3>3, VYield
  <2>3. CASE cur.type \in {"eIntVALUE", "eDoubleVALUE", "eBoolVALUE"}
    <3>1. /\ cur.type = "eIntVALUE" => cur.lValue \in Int
          /\ cur.type = "eBoolVALUE" => cur.lValue \in BOOLEAN
      BY <1>1, MoreTreeFacts
    <3>2. /\ cur.type = "eIntVALUE" => v = value_new_int(cur.lValue)
          /\ cur.type = "eDoubleVALUE" => v = value_new_double
          /\ cur.type = "eBoolVALUE" => v = value_new_bool(cur.lValue)
      BY DEF LeafValue
    <3> HIDE DEF v
    <3>3. v \in V
      BY <2>3, <3>1, <3>2 DEF Closed
    <3> QED BY <2>1, <3>3, <1>3
  <2> QED BY <2>1, <2>2, <2>3 DEF LeafTypes
<1>7. CASE EvalString
  <2>1. Yield(eval_string(cur, cut[cur.id])) /\ cur.type = "eStringVALUE"
    BY <1>7 DEF EvalString, Evaluating
  <2>2. cur \in X /\ cur.id \in LiteralIds
    BY <1>1, <2>1, MoreTreeFacts
  <2>3. cut[cur.id] \in Nat
    BY <1>4, <2>2
  <2>4. eval_string(cur, cut[cur.id]) \in V
    BY <2>1, <2>2, <2>3 DEF Closed
  <2> QED BY <2>1, <2>4, <1>3
<1>8. CASE EvalVar
  <2>1. Yield(Copy(kfs_lang_get_var(spaces, cur.str)))
    BY <1>8 DEF EvalVar
  <2>2. kfs_lang_get_var(spaces, cur.str) \in V
    BY <1>4, StoredGet
  <2>3. Copy(kfs_lang_get_var(spaces, cur.str)) \in V
    BY <2>2 DEF Closed
  <2> QED BY <2>1, <2>3, <1>3
<1>9. CASE EvalIsEmpty
  <2> DEFINE b == kfs_lang_get_var(spaces, cur.str).type = "Empty"
  <2>1. Yield(value_new_bool(b)) /\ b \in BOOLEAN
    BY <1>9 DEF EvalIsEmpty
  <2> HIDE DEF b
  <2>2. value_new_bool(b) \in V
    BY <2>1 DEF Closed
  <2> QED BY <2>1, <2>2, <1>3
<1> QED
  BY <1>5, <1>6, <1>7, <1>8, <1>9 DEF Leaves

\* Lists of values.
LEMMA AddedItem ==
  ASSUME NEW V, NEW l \in Seq(V), NEW v \in V
  PROVE  /\ value_list_add(l, v) \in Seq(V)
         /\ Append(l, v) \in Seq(V) /\ Len(Append(l, v)) = Len(l) + 1
BY AppendProperties DEF value_list_add

\* Lists, objects and command lists.
LEMMA CollectionsKeepV ==
  ASSUME NEW X, NEW C, NEW V, Parsed(X, C), Closed(X, V), IInv, PInv(X, C), VInv(X, V),
         Collections
  PROVE  VInv(X, V)'
<1>1. \A v \in V : v \in Yields(V)
  BY DEF Yields
<1>2. Stored(V, spaces)
  BY DEF VInv
<1>3. CASE EvalEmptyList
  <2>1. phase = "eval" /\ spaces' = spaces /\ Yield(value_new_list(<<>>))
    BY <1>3 DEF EvalEmptyList, Evaluating, env
  <2>2. value_new_list(<<>>) \in V
    <3>1. <<>> \in Seq(V)
      BY EmptySeq
    <3> QED BY <3>1 DEF Closed
  <2> QED BY <1>1, <2>1, <2>2, VYield
<1>4. CASE EvalEmptyObject
  <2>1. phase = "eval" /\ spaces' = spaces /\ Yield(value_new_object(EmptyDict))
    BY <1>4 DEF EvalEmptyObject, Evaluating, env
  <2>2. value_new_object(EmptyDict) \in V
    BY DEF Closed
  <2> QED BY <1>1, <2>1, <2>2, VYield
<1>5. CASE ListEnter
  <2> DEFINE child == cur.list[1]
  <2>1. /\ phase = "eval" /\ UNCHANGED env /\ cur.type # "eObjectVALUE"
        /\ Push([Frame("item") EXCEPT !.n = 1], child)
    BY <1>5 DEF ListEnter, Evaluating
  <2> HIDE DEF child
  <2> QED BY <2>1, VFrameEnters DEF Pcs
<1>6. CASE ObjectEnter
  <2> DEFINE child == cur.object[1].data
  <2>1. /\ phase = "eval" /\ UNCHANGED env /\ cur.type = "eObjectVALUE" /\ cur \in C
        /\ cur.object # <<>> /\ Push([Frame("item") EXCEPT !.n = 1], child)
    BY <1>6 DEF ObjectEnter, Evaluating, PInv, Starts
  <2>2. Len(cur.object) \in Nat \ {0}
    <3>1. IsSeq(cur.object)
      BY <2>1, TreeFacts
    <3> QED BY <2>1, <3>1, IsSeqFacts
  <2> HIDE DEF child
  <2> QED BY <2>1, <2>2, VFrameEnters DEF Pcs
<1>7. CASE ListStop \/ ListNext \/ ListDone \/ ObjectNext \/ ObjectDone
  <2>1. /\ phase = "return" /\ ctl # <<>> /\ UNCHANGED env /\ spaces' = spaces
        /\ Top.pc = "item" /\ Top.e.type \in {"eListVALUE", "eObjectVALUE"}
    BY <1>7 DEF ListStop, ListNext, ListDone, ObjectNext, ObjectDone, Returned, env
  <2>2. /\ Top.e \in C /\ VFrame(V, Top) /\ VPlace(X, V, ctl, ret) /\ IsFrame(Top)
    BY <2>1, VTop
  <2>3. /\ ret \in Yields(V)
        /\ Top.e \in X => ret \in V
    <3>1. Top.e \in X => ~CommandPlace(X, Top)
      BY <2>1 DEF CommandPlace, InBlock, InCall
    <3> QED BY <2>1, <2>2, <3>1 DEF VPlace, Top
  <2>4. ~IsFC(ret) => ret \in V
    BY <2>3 DEF IsFC, Yields, Returns, LoopExits, FCReturn, value_new
  <2>5. Top.held \in Seq(V)
    BY <2>2 DEF VFrame
  <2>6. CASE ListStop
    BY <1>2, <2>1, <2>3, <2>6, VPop DEF ListStop
  <2>7. CASE ListNext
    <3> DEFINE n == Top.n + 1
               held == value_list_add(Top.held, ret)
               child == Top.e.list[Top.n + 1]
    <3>1. /\ Switch([Top EXCEPT !.n = n, !.held = held], child)
          /\ Top.e.type # "eObjectVALUE" /\ ~IsFC(ret)
      BY <2>2, <2>7 DEF ListNext, Returned, IsFrame
    <3>2. held \in Seq(V)
      BY <2>4, <2>5, <3>1, AddedItem
    <3>3. n \in Int
      <4>1. Top.n \in Int
        BY <2>2 DEF VFrame
      <4> QED BY <4>1
    <3> HIDE DEF n, held, child
    <3> QED BY <2>1, <2>2, <3>1, <3>2, <3>3, VFrameGoesOn
  <2>8. CASE ListDone
    <3> DEFINE v == value_new_list(value_list_add(Top.held, ret))
    <3>1. Pop(v) /\ ~IsFC(ret)
      BY <2>8 DEF ListDone
    <3>2. v \in V
      <4>1. value_list_add(Top.held, ret) \in Seq(V)
        BY <2>4, <2>5, <3>1, AddedItem
      <4> QED BY <4>1 DEF Closed
    <3> HIDE DEF v
    <3> QED BY <1>1, <1>2, <2>1, <3>1, <3>2, VPop
  <2>9. CASE ObjectNext \/ ObjectDone
    <3> DEFINE n == Top.n + 1
               held == Append(Top.held, ret)
    <3>1. Top.e.type = "eObjectVALUE"
      BY <2>9 DEF ObjectNext, ObjectDone, Returned
    <3>2. IsSeq(Top.e.object) /\ Top.e \in X
      BY <2>2, <3>1, TreeFacts, MoreTreeFacts
    <3>3. Len(Top.e.object) \in Nat /\ DOMAIN Top.e.object = 1 .. Len(Top.e.object)
      BY <3>2, IsSeqFacts
    <3>4. Top.n \in 1 .. Len(Top.e.object) /\ Len(Top.held) = Top.n - 1
      BY <2>1, <2>2, <3>1 DEF VFrame
    <3>5. held \in Seq(V) /\ Len(held) = Len(Top.held) + 1
      BY <2>3, <2>5, <3>2, AddedItem
    <3>6. CASE ObjectNext
      <4> DEFINE child == Top.e.object[Top.n + 1].data
      <4>1. Switch([Top EXCEPT !.n = n, !.held = held], child)
        BY <2>2, <3>6 DEF ObjectNext, IsFrame
      <4>2. n \in 1 .. Len(Top.e.object) /\ Len(held) = n - 1 /\ n \in Int
        BY <3>3, <3>4, <3>5, <3>6 DEF ObjectNext
      <4> HIDE DEF n, held, child
      <4> QED BY <2>1, <2>2, <3>5, <4>1, <4>2, VFrameGoesOn
    <3>7. CASE ObjectDone
      <4> DEFINE o == Entries(Top.e, held)
      <4>1. Pop(value_new_object(o)) /\ Top.n >= Len(Top.e.object)
        BY <3>7 DEF ObjectDone
      <4>2. Len(held) = Len(Top.e.object)
        BY <3>3, <3>4, <3>5, <4>1
      <4> HIDE DEF held
      <4>3. \A k \in DOMAIN Top.e.object : held[k] \in V
        BY <3>3, <3>5, <4>2
      <4>4. o \in [Names(Top.e) -> V]
        <5> DEFINE e == Top.e
        <5>1. ASSUME NEW name \in Names(e)
              PROVE  held[CHOOSE k \in DOMAIN e.object : e.object[k].name = name] \in V
          <6>1. \E k \in DOMAIN e.object : e.object[k].name = name
            BY DEF Names
          <6>2. (CHOOSE k \in DOMAIN e.object : e.object[k].name = name) \in DOMAIN e.object
            BY <6>1
          <6> QED BY <4>3, <6>2
        <5> HIDE DEF e
        <5>2. Entries(e, held) \in [Names(e) -> V]
          BY <5>1 DEF Entries, Names
        <5> QED BY <5>2 DEF e
      <4> HIDE DEF o
      <4>5. value_new_object(o) \in V
        BY <3>1, <3>2, <4>4 DEF Closed
      <4> QED BY <1>1, <1>2, <2>1, <4>1, <4>5, VPop
    <3> QED BY <2>9, <3>6, <3>7
  <2> QED BY <1>7, <2>6, <2>7, <2>8, <2>9
<1> QED
  BY <1>3, <1>4, <1>5, <1>6, <1>7 DEF Collections

-----------------------------------------------------------------------------
\* A list of one value, and the first of a list of some.
LEMMA OneItem ==
  ASSUME NEW V, NEW v \in V
  PROVE  <<v>> \in Seq(V) /\ <<v>> # <<>>
<1>1. Len(<<v>>) = 1 /\ Len(<<>>) = 0 /\ <<v>> \in Seq(V)
  OBVIOUS
<1> QED BY <1>1

\* The first item of a list of values is a value.
LEMMA FirstItem ==
  ASSUME NEW V, NEW l \in Seq(V), l # <<>>
  PROVE  l[1] \in V
<1>1. Len(l) \in Nat \ {0}
  BY EmptySeq
<1>2. 1 \in 1 .. Len(l)
  BY <1>1
<1> QED BY <1>2

\* A place that takes an operand gets a value of V.
LEMMA VOperand ==
  ASSUME NEW X, NEW C, NEW V, IInv, PInv(X, C), VInv(X, V), phase = "return", ctl # <<>>,
         Top.pc \in {"left first", "right first", "left held", "right held", "apply",
                     "index", "choose", "first", "again", "args"}
  PROVE  ret \in V /\ Plain(Top) /\ Top.held \in Seq(V)
<1>1. VPlace(X, V, ctl, ret) /\ VFrame(V, Top)
  BY VTop
<1>2. ~CommandPlace(X, Top)
  BY DEF CommandPlace, InBlock, InCall
<1> QED
  BY <1>1, <1>2 DEF VPlace, VFrame, Top, Plain, InBlock, InCall

\* An operation ends the call with a value of V, or the process.
LEMMA VEnds ==
  ASSUME NEW X, NEW C, NEW V, IInv, PInv(X, C), VInv(X, V), phase = "return", ctl # <<>>,
         Crash \/ \E v \in V : Pop(v), UNCHANGED env
  PROVE  VInv(X, V)'
<1>1. CASE Crash
  BY <1>1, VStay DEF Crash, env
<1>2. CASE \E v \in V : Pop(v)
  <2>1. PICK v \in V : Pop(v)
    BY <1>2
  <2>2. v \in Yields(V) /\ Stored(V, spaces) /\ spaces' = spaces
    BY <2>1 DEF Yields, VInv, env
  <2> QED BY <2>1, <2>2, VPop
<1> QED BY <1>1, <1>2

\* What operators make of operands in V, if the process goes on.
LEMMA OperatorValues ==
  ASSUME NEW X, NEW C, NEW V, Closed(X, V), IInv, PInv(X, C), VInv(X, V),
         \/ NotApply \/ MinusApply \/ DotApply \/ IntApply \/ PrintApply \/ ReadApply
         \/ ArrayApply \/ BinaryApply
  PROVE  /\ phase = "return" /\ ctl # <<>> /\ UNCHANGED env
         /\ Crash \/ \E v \in V : Pop(v)
<1>0. Null \in V
  BY DEF Closed
<1>1. /\ phase = "return" /\ ctl # <<>> /\ UNCHANGED env
      /\ Top.pc \in {"left held", "right held", "apply"}
  BY DEF NotApply, MinusApply, DotApply, IntApply, PrintApply, ReadApply, ArrayApply,
         BinaryApply, Returned
<1>2. ret \in V /\ VFrame(V, Top)
  BY <1>1, VOperand, VTop
<1>3. /\ ret.type \in {"Int", "Bool"} => ret.i \in Int
      /\ ret.type = "List" => ret.l \in Seq(V)
      /\ ret.type = "Object" => \A name \in DOMAIN ret.o : ret.o[name] \in V
      /\ Negation(ret) \in V \cup {Wild} /\ \A v \in V : Copy(v) \in V
      /\ Top.n \in Int
  BY <1>2 DEF Closed, VFrame
<1>4. \A n \in Int : value_new_int(n) \in V
  BY DEF Closed
<1>5. CASE NotApply
  BY <1>1, <1>3, <1>5 DEF NotApply, Outcome
<1>6. CASE MinusApply
  <2>1. ret.type = "Int" => Wrap(-ret.i) \in Int
    BY <1>3, IntHalfAssumption DEF Wrap
  <2> QED BY <1>1, <1>2, <1>4, <1>6, <2>1 DEF MinusApply
<1>7. CASE DotApply
  <2>1. value_object_get(ret, Top.e.str) \in V
    BY <1>0, <1>3 DEF value_object_get
  <2> QED BY <1>0, <1>1, <1>3, <1>7, <2>1 DEF DotApply
<1>8. CASE IntApply
  <2>1. DoubleInts \subseteq Int
    BY DEF Closed
  <2> QED BY <1>0, <1>1, <1>3, <1>4, <1>8, <2>1 DEF IntApply
<1>9. CASE PrintApply
  BY <1>0, <1>1, <1>9 DEF PrintApply
<1>10. CASE ReadApply
  <2>1. JsonValues \cup FileValues \subseteq V \cup {Wild}
    BY DEF Closed
  <2> QED BY <1>1, <1>10, <2>1 DEF ReadApply, Outcome
<1>11. CASE ArrayApply
  <2> DEFINE n == Top.n
  <2>1. value_list_get(ret, n) \in V
    <3>1. CASE ret.type = "List" /\ n >= 0 /\ n < Len(ret.l)
      <4>1. n + 1 \in 1 .. Len(ret.l) /\ ret.l \in Seq(V)
        BY <1>3, <3>1
      <4>2. ret.l[n + 1] \in V
        BY <4>1
      <4> QED BY <3>1, <4>2 DEF value_list_get
    <3>2. CASE ~(ret.type = "List" /\ n >= 0 /\ n < Len(ret.l))
      BY <1>0, <3>2 DEF value_list_get
    <3> QED BY <3>1, <3>2
  <2> QED BY <1>0, <1>1, <1>3, <1>11, <2>1 DEF ArrayApply
<1>12. CASE BinaryApply
  <2>1. Top.e.type \in BinaryTypes /\ Top.pc \in {"left held", "right held"}
    BY <1>12 DEF BinaryApply, Returned
  <2>2. Top.held[1] \in V
    <3>1. Top.held \in Seq(V) /\ Top.held # <<>>
      BY <1>2, <2>1 DEF VFrame
    <3> QED BY <3>1, FirstItem
  <2>3. \E v \in Binary(Top.e.type, Top.held[1], ret) \cup Binary(Top.e.type, ret, Top.held[1]) :
          (v = Wild /\ Crash) \/ (v # Wild /\ Pop(v))
    BY <1>12 DEF BinaryApply, Outcome
  <2>4. /\ Binary(Top.e.type, Top.held[1], ret) \subseteq V \cup {Wild}
        /\ Binary(Top.e.type, ret, Top.held[1]) \subseteq V \cup {Wild}
    BY <1>2, <2>1, <2>2 DEF Closed
  <2> QED BY <1>1, <2>3, <2>4
<1> QED
  BY <1>5, <1>6, <1>7, <1>8, <1>9, <1>10, <1>11, <1>12

\* "return" makes a list of its operand.
LEMMA ReturnValue ==
  ASSUME NEW X, NEW C, NEW V, Closed(X, V), IInv, PInv(X, C), VInv(X, V), ReturnApply
  PROVE  /\ phase = "return" /\ ctl # <<>> /\ UNCHANGED env /\ Top.e.type = "eRETURN"
         /\ Crash \/ \E l \in Seq(V) : Pop(FCReturn(l))
<1>1. /\ phase = "return" /\ ctl # <<>> /\ UNCHANGED env /\ Top.pc = "apply"
      /\ Top.e.type = "eRETURN"
  BY DEF ReturnApply, Returned
<1>2. ret \in V
  BY <1>1, VOperand
<1>3. ret.type = "List" => ret.l \in Seq(V)
  BY <1>2 DEF Closed
<1>4. <<ret>> \in Seq(V)
  BY <1>2
<1> QED BY <1>1, <1>3, <1>4 DEF ReturnApply

\* The first operand of two is held while the second is evaluated.
LEMMA BinaryKeepsV ==
  ASSUME NEW X, NEW C, NEW V, IInv, PInv(X, C), VInv(X, V), BinaryEnter \/ BinarySecond
  PROVE  VInv(X, V)'
<1>1. CASE BinaryEnter
  <2>1. phase = "eval" /\ UNCHANGED env
    BY <1>1 DEF BinaryEnter, Evaluating
  <2>2. PICK pc \in {"left first", "right first"} : \E child : Push(Frame(pc), child)
    BY <1>1 DEF BinaryEnter
  <2>3. PICK child : Push(Frame(pc), child)
    BY <2>2
  <2> QED BY <2>1, <2>3, VFrameEnters DEF Pcs
<1>2. CASE BinarySecond
  <2>1. /\ phase = "return" /\ ctl # <<>> /\ UNCHANGED env
        /\ Top.pc \in {"left first", "right first"}
    BY <1>2 DEF BinarySecond, Returned
  <2>2. PICK pc \in {"left held", "right held"} : \E child :
          Switch([Top EXCEPT !.pc = pc, !.held = <<ret>>], child)
    BY <1>2 DEF BinarySecond
  <2>3. PICK child : Switch([Top EXCEPT !.pc = pc, !.held = <<ret>>], child)
    BY <2>2
  <2>4. ret \in V /\ IsFrame(Top) /\ VFrame(V, Top)
    BY <2>1, VOperand, VTop
  <2> DEFINE held == <<ret>>
  <2>5. held \in Seq(V) /\ held # <<>>
    BY <2>4, OneItem
  <2>6. Switch([Top EXCEPT !.pc = pc, !.held = held], child) /\ pc # "item"
    BY <2>3
  <2> HIDE DEF held
  <2> QED BY <2>1, <2>4, <2>5, <2>6, VFrameGoesOn
<1> QED BY <1>1, <1>2

\* Operators, assignments, and the access to lists.
LEMMA OperatorsKeepV ==
  ASSUME NEW X, NEW C, NEW V, Parsed(X, C), Closed(X, V), IInv, PInv(X, C), VInv(X, V),
         Operators
  PROVE  VInv(X, V)'
<1>1. CASE UnaryEnter \/ ArrayEnter
  <2>1. phase = "eval" /\ UNCHANGED env
    BY <1>1 DEF UnaryEnter, ArrayEnter, Evaluating
  <2>2. PICK pc \in {"apply", "index"} : \E child : Push(Frame(pc), child)
    BY <1>1 DEF UnaryEnter, ArrayEnter
  <2>3. PICK child : Push(Frame(pc), child)
    BY <2>2
  <2> QED BY <2>1, <2>3, VFrameEnters DEF Pcs
<1>2. CASE \/ NotApply \/ MinusApply \/ DotApply \/ IntApply \/ PrintApply \/ ReadApply
           \/ ArrayApply \/ BinaryApply
  BY <1>2, OperatorValues, VEnds
<1>3. CASE AssignApply
  <2>1. phase = "return" /\ ctl # <<>> /\ Top.pc = "apply" /\ Pop(ret)
    BY <1>3 DEF AssignApply, Returned
  <2>2. ret \in V
    BY <2>1, VOperand
  <2>3. Copy(ret) \in V /\ ret \in Yields(V) /\ Stored(V, spaces)
    BY <2>2 DEF Closed, Yields, VInv
  <2>4. \/ spaces' = spaces
        \/ spaces' = kfs_lang_set_var(spaces, Top.e.str, Copy(ret))
    BY <1>3 DEF AssignApply
  <2> DEFINE sp2 == kfs_lang_set_var(spaces, Top.e.str, Copy(ret))
  <2>5. Stored(V, sp2)
    BY <2>3, StoredSet
  <2> HIDE DEF sp2
  <2>6. spaces' = spaces \/ spaces' = sp2
    BY <2>4 DEF sp2
  <2> QED BY <2>1, <2>2, <2>3, <2>5, <2>6, VPop
<1>4. CASE ReturnApply
  <2>1. phase = "return" /\ ctl # <<>> /\ UNCHANGED env /\ Top.e.type = "eRETURN"
    BY <1>4, ReturnValue
  <2>2. Top.e \notin X
    BY <2>1, VTop, MoreTreeFacts
  <2>3. CASE Crash
    BY <2>1, <2>3, VEnds
  <2>4. CASE \E l \in Seq(V) : Pop(FCReturn(l))
    <3>1. PICK l \in Seq(V) : Pop(FCReturn(l))
      BY <2>4
    <3> DEFINE v == FCReturn(l)
    <3>2. v \in Yields(V) /\ Stored(V, spaces) /\ spaces' = spaces /\ Pop(v)
      BY <2>1, <3>1 DEF Yields, Returns, VInv, env
    <3> HIDE DEF v
    <3> QED BY <2>1, <2>2, <3>2, VPop
  <2> QED BY <1>4, <2>3, <2>4, ReturnValue
<1>5. CASE ArrayIndex
  <2>1. phase = "return" /\ ctl # <<>> /\ UNCHANGED env /\ Top.pc = "index"
    BY <1>5 DEF ArrayIndex, Returned
  <2>2. ret \in V /\ VFrame(V, Top) /\ IsFrame(Top)
    BY <2>1, VOperand, VTop
  <2>3. CASE Crash \/ Pop(Null)
    <3>1. Null \in V
      BY DEF Closed
    <3> QED BY <2>1, <2>3, <3>1, VEnds
  <2>4. CASE /\ ret.type = "Int"
             /\ Switch([Top EXCEPT !.pc = "apply", !.n = ret.i], Top.e.left)
    <3> DEFINE n == ret.i
               child == Top.e.left
               pc == "apply"
    <3>1. /\ Switch([Top EXCEPT !.pc = pc, !.n = n], child)
          /\ pc \notin {"item", "left held", "right held"}
      BY <2>4
    <3>2. n \in Int
      BY <2>2, <2>4 DEF Closed
    <3> HIDE DEF n, child, pc
    <3> QED BY <2>1, <2>2, <3>1, <3>2, VFrameGoesOn
  <2> QED BY <1>5, <2>3, <2>4 DEF ArrayIndex
<1> QED
  BY <1>1, <1>2, <1>3, <1>4, <1>5, BinaryKeepsV DEF Operators

\* If, while and blocks.
LEMMA ControlKeepsV ==
  ASSUME NEW X, NEW C, NEW V, Parsed(X, C), Closed(X, V), IInv, PInv(X, C), VInv(X, V),
         Control
  PROVE  VInv(X, V)'
<1>0. Null \in V /\ Stored(V, spaces)
  BY DEF Closed, VInv
<1>1. CASE IfEnter \/ WhileEnter
  <2>1. phase = "eval" /\ UNCHANGED env
    BY <1>1 DEF IfEnter, WhileEnter, Evaluating
  <2>2. PICK pc \in {"choose", "first"} : \E child : Push(Frame(pc), child)
    BY <1>1 DEF IfEnter, WhileEnter
  <2>3. PICK child : Push(Frame(pc), child)
    BY <2>2
  <2> QED BY <2>1, <2>3, VFrameEnters DEF Pcs
<1>2. CASE IfChoose
  <2>1. /\ phase = "return" /\ ctl # <<>> /\ phase' = "eval" /\ ctl' = Front(ctl)
        /\ spaces' = spaces
    BY <1>2 DEF IfChoose, Returned, Descend, env
  <2>2. \A i \in DOMAIN Front(ctl) : VFrame(V, Front(ctl)[i])
    BY <2>1, VTop DEF VInv
  <2> QED BY <1>0, <2>1, <2>2 DEF VInv
<1>3. CASE WhileFirst \/ WhileBody \/ WhileAgain
  <2>1. /\ phase = "return" /\ ctl # <<>> /\ UNCHANGED env /\ Top.e.type = "eWHILE"
    BY <1>3 DEF WhileFirst, WhileBody, WhileAgain, Returned
  <2>2. /\ Top.e \in C /\ VFrame(V, Top) /\ VPlace(X, V, ctl, ret) /\ IsFrame(Top)
    BY <2>1, VTop
  <2>3. Top.e \notin X
    BY <2>1, <2>2, MoreTreeFacts
  <2>4. CASE Crash \/ Pop(Null)
    BY <1>0, <2>1, <2>4, VEnds
  <2>5. CASE Pop(ret)
    <3>1. ret \in Yields(V) /\ spaces' = spaces
      BY <2>1, <2>2 DEF VPlace, env
    <3> QED BY <1>0, <2>1, <2>3, <2>5, <3>1, VPop
  <2>6. CASE \/ Switch([Top EXCEPT !.pc = "body"], Top.e.right)
             \/ Switch([Top EXCEPT !.pc = "again"], Top.e.next)
    <3>1. PICK pc \in {"body", "again"} : \E child : Switch([Top EXCEPT !.pc = pc], child)
      BY <2>6
    <3>2. PICK child : Switch([Top EXCEPT !.pc = pc], child)
      BY <3>1
    <3> QED BY <2>1, <2>2, <3>2, VFrameGoesOn DEF VFrame
  <2> QED BY <1>3, <2>4, <2>5, <2>6 DEF WhileFirst, WhileBody, WhileAgain
<1>4. CASE BlockEnter
  <2> DEFINE f == Frame("leave")
             sp2 == kfs_lang_env_space_add_vars(spaces)
  <2>1. /\ phase = "eval" /\ phase' = "eval" /\ ctl' = Append(ctl, f) /\ spaces' = sp2
        /\ cur.type = "eBLOCK"
    BY <1>4 DEF BlockEnter, Evaluating, Push, Descend
  <2>2. IsSpaces(spaces)
    BY <2>1 DEF IInv, Stacks, Typed
  <2>3. Stored(V, sp2)
    BY <1>0, <2>2, StoredAddVars
  <2>4. VFrame(V, f)
    BY <2>1, EmptySeq DEF VFrame, Frame
  <2> HIDE DEF f, sp2
  <2> QED BY <2>1, <2>3, <2>4, VEnter
<1>5. CASE BlockLeave
  <2> DEFINE sp2 == kfs_lang_env_space_del_vars(spaces)
  <2>1. /\ phase = "return" /\ ctl # <<>> /\ Pop(ret) /\ spaces' = sp2
        /\ Top.e.type = "eBLOCK"
    BY <1>5 DEF BlockLeave, Returned
  <2>2. /\ Top.e \in C /\ VPlace(X, V, ctl, ret) /\ IsSpaces(spaces)
    BY <2>1, VTop
  <2>3. Top.e \notin X /\ ret \in Yields(V)
    BY <2>1, <2>2, MoreTreeFacts DEF VPlace
  <2>4. Stored(V, sp2)
    BY <1>0, <2>2, StoredDelVars
  <2> HIDE DEF sp2
  <2> QED BY <2>1, <2>3, <2>4, VPop
<1> QED
  BY <1>1, <1>2, <1>3, <1>4, <1>5 DEF Control

\* What a call makes of the value of its body.
LEMMA CallValue ==
  ASSUME NEW X, NEW V, Closed(X, V), NEW v \in V \cup Returns(V)
  PROVE  value_delist(ReturnedValue(v)) \in V
<1>1. ReturnedValue(v) \in V
  <2>1. CASE v \in V
    BY <2>1 DEF Closed, ReturnedValue
  <2>2. CASE v \in Returns(V)
    <3>1. PICK l \in Seq(V) : v = FCReturn(l)
      BY <2>2 DEF Returns
    <3>2. ReturnedValue(v) = value_new_list(l)
      BY <3>1 DEF FCReturn, ReturnedValue
    <3> QED BY <3>2 DEF Closed
  <2> QED BY <2>1, <2>2
<1> DEFINE w == ReturnedValue(v)
<1>2. w.type = "List" => w.l \in Seq(V)
  BY <1>1 DEF Closed
<1> HIDE DEF w
<1>3. w.type = "List" /\ Len(w.l) = 1 => w.l[1] \in V
  BY <1>2
<1> QED
  BY <1>1, <1>3 DEF value_delist, w

\* Calls.  The body of a function does not end in "break" or "continue", or
\* these are values like others.
LEMMA CallsKeepV ==
  ASSUME NEW X, NEW C, NEW V, Parsed(X, C), Closed(X, V), IInv, PInv(X, C), VInv(X, V),
         Calls, phase = "return" /\ ctl # <<>> /\ InCall(Top) => ret \in V \cup Returns(V)
  PROVE  VInv(X, V)'
<1>0. Stored(V, spaces)
  BY DEF VInv
<1>1. CASE CallEnter
  <2>1. phase = "eval" /\ UNCHANGED env
    BY <1>1 DEF CallEnter, Evaluating
  <2>2. \/ \E fn, child : Push([Frame("args") EXCEPT !.fn = fn], child)
        \/ \E child : Push(Frame("args"), child)
        \/ Crash
    BY <1>1 DEF CallEnter
  <2>3. CASE Crash
    BY <2>1, <2>3, VStay DEF Crash, env
  <2>4. CASE \E child : Push(Frame("args"), child)
    <3>1. PICK child : Push(Frame("args"), child)
      BY <2>4
    <3> QED BY <2>1, <3>1, VFrameEnters DEF Pcs
  <2>5. CASE \E fn, child : Push([Frame("args") EXCEPT !.fn = fn], child)
    <3>1. PICK fn, child : Push([Frame("args") EXCEPT !.fn = fn], child)
      BY <2>5
    <3> QED BY <2>1, <3>1, VFrameEnters DEF Pcs
  <2> QED BY <2>2, <2>3, <2>4, <2>5
<1>2. CASE CallBody
  <2> DEFINE f == [Top EXCEPT !.pc = "leave", !.at = spaces]
             sp2 == kfs_lang_env_add_space(spaces, ret)
  <2>1. /\ phase = "return" /\ ctl # <<>> /\ Top.pc = "args" /\ phase' = "eval"
        /\ ctl' = Append(Front(ctl), f) /\ spaces' = sp2
    BY <1>2 DEF CallBody, Returned, Switch, Descend
  <2>2. ret \in V /\ VFrame(V, Top) /\ IsFrame(Top) /\ IsSeq(spaces)
    BY <2>1, VOperand, VTop DEF IsSpaces
  <2>3. f.e = Top.e /\ f.n = Top.n /\ f.held = Top.held /\ f.pc = "leave"
    BY <2>2 DEF IsFrame
  <2>4. Stored(V, sp2)
    BY <1>0, <2>2, StoredArguments, StoredAddSpace
  <2> HIDE DEF f, sp2
  <2>5. VFrame(V, f)
    BY <2>2, <2>3 DEF VFrame
  <2> QED BY <2>1, <2>4, <2>5, VGoOn
<1>3. CASE CallLeave
  <2> DEFINE v == value_delist(ReturnedValue(ret))
             sp2 == kfs_lang_env_remove_space(spaces)
  <2>1. /\ phase = "return" /\ ctl # <<>> /\ Pop(v) /\ spaces' = sp2 /\ InCall(Top)
    BY <1>3 DEF CallLeave, Returned, InCall
  <2>2. v \in V /\ IsSeq(spaces)
    BY <2>1, CallValue, VTop DEF IsSpaces
  <2>3. Stored(V, sp2)
    BY <1>0, <2>2, StoredRemoveSpace
  <2> HIDE DEF v, sp2
  <2>4. v \in Yields(V)
    BY <2>2 DEF Yields
  <2> QED BY <2>1, <2>2, <2>3, <2>4, VPop
<1> QED
  BY <1>1, <1>2, <1>3 DEF Calls

\* The drivers.
LEMMA DriveKeepsV ==
  ASSUME NEW X, NEW V, Closed(X, V), IInv, VInv(X, V), Drive
  PROVE  VInv(X, V)'
<1>1. phase' # "return" /\ ctl' = <<>>
  BY DEF Drive, StartScript, ParseFails, FinishScript, kfs_lang_env_delete, Descend, Crash,
         machine, IInv, Rest
<1>2. spaces' \in {spaces, Prepared, <<>>}
  BY DEF Drive, StartScript, ParseFails, FinishScript, kfs_lang_env_delete
<1>3. Stored(V, spaces) /\ Stored(V, <<>>)
  BY EmptyIsSeq DEF VInv, Stored
<1>4. Stored(V, kfs_lang_env_add_space(<<>>, Null))
  <2>1. Null \in V
    BY DEF Closed
  <2> QED BY <1>3, <2>1, EmptyIsSeq, StoredArguments, StoredAddSpace
<1>5. Stored(V, spaces')
  BY <1>2, <1>3, <1>4 DEF Prepared
<1> QED
  BY <1>1, <1>5, EmptyIsSeq DEF VInv

\* Every step of the program keeps it.
LEMMA NextKeepsV ==
  ASSUME NEW X, NEW C, NEW V, Parsed(X, C), Closed(X, V), IInv, PInv(X, C), VInv(X, V),
         [Next]_vars, phase = "return" /\ ctl # <<>> /\ InCall(Top) => ret \in V \cup Returns(V)
  PROVE  VInv(X, V)'
<1>1. CASE UNCHANGED vars \/ Stopped
  <2>1. UNCHANGED <<phase, ctl, spaces, ret>>
    BY <1>1 DEF Stopped, vars, machine, env
  <2> QED BY <2>1 DEF VInv
<1> QED
  BY <1>1, LeavesKeepV, CollectionsKeepV, OperatorsKeepV, ControlKeepsV, CallsKeepV,
     DriveKeepsV
     DEF Next, Step

\* No variable has a value before the first script.
LEMMA InitV ==
  ASSUME NEW X, NEW V, Closed(X, V), Init
  PROVE  VInv(X, V)
<1>1. Null \in V /\ Stored(V, <<>>)
  BY EmptyIsSeq DEF Closed, Stored
<1>2. Stored(V, kfs_lang_env_add_space(<<>>, Null))
  BY <1>1, EmptyIsSeq, StoredArguments, StoredAddSpace
<1> QED
  BY <1>2, EmptyIsSeq DEF Init, VInv

\* Nothing runs before the first script.
LEMMA InitPure ==
  ASSUME NEW X, NEW C, Init
  PROVE  PInv(X, C)
BY EmptyIsSeq DEF Init, PInv, Pure, Trees, Separate, Kept, EmptyDict

\* "return" passes every place of a command.
LEMMA ReturnPasses ==
  ASSUME NEW X, Next, phase = "return", ctl # <<>>, ret.type = "FC_Return",
         CommandPlace(X, Top)
  PROVE  phase' = "return" /\ ctl' = Front(ctl) /\ (~InCall(Top) => ret' = ret)
<1> USE DEF CommandPlace, InBlock, InCall, Returned, Evaluating, Pop
<1>1. ~Leaves
  BY DEF Leaves, EvalNull, EvalLeaf, EvalString, EvalNothing, EvalVar, EvalIsEmpty,
         EvalFunctionDef
<1>2. CASE Collections
  <2>1. ListStop \/ ListNext \/ ListDone
    BY <1>2 DEF Collections, EvalEmptyList, ListEnter, EvalEmptyObject, ObjectEnter,
                ObjectNext, ObjectDone
  <2>2. IsFC(ret)
    BY DEF IsFC
  <2> QED BY <2>1, <2>2 DEF ListStop, ListNext, ListDone
<1>3. ~Operators
  <2>1. ~(BinaryEnter \/ BinarySecond \/ BinaryApply \/ UnaryEnter \/ ArrayEnter)
    BY DEF BinaryEnter, BinarySecond, BinaryApply, UnaryEnter, ArrayEnter
  <2>2. ~(NotApply \/ MinusApply \/ DotApply \/ IntApply \/ AssignApply \/ PrintApply)
    BY DEF NotApply, MinusApply, DotApply, IntApply, AssignApply, PrintApply
  <2>3. ~(ReadApply \/ ReturnApply \/ ArrayIndex \/ ArrayApply)
    BY DEF ReadApply, ReturnApply, ArrayIndex, ArrayApply
  <2> QED BY <2>1, <2>2, <2>3 DEF Operators
<1>4. CASE Control
  <2>1. BlockLeave \/ WhileBody
    BY <1>4 DEF Control, BlockEnter, IfEnter, IfChoose, WhileEnter, WhileFirst, WhileAgain
  <2> QED BY <2>1 DEF BlockLeave, WhileBody, Null
<1>5. CASE Calls
  BY <1>5 DEF Calls, CallEnter, CallBody, CallLeave
<1>6. ~(Drive \/ Stopped)
  BY DEF Drive, StartScript, ParseFails, FinishScript, kfs_lang_env_delete, Stopped
<1> QED
  BY <1>1, <1>2, <1>3, <1>4, <1>5, <1>6 DEF Next, Step

\* Whatever trees the parser makes, and whatever the operators compute, as
\* long as no operator makes a "return" of values that are none: after a
\* "return" nothing of the function runs any more.
THEOREM ReturnLeavesFunction ==
  ASSUME NEW X, NEW C, NEW V, Parsed(X, C), ScriptsIn(C), Closed(X, V), LoopExits \subseteq V
  PROVE  Spec => ReturnUnwinds
<1> DEFINE Inv == scripts \in ScriptSets /\ PInv(X, C) /\ VInv(X, V)
           Unwinds == (phase = "return" /\ ret.type = "FC_Return" /\ ctl # <<>>)
                        => /\ phase' = "return" /\ ctl' = Front(ctl)
                           /\ ~InCall(Top) => ret' = ret
<1>1. Init => Inv
  BY InitPure, InitV DEF Init
<1>2. IInv /\ Inv /\ [Next]_vars => Inv'
  <2> SUFFICES ASSUME IInv, Inv, [Next]_vars PROVE Inv'
    OBVIOUS
  <2>1. phase = "return" /\ ctl # <<>> /\ InCall(Top) => ret \in V \cup Returns(V)
    BY DEF VInv, VPlace, Yields
  <2> QED BY <2>1, NextKeepsPure, NextKeepsV, ScriptsStay
<1>3. IInv /\ Inv /\ [Next]_vars => [Unwinds]_vars
  <2> SUFFICES ASSUME IInv, Inv, Next, phase = "return", ret.type = "FC_Return", ctl # <<>>
               PROVE  Unwinds
    OBVIOUS
  <2>1. VPlace(X, V, ctl, ret) /\ ret \notin V
    BY DEF VInv, Closed
  <2>2. CommandPlace(X, Top)
    BY <2>1 DEF VPlace, Top
  <2> QED BY <2>2, ReturnPasses
<1> QED
  BY <1>1, <1>2, <1>3, Invariance, PTL DEF Spec, ReturnUnwinds
-----------------------------------------------------------------------------
(* Loops.  O are the trees outside of all loops of their function, and B   *)
(* those in one.                                                           *)
IsLoopExit(v) == v.type \in {"FC_Break", "FC_Conti"}

\* Such trees O among all trees C.
Outside(X, C, O) ==
  /\ Parsed(X, C) /\ X \subseteq O /\ O \subseteq C /\ NoExpr \in O
  /\ \A e \in C : e.type = "eFUNCTION_DEF" => e.left \in O
  /\ \A e \in O :
       /\ e.type \notin {"eBREAK", "eCONTI"}
       /\ e.type = "eListVALUE" => \A k \in DOMAIN e.list : e.list[k] \in O
       /\ e.type = "eBLOCK" => e.left \in O
       /\ e.type = "eIF" => e.left \in O /\ e.right \in O

\* What the grammar says of the trees within a loop and outside of all.
LEMMA LoopFacts ==
  ASSUME NEW X, NEW O, NEW B, BreaksInLoops(X, O, B)
  PROVE  Outside(X, O \cup B, O)
<1> DEFINE C == O \cup B
<1>1. X \subseteq O /\ NoExpr \in O
  BY DEF BreaksInLoops
<1>2. ASSUME NEW e \in X PROVE ExprNode(e, X)
  BY DEF BreaksInLoops
<1>3. ASSUME NEW e \in O, e \notin X PROVE InputNode(e, X, O, B, O)
  BY <1>3 DEF BreaksInLoops
<1>4. ASSUME NEW e \in B, e \notin X, e.type \notin {"eBREAK", "eCONTI"}
      PROVE  InputNode(e, X, B, B, O)
  BY <1>4 DEF BreaksInLoops
<1>5. ASSUME NEW e, InputNode(e, X, O, B, O) \/ InputNode(e, X, B, B, O)
      PROVE  InputNode(e, X, C, C, C)
  <2>1. CASE InputNode(e, X, O, B, O)
    BY <2>1 DEF InputNode
  <2>2. CASE InputNode(e, X, B, B, O)
    BY <2>2 DEF InputNode
  <2> QED BY <1>5, <2>1, <2>2
<1>6. Parsed(X, C)
  <2>1. ASSUME NEW e \in C
        PROVE  e \in X \/ e.type \in {"eBREAK", "eCONTI"} \/ InputNode(e, X, C, C, C)
    BY <1>3, <1>4, <1>5
  <2> QED BY <1>1, <1>2, <2>1 DEF Parsed
<1>7. ASSUME NEW e \in C, e.type = "eFUNCTION_DEF" PROVE e.left \in O
  <2>1. CASE e \in X
    <3>1. ExprNode(e, X)
      BY <1>2, <2>1
    <3> QED BY <1>7, <3>1 DEF ExprNode, BinaryTypes
  <2>2. CASE e \notin X
    <3>1. InputNode(e, X, O, B, O) \/ InputNode(e, X, B, B, O)
      BY <1>3, <1>4, <1>7, <2>2
    <3> QED BY <1>7, <3>1 DEF InputNode
  <2> QED BY <2>1, <2>2
<1>8. ASSUME NEW e \in O
      PROVE  /\ e.type \notin {"eBREAK", "eCONTI"}
             /\ e.type = "eListVALUE" => \A k \in DOMAIN e.list : e.list[k] \in O
             /\ e.type = "eBLOCK" => e.left \in O
             /\ e.type = "eIF" => e.left \in O /\ e.right \in O
  <2>1. CASE e \in X
    <3>1. ExprNode(e, X)
      BY <1>2, <2>1
    <3> QED BY <1>1, <3>1 DEF ExprNode, BinaryTypes
  <2>2. CASE e \notin X
    <3>1. InputNode(e, X, O, B, O)
      BY <1>3, <2>2
    <3> QED BY <1>1, <3>1 DEF InputNode
  <2> QED BY <2>1, <2>2
<1> QED
  BY <1>1, <1>6, <1>7, <1>8 DEF Outside

\* Below the first n calls of c, a "break" is on its way to its loop.
Passes(f) == f.e.type \in {"eBLOCK", "eListVALUE"}
InBody(f) == f.e.type = "eWHILE" /\ f.pc = "body"
Chain(c, n) ==
  \E w \in 1 .. n : InBody(c[w]) /\ \A j \in w + 1 .. n : Passes(c[j])

\* The calls below the one on top.
LEMMA ChainFront ==
  ASSUME NEW c, IsSeq(c), c # <<>>, NEW n \in Nat, n < Len(c), Chain(c, n)
  PROVE  Chain(Front(c), n)
<1>1. /\ \A k \in DOMAIN Front(c) : Front(c)[k] = c[k]
      /\ DOMAIN Front(c) = 1 .. Len(c) - 1 /\ Len(c) \in Nat
  BY FrontFacts, IsSeqFacts
<1>2. \A k \in 1 .. n : Front(c)[k] = c[k]
  BY <1>1
<1>3. PICK w \in 1 .. n : InBody(c[w]) /\ \A j \in w + 1 .. n : Passes(c[j])
  BY DEF Chain
<1> DEFINE d == Front(c)
<1> HIDE DEF d
<1>4. \A j \in w + 1 .. n : j \in 1 .. n
  BY <1>3
<1>5. InBody(d[w]) /\ \A j \in w + 1 .. n : Passes(d[j])
  BY <1>2, <1>3, <1>4 DEF d
<1> QED
  BY <1>5 DEF Chain, d

\* One more call, which may be a block, a list or a loop.
LEMMA ChainAppend ==
  ASSUME NEW c, IsSeq(c), NEW f
  PROVE  /\ \A n \in Nat : n <= Len(c) /\ Chain(c, n) => Chain(Append(c, f), n)
         /\ Chain(c, Len(c)) /\ Passes(f) => Chain(Append(c, f), Len(c) + 1)
         /\ InBody(f) => Chain(Append(c, f), Len(c) + 1)
<1> DEFINE d == Append(c, f)
<1>1. /\ \A k \in 1 .. Len(c) : d[k] = c[k]
      /\ d[Len(c) + 1] = f /\ Len(c) \in Nat
  BY AppendFacts, IsSeqFacts
<1> HIDE DEF d
<1>2. ASSUME NEW n \in Nat, n <= Len(c), Chain(c, n)
      PROVE  Chain(d, n)
  <2>1. PICK w \in 1 .. n : InBody(c[w]) /\ \A j \in w + 1 .. n : Passes(c[j])
    BY <1>2 DEF Chain
  <2>2. w \in 1 .. Len(c) /\ \A j \in w + 1 .. n : j \in 1 .. Len(c)
    BY <1>1, <1>2, <2>1
  <2>3. InBody(d[w]) /\ \A j \in w + 1 .. n : Passes(d[j])
    BY <1>1, <2>1, <2>2
  <2> QED BY <2>3 DEF Chain
<1>3. ASSUME Chain(c, Len(c)), Passes(f)
      PROVE  Chain(d, Len(c) + 1)
  <2>1. PICK w \in 1 .. Len(c) : InBody(c[w]) /\ \A j \in w + 1 .. Len(c) : Passes(c[j])
    BY <1>3 DEF Chain
  <2>2. /\ w \in 1 .. Len(c) + 1
        /\ \A j \in w + 1 .. Len(c) + 1 :
             j = Len(c) + 1 \/ (j \in w + 1 .. Len(c) /\ j \in 1 .. Len(c))
    BY <1>1, <2>1
  <2>3. InBody(d[w]) /\ \A j \in w + 1 .. Len(c) + 1 : Passes(d[j])
    BY <1>1, <1>3, <2>1, <2>2
  <2> QED BY <2>2, <2>3 DEF Chain
<1>4. ASSUME InBody(f)
      PROVE  Chain(d, Len(c) + 1)
  <2>1. Len(c) + 1 \in 1 .. Len(c) + 1 /\ (Len(c) + 1) + 1 .. Len(c) + 1 = {}
    BY <1>1
  <2> QED BY <1>1, <1>4, <2>1 DEF Chain
<1> QED
  BY <1>2, <1>3, <1>4 DEF d

\* What passes "break" on hands it to the call below.
LEMMA ChainBack ==
  ASSUME NEW c, IsSeq(c), c # <<>>, Chain(c, Len(c)), Passes(c[Len(c)])
  PROVE  Chain(c, Len(c) - 1)
<1>1. Len(c) \in Nat
  BY IsSeqFacts
<1>2. PICK w \in 1 .. Len(c) : InBody(c[w]) /\ \A j \in w + 1 .. Len(c) : Passes(c[j])
  BY DEF Chain
<1>3. w # Len(c)
  BY <1>2 DEF InBody, Passes
<1>4. w \in 1 .. Len(c) - 1 /\ \A j \in w + 1 .. Len(c) - 1 : j \in w + 1 .. Len(c)
  BY <1>1, <1>2, <1>3
<1> QED
  BY <1>2, <1>4 DEF Chain

\* What stands in a loop, and every "break" under way, has the loop below it.
LInv(O) ==
  /\ \A name \in DOMAIN functions : functions[name] \in O
  /\ \A i \in DOMAIN ctl : ctl[i].fn \in O /\ (ctl[i].e \notin O => Chain(ctl, i - 1))
  /\ phase = "eval" /\ cur \notin O => Chain(ctl, Len(ctl))
  /\ phase = "return" /\ IsLoopExit(ret) => Chain(ctl, Len(ctl))

\* How a step moves control: it stops or returns, starts a "break", passes one
\* on, calls, goes on with another call, puts a branch in the place of an if,
\* or starts a script.
Ends ==
  /\ phase' # "eval" /\ (phase' = "return" => ~IsLoopExit(ret'))
  /\ \/ ctl' = ctl
     \/ phase = "return" /\ ctl # <<>> /\ ctl' = Front(ctl)
     \/ ctl' = <<>>
Exits ==
  /\ phase = "eval" /\ cur.type \in {"eBREAK", "eCONTI"}
  /\ phase' = "return" /\ ctl' = ctl
PassesOn ==
  /\ phase = "return" /\ ctl # <<>> /\ Passes(Top)
  /\ phase' = "return" /\ ctl' = Front(ctl) /\ ret' = ret
CallsFor(O, f) ==
  /\ phase = "eval" /\ f.e = cur /\ f.fn \in O
  /\ phase' = "eval" /\ ctl' = Append(ctl, f)
  /\ cur' \in O \/ (cur \notin O /\ Passes(f))
CallsNext(O, f) ==
  /\ phase = "return" /\ ctl # <<>> /\ f.e = Top.e /\ f.fn = Top.fn
  /\ phase' = "eval" /\ ctl' = Append(Front(ctl), f)
  /\ cur' \in O \/ InBody(f) \/ (Top.e \notin O /\ Passes(f))
Replaces(O) ==
  /\ phase = "return" /\ ctl # <<>> /\ phase' = "eval" /\ ctl' = Front(ctl)
  /\ cur' \in O \/ Top.e \notin O
StartsOne(O) == phase' = "eval" /\ ctl' = <<>> /\ cur' \in O

Flows(O) ==
  \/ Ends \/ Exits \/ PassesOn \/ Replaces(O) \/ StartsOne(O)
  \/ \E f : CallsFor(O, f) \/ CallsNext(O, f)

\* What is below the call on top.
LEMMA BelowTop ==
  ASSUME NEW O, IInv, LInv(O), phase = "return", ctl # <<>>
  PROVE  LET d == Front(ctl) IN
         /\ IsSeq(d) /\ Len(d) \in Nat /\ DOMAIN d = 1 .. Len(d) /\ Len(d) = Len(ctl) - 1
         /\ \A i \in DOMAIN d : d[i].fn \in O /\ (d[i].e \notin O => Chain(d, i - 1))
         /\ Top.fn \in O /\ (Top.e \notin O => Chain(d, Len(d)))
<1> DEFINE d == Front(ctl)
<1>1. IsSeq(ctl) /\ Len(ctl) \in Nat /\ DOMAIN ctl = 1 .. Len(ctl)
  BY TopFacts, IsSeqFacts DEF Stacks, Typed
<1>2. /\ IsSeq(d) /\ DOMAIN d = 1 .. Len(ctl) - 1 /\ Len(d) = Len(ctl) - 1
      /\ \A i \in DOMAIN d : d[i] = ctl[i]
  BY <1>1, FrontFacts
<1>3. Len(d) \in Nat /\ Len(ctl) \in DOMAIN ctl
  BY <1>1, <1>2, IsSeqFacts
<1>4. ASSUME NEW n \in Nat, n < Len(ctl), Chain(ctl, n) PROVE Chain(d, n)
  BY <1>1, <1>4, ChainFront
<1> HIDE DEF d
<1>5. ASSUME NEW i \in DOMAIN d
      PROVE  d[i].fn \in O /\ (d[i].e \notin O => Chain(d, i - 1))
  <2>1. i \in DOMAIN ctl /\ i - 1 \in Nat /\ i - 1 < Len(ctl)
    BY <1>1, <1>2
  <2> QED BY <1>2, <1>4, <2>1 DEF LInv
<1>6. Top.fn \in O /\ (Top.e \notin O => Chain(d, Len(d)))
  BY <1>1, <1>2, <1>3, <1>4 DEF LInv, Top
<1> QED
  BY <1>2, <1>3, <1>5, <1>6 DEF d

\* All these moves keep the invariant.
LEMMA FlowKeepsL ==
  ASSUME NEW X, NEW C, NEW O, Outside(X, C, O), IInv, LInv(O), Flows(O),
         \A name \in DOMAIN functions' : functions'[name] \in O
  PROVE  LInv(O)'
<1>1. IsSeq(ctl) /\ Len(ctl) \in Nat /\ DOMAIN ctl = 1 .. Len(ctl)
  BY EmptyIsSeq, IsSeqFacts DEF IInv, Rest, Stacks, Typed
<1>2. CASE Ends
  <2>1. CASE ctl' = ctl
    BY <1>2, <2>1 DEF Ends, LInv, IsLoopExit
  <2>2. CASE phase = "return" /\ ctl # <<>> /\ ctl' = Front(ctl)
    BY <1>2, <2>2, BelowTop DEF Ends, LInv, IsLoopExit
  <2>3. CASE ctl' = <<>>
    BY <1>2, <2>3, EmptyIsSeq DEF Ends, LInv, IsLoopExit
  <2> QED BY <1>2, <2>1, <2>2, <2>3 DEF Ends
<1>3. CASE Exits
  <2>1. Chain(ctl, Len(ctl))
    BY <1>3 DEF Exits, Outside, LInv
  <2> QED BY <1>3, <2>1 DEF Exits, LInv
<1>4. CASE PassesOn
  <2>1. IsLoopExit(ret) => Chain(Front(ctl), Len(Front(ctl)))
    <3>1. SUFFICES ASSUME IsLoopExit(ret) PROVE Chain(Front(ctl), Len(Front(ctl)))
      OBVIOUS
    <3>2. Chain(ctl, Len(ctl)) /\ Passes(ctl[Len(ctl)]) /\ ctl # <<>>
      BY <1>4, <3>1 DEF PassesOn, LInv, Top
    <3>3. Chain(ctl, Len(ctl) - 1)
      BY <1>1, <3>2, ChainBack
    <3>4. Len(Front(ctl)) = Len(ctl) - 1 /\ Len(Front(ctl)) \in Nat
      BY <1>4, BelowTop DEF PassesOn
    <3> QED BY <1>1, <3>2, <3>3, <3>4, ChainFront
  <2> QED BY <1>4, <2>1, BelowTop DEF PassesOn, LInv
<1>5. CASE Replaces(O)
  BY <1>5, BelowTop DEF Replaces, LInv
<1>6. CASE StartsOne(O)
  BY <1>6, EmptyIsSeq DEF StartsOne, LInv
<1>7. ASSUME NEW c, IsSeq(c), Len(c) \in Nat, DOMAIN c = 1 .. Len(c),
             \A i \in DOMAIN c : c[i].fn \in O /\ (c[i].e \notin O => Chain(c, i - 1)),
             NEW f, f.fn \in O, f.e \notin O => Chain(c, Len(c)),
             cur' \in O \/ InBody(f) \/ (f.e \notin O /\ Passes(f)),
             phase' = "eval", ctl' = Append(c, f)
      PROVE  LInv(O)'
  <2> DEFINE d == Append(c, f)
  <2>1. /\ DOMAIN d = 1 .. Len(c) + 1 /\ d[Len(c) + 1] = f /\ Len(d) = Len(c) + 1
        /\ \A i \in DOMAIN c : d[i] = c[i]
    BY <1>7, AppendFacts, IsSeqFacts
  <2>2. /\ \A n \in Nat : n <= Len(c) /\ Chain(c, n) => Chain(d, n)
        /\ Chain(c, Len(c)) /\ Passes(f) => Chain(d, Len(d))
        /\ InBody(f) => Chain(d, Len(d))
    BY <1>7, <2>1, ChainAppend
  <2> HIDE DEF d
  <2>3. ASSUME NEW i \in DOMAIN d
        PROVE  d[i].fn \in O /\ (d[i].e \notin O => Chain(d, i - 1))
    <3>1. CASE i = Len(c) + 1
      BY <1>7, <2>1, <2>2, <3>1
    <3>2. CASE i # Len(c) + 1
      <4>1. i \in DOMAIN c /\ i - 1 \in Nat /\ i - 1 <= Len(c)
        BY <1>7, <2>1, <3>2
      <4> QED BY <1>7, <2>1, <2>2, <4>1
    <3> QED BY <3>1, <3>2
  <2>4. cur' \notin O => Chain(d, Len(d))
    BY <1>7, <2>2
  <2>5. ctl' = d /\ phase' = "eval"
    BY <1>7 DEF d
  <2> QED BY <2>3, <2>4, <2>5 DEF LInv
<1>8. ASSUME NEW f, CallsFor(O, f) PROVE LInv(O)'
  BY <1>1, <1>7, <1>8 DEF CallsFor, LInv
<1>9. ASSUME NEW f, CallsNext(O, f) PROVE LInv(O)'
  <2> DEFINE d == Front(ctl)
  <2>1. /\ IsSeq(d) /\ Len(d) \in Nat /\ DOMAIN d = 1 .. Len(d)
        /\ \A i \in DOMAIN d : d[i].fn \in O /\ (d[i].e \notin O => Chain(d, i - 1))
        /\ Top.fn \in O /\ (Top.e \notin O => Chain(d, Len(d)))
    BY <1>9, BelowTop DEF CallsNext
  <2>2. ctl' = Append(d, f)
    BY <1>9 DEF CallsNext
  <2> HIDE DEF d
  <2> QED BY <1>7, <1>9, <2>1, <2>2 DEF CallsNext
<1> QED
  BY <1>2, <1>3, <1>4, <1>5, <1>6, <1>8, <1>9 DEF Flows

\* No value is a "break" or "continue".
NoExits(V) == \A v \in V : ~IsLoopExit(v)

\* A call for an expression, or the next one.
LEMMA EntersFlow ==
  ASSUME NEW O, NoExpr \in O, phase = "eval", NEW pc, NEW fn \in O, NEW child \in O,
         \/ Push(Frame(pc), child)
         \/ Push([Frame(pc) EXCEPT !.n = 1], child)
         \/ Push([Frame(pc) EXCEPT !.fn = fn], child)
  PROVE  Flows(O)
<1> DEFINE a == Frame(pc)
           b == [Frame(pc) EXCEPT !.n = 1]
           c == [Frame(pc) EXCEPT !.fn = fn]
<1>1. a.e = cur /\ a.fn = NoExpr /\ b.e = cur /\ b.fn = NoExpr /\ c.e = cur /\ c.fn = fn
  BY DEF Frame
<1> HIDE DEF a, b, c
<1>2. CallsFor(O, a) \/ CallsFor(O, b) \/ CallsFor(O, c)
  BY <1>1 DEF CallsFor, Push, Descend, a, b, c
<1> QED
  BY <1>2 DEF Flows

\* The frame on top goes on with other locals and a nested call.
LEMMA GoesOnFlow ==
  ASSUME NEW O, phase = "return", ctl # <<>>, IsFrame(Top), NEW pc, NEW n, NEW held, NEW child,
         \/ Switch([Top EXCEPT !.n = n, !.held = held], child) /\ child \in O
         \/ Switch([Top EXCEPT !.pc = pc, !.held = held], child) /\ child \in O
         \/ Switch([Top EXCEPT !.pc = pc, !.n = n], child) /\ child \in O
         \/ /\ Switch([Top EXCEPT !.pc = pc], child)
            /\ child \in O \/ (pc = "body" /\ Top.e.type = "eWHILE")
  PROVE  Flows(O)
<1> DEFINE a == [Top EXCEPT !.n = n, !.held = held]
           b == [Top EXCEPT !.pc = pc, !.held = held]
           c == [Top EXCEPT !.pc = pc, !.n = n]
           d == [Top EXCEPT !.pc = pc]
<1>1. \A f \in {a, b, c, d} : f.e = Top.e /\ f.fn = Top.fn
  BY DEF IsFrame
<1>2. d.pc = pc
  BY DEF IsFrame
<1> HIDE DEF a, b, c, d
<1>3. CASE child \in O
  <2>1. PICK f \in {a, b, c, d} : Switch(f, child)
    BY <1>3 DEF a, b, c, d
  <2>2. CallsNext(O, f)
    BY <1>1, <1>3, <2>1 DEF CallsNext, Switch, Descend
  <2> QED BY <2>2 DEF Flows
<1>4. CASE Switch(d, child) /\ pc = "body" /\ Top.e.type = "eWHILE"
  <2>1. InBody(d)
    BY <1>1, <1>2, <1>4 DEF InBody
  <2>2. CallsNext(O, d)
    BY <1>1, <1>4, <2>1 DEF CallsNext, Switch, Descend
  <2> QED BY <2>2 DEF Flows
<1> QED
  BY <1>3, <1>4 DEF d

\* An expression returns at once.
LEMMA LeavesFlow ==
  ASSUME NEW X, NEW C, NEW O, NEW V, Outside(X, C, O), Closed(X, V), NoExits(V),
         IInv, PInv(X, C), VInv(X, V), LInv(O), Leaves
  PROVE  Flows(O) /\ \A name \in DOMAIN functions' : functions'[name] \in O
<1>0. phase = "eval" /\ cur \in C
  BY DEF Leaves, EvalNull, EvalLeaf, EvalString, EvalNothing, EvalVar, EvalIsEmpty,
         EvalFunctionDef, Evaluating, PInv, Starts
<1>1. \A name \in DOMAIN functions' : functions'[name] \in O
  <2>1. CASE EvalFunctionDef
    <3>1. cur.left \in O /\ functions' = dict_set(functions, cur.str, cur.left)
      BY <1>0, <2>1 DEF EvalFunctionDef, Evaluating, Outside
    <3> QED BY <3>1 DEF dict_set, LInv
  <2>2. CASE ~EvalFunctionDef
    <3>1. functions' = functions
      BY <2>2 DEF Leaves, EvalNull, EvalLeaf, EvalString, EvalNothing, EvalVar, EvalIsEmpty,
             env
    <3> QED BY <3>1 DEF LInv
  <2> QED BY <2>1, <2>2
<1>2. ASSUME NEW v, Yield(v), ~IsLoopExit(v)
      PROVE  Flows(O) /\ \A name \in DOMAIN functions' : functions'[name] \in O
  BY <1>1, <1>2 DEF Yield, Flows, Ends
<1>3. CASE EvalNull \/ EvalNothing \/ EvalFunctionDef
  <2>1. Yield(Null) /\ ~IsLoopExit(Null)
    BY <1>3 DEF EvalNull, EvalNothing, EvalFunctionDef, IsLoopExit, Null
  <2> QED BY <1>2, <2>1
<1>4. CASE EvalLeaf
  <2>1. Yield(LeafValue(cur)) /\ cur.type \in LeafTypes
    BY <1>4 DEF EvalLeaf, Evaluating
  <2>2. CASE cur.type \in {"eBREAK", "eCONTI"}
    BY <1>0, <1>1, <2>1, <2>2 DEF Yield, Flows, Exits
  <2>3. CASE cur.type \in {"eIntVALUE", "eDoubleVALUE", "eBoolVALUE"}
    <3> DEFINE v == LeafValue(cur)
    <3>1. /\ cur.type = "eIntVALUE" => v.type = "Int"
          /\ cur.type = "eDoubleVALUE" => v.type = "Double"
          /\ cur.type = "eBoolVALUE" => v.type = "Bool"
      BY DEF LeafValue, value_new_int, value_new_double, value_new_bool
    <3> HIDE DEF v
    <3>2. ~IsLoopExit(v)
      BY <2>3, <3>1 DEF IsLoopExit
    <3> QED BY <1>2, <2>1, <3>2 DEF v
  <2> QED BY <2>1, <2>2, <2>3 DEF LeafTypes
<1>5. CASE EvalString
  <2> DEFINE v == eval_string(cur, cut[cur.id])
  <2>1. Yield(v) /\ v.type = "String"
    BY <1>5 DEF EvalString, eval_string, value_new_string
  <2> HIDE DEF v
  <2> QED BY <1>2, <2>1 DEF IsLoopExit
<1>6. CASE EvalVar
  <2> DEFINE v == Copy(kfs_lang_get_var(spaces, cur.str))
  <2>1. Yield(v)
    BY <1>6 DEF EvalVar
  <2>2. IsSpaces(spaces) /\ Stored(V, spaces)
    BY <1>0 DEF IInv, Stacks, Typed, VInv
  <2>3. v \in V
    <3>1. kfs_lang_get_var(spaces, cur.str) \in V
      BY <2>2, StoredGet
    <3> QED BY <3>1 DEF Closed
  <2> HIDE DEF v
  <2> QED BY <1>2, <2>1, <2>3 DEF NoExits
<1>7. CASE EvalIsEmpty
  <2> DEFINE b == kfs_lang_get_var(spaces, cur.str).type = "Empty"
             v == value_new_bool(b)
  <2>1. Yield(v)
    BY <1>7 DEF EvalIsEmpty
  <2> HIDE DEF b
  <2>2. v.type = "Bool"
    BY DEF value_new_bool
  <2> HIDE DEF v
  <2> QED BY <1>2, <2>1, <2>2 DEF IsLoopExit
<1> QED
  BY <1>1, <1>3, <1>4, <1>5, <1>6, <1>7 DEF Leaves

\* Lists hand "break" on, or go on with their next item.
LEMMA CollectionsFlow ==
  ASSUME NEW X, NEW C, NEW O, NEW V, Outside(X, C, O), Closed(X, V), NoExits(V),
         IInv, PInv(X, C), VInv(X, V), LInv(O), Collections
  PROVE  Flows(O) /\ functions' = functions
<1>0. functions' = functions
  BY DEF Collections, EvalEmptyList, ListEnter, ListStop, ListNext, ListDone,
         EvalEmptyObject, ObjectEnter, ObjectNext, ObjectDone, env
<1>1. Parsed(X, C) /\ X \subseteq O /\ NoExpr \in O
  BY DEF Outside
<1>2. CASE EvalEmptyList \/ EvalEmptyObject
  <2>1. /\ phase' = "return" /\ ctl' = ctl
        /\ ret' = value_new_list(<<>>) \/ ret' = value_new_object(EmptyDict)
    BY <1>2 DEF EvalEmptyList, EvalEmptyObject, Yield
  <2>2. ~IsLoopExit(value_new_list(<<>>)) /\ ~IsLoopExit(value_new_object(EmptyDict))
    BY DEF IsLoopExit, value_new_list, value_new_object
  <2> QED BY <1>0, <2>1, <2>2 DEF Flows, Ends
<1>3. CASE ListEnter
  <2> DEFINE f == [Frame("item") EXCEPT !.n = 1]
             child == cur.list[1]
  <2>1. /\ phase = "eval" /\ cur \in C /\ cur.type = "eListVALUE" /\ cur.list # <<>>
        /\ Push(f, child)
    BY <1>3 DEF ListEnter, Evaluating, PInv, Starts
  <2>2. IsSeq(cur.list)
    BY <1>1, <2>1, TreeFacts
  <2>3. 1 \in DOMAIN cur.list
    BY <2>1, <2>2, IsSeqFacts
  <2>4. cur \in O => child \in O
    BY <2>1, <2>3 DEF Outside
  <2>5. f.e = cur /\ f.fn = NoExpr
    BY DEF Frame
  <2> HIDE DEF f, child
  <2>6. CallsFor(O, f)
    BY <1>1, <2>1, <2>4, <2>5 DEF CallsFor, Push, Descend, Passes
  <2> QED BY <1>0, <2>6 DEF Flows
<1>4. CASE ObjectEnter
  <2> DEFINE child == cur.object[1].data
  <2>1. /\ phase = "eval" /\ cur \in C /\ cur.type = "eObjectVALUE" /\ cur.object # <<>>
        /\ Push([Frame("item") EXCEPT !.n = 1], child)
    BY <1>4 DEF ObjectEnter, Evaluating, PInv, Starts
  <2>2. IsSeq(cur.object) /\ \A k \in DOMAIN cur.object : cur.object[k].data \in X
    BY <1>1, <2>1, TreeFacts
  <2>3. child \in O
    BY <1>1, <2>1, <2>2, IsSeqFacts
  <2> HIDE DEF child
  <2> QED BY <1>0, <1>1, <2>1, <2>3, EntersFlow
<1>5. CASE ListStop
  <2>1. PassesOn
    BY <1>5 DEF ListStop, Returned, Pop, PassesOn, Passes
  <2> QED BY <1>0, <2>1 DEF Flows
<1>6. CASE ListDone \/ ObjectDone
  <2>1. /\ phase = "return" /\ ctl # <<>> /\ phase' = "return" /\ ctl' = Front(ctl)
        /\ ret'.type \in {"List", "Object"}
    BY <1>6 DEF ListDone, ObjectDone, Returned, Pop, value_new_list, value_new_object
  <2> QED BY <1>0, <2>1 DEF Flows, Ends, IsLoopExit
<1>7. CASE ListNext \/ ObjectNext
  <2>1. /\ phase = "return" /\ ctl # <<>> /\ Top.pc = "item"
        /\ Top.e.type \in {"eListVALUE", "eObjectVALUE"}
    BY <1>7 DEF ListNext, ObjectNext, Returned
  <2>2. Top.e \in C /\ IsFrame(Top) /\ Top.n \in Nat
    BY <2>1, PlainPure, PlainFrame, VTop
  <2>3. CASE ListNext
    <3> DEFINE n == Top.n + 1
               held == value_list_add(Top.held, ret)
               f == [Top EXCEPT !.n = n, !.held = held]
               child == Top.e.list[n]
    <3>1. /\ Switch(f, child) /\ Top.n < Len(Top.e.list) /\ Top.e.type = "eListVALUE"
      BY <2>2, <2>3 DEF ListNext, Returned, IsFrame
    <3>2. IsSeq(Top.e.list)
      BY <1>1, <2>2, <3>1, TreeFacts
    <3>3. n \in DOMAIN Top.e.list
      BY <2>2, <3>1, <3>2, IsSeqFacts
    <3>4. Top.e \in O => child \in O
      BY <3>1, <3>3 DEF Outside
    <3>5. f.e = Top.e /\ f.fn = Top.fn
      BY <2>2 DEF IsFrame
    <3> HIDE DEF f, child
    <3>6. CallsNext(O, f)
      BY <2>1, <3>1, <3>4, <3>5 DEF CallsNext, Switch, Descend, Passes
    <3> QED BY <1>0, <3>6 DEF Flows
  <2>4. CASE ObjectNext
    <3> DEFINE n == Top.n + 1
               held == Append(Top.held, ret)
               child == Top.e.object[n].data
    <3>1. /\ Switch([Top EXCEPT !.n = n, !.held = held], child)
          /\ Top.n < Len(Top.e.object) /\ Top.e.type = "eObjectVALUE"
      BY <2>2, <2>4 DEF ObjectNext, Returned, IsFrame
    <3>2. IsSeq(Top.e.object) /\ \A k \in DOMAIN Top.e.object : Top.e.object[k].data \in X
      BY <1>1, <2>2, <3>1, TreeFacts
    <3>3. n \in DOMAIN Top.e.object
      BY <2>2, <3>1, <3>2, IsSeqFacts
    <3>4. child \in O
      BY <1>1, <3>2, <3>3
    <3> HIDE DEF n, held, child
    <3> QED BY <1>0, <2>1, <2>2, <3>1, <3>4, GoesOnFlow
  <2> QED BY <1>7, <2>3, <2>4
<1> QED
  BY <1>2, <1>3, <1>4, <1>5, <1>6, <1>7 DEF Collections

\* No operand and no result of an operator is a "break".
LEMMA OperatorsFlow ==
  ASSUME NEW X, NEW C, NEW O, NEW V, Outside(X, C, O), Closed(X, V), NoExits(V),
         IInv, PInv(X, C), VInv(X, V), LInv(O), Operators
  PROVE  Flows(O) /\ functions' = functions
<1>0. functions' = functions
  <2>1. CASE BinaryEnter \/ BinarySecond \/ BinaryApply \/ UnaryEnter \/ NotApply \/ MinusApply
    BY <2>1 DEF BinaryEnter, BinarySecond, BinaryApply, UnaryEnter, NotApply, MinusApply, env
  <2>2. CASE DotApply \/ IntApply \/ AssignApply \/ PrintApply \/ ReadApply \/ ReturnApply
    BY <2>2 DEF DotApply, IntApply, AssignApply, PrintApply, ReadApply, ReturnApply, env
  <2>3. CASE ArrayEnter \/ ArrayIndex \/ ArrayApply
    BY <2>3 DEF ArrayEnter, ArrayIndex, ArrayApply, env
  <2> QED BY <2>1, <2>2, <2>3 DEF Operators
<1>1. Parsed(X, C) /\ X \subseteq O /\ NoExpr \in O
  BY DEF Outside
<1>2. ASSUME phase = "return", ctl # <<>>, Crash
      PROVE  Flows(O)
  BY <1>2 DEF Crash, Flows, Ends
<1>3. ASSUME phase = "return", ctl # <<>>, NEW v, Pop(v), ~IsLoopExit(v)
      PROVE  Flows(O)
  BY <1>3 DEF Pop, Flows, Ends
<1>4. CASE BinaryEnter \/ UnaryEnter \/ ArrayEnter
  <2>1. /\ phase = "eval" /\ cur \in C
        /\ cur.type \in BinaryTypes \cup UnaryTypes \cup {"eARRAY_ACCESS"}
    BY <1>4 DEF BinaryEnter, UnaryEnter, ArrayEnter, Evaluating, PInv, Starts
  <2>2. PICK pc : \/ Push(Frame(pc), cur.left) /\ cur.type \in BinaryTypes \cup UnaryTypes
                  \/ Push(Frame(pc), cur.right) /\ cur.type \in BinaryTypes \cup {"eARRAY_ACCESS"}
    BY <1>4 DEF BinaryEnter, UnaryEnter, ArrayEnter, Evaluating
  <2>3. PICK child \in X : Push(Frame(pc), child)
    BY <1>1, <2>1, <2>2, TreeFacts
  <2> QED BY <1>0, <1>1, <2>1, <2>3, EntersFlow
<1>5. CASE BinarySecond
  <2>1. phase = "return" /\ ctl # <<>> /\ Top.e.type \in BinaryTypes
    BY <1>5 DEF BinarySecond, Returned
  <2>2. IsFrame(Top) /\ Top.e \in C
    BY <2>1, VTop
  <2>3. Top.e.left \in X /\ Top.e.right \in X
    <3> DEFINE e == Top.e
    <3>1. e \in C /\ e.type \in BinaryTypes
      BY <2>1, <2>2
    <3> HIDE DEF e
    <3>2. e.left \in X /\ e.right \in X
      BY <1>1, <3>1, TreeFacts
    <3> QED BY <3>2 DEF e
  <2>4. PICK pc : \E child \in X : Switch([Top EXCEPT !.pc = pc, !.held = <<ret>>], child)
    BY <1>5, <2>3 DEF BinarySecond
  <2> DEFINE held == <<ret>>
  <2>5. PICK child \in X : Switch([Top EXCEPT !.pc = pc, !.held = held], child)
    BY <2>4
  <2> HIDE DEF held
  <2> QED BY <1>0, <1>1, <2>1, <2>2, <2>5, GoesOnFlow
<1>6. CASE \/ NotApply \/ MinusApply \/ DotApply \/ IntApply \/ PrintApply \/ ReadApply
           \/ ArrayApply \/ BinaryApply
  <2>1. phase = "return" /\ ctl # <<>> /\ (Crash \/ \E v \in V : Pop(v))
    BY <1>6, OperatorValues
  <2> QED BY <1>0, <1>2, <1>3, <2>1 DEF NoExits
<1>7. CASE AssignApply
  <2>1. phase = "return" /\ ctl # <<>> /\ Top.pc = "apply" /\ Pop(ret)
    BY <1>7 DEF AssignApply, Returned
  <2>2. ret \in V
    BY <2>1, VOperand
  <2> QED BY <1>0, <1>3, <2>1, <2>2 DEF NoExits
<1>8. CASE ReturnApply
  <2>1. phase = "return" /\ ctl # <<>> /\ (Crash \/ \E l \in Seq(V) : Pop(FCReturn(l)))
    BY <1>8, ReturnValue
  <2>2. ASSUME NEW l PROVE ~IsLoopExit(FCReturn(l))
    BY DEF IsLoopExit, FCReturn
  <2> QED BY <1>0, <1>2, <1>3, <2>1, <2>2
<1>9. CASE ArrayIndex
  <2>1. phase = "return" /\ ctl # <<>> /\ Top.e.type = "eARRAY_ACCESS"
    BY <1>9 DEF ArrayIndex, Returned
  <2>2. IsFrame(Top) /\ Top.e \in C
    BY <2>1, VTop
  <2>3. CASE Crash \/ Pop(Null)
    BY <1>0, <1>2, <1>3, <2>1, <2>3 DEF IsLoopExit, Null
  <2>4. CASE Switch([Top EXCEPT !.pc = "apply", !.n = ret.i], Top.e.left)
    <3> DEFINE n == ret.i
               child == Top.e.left
               pc == "apply"
    <3>1. child \in O
      BY <1>1, <2>1, <2>2, TreeFacts
    <3>2. Switch([Top EXCEPT !.pc = pc, !.n = n], child)
      BY <2>4
    <3> HIDE DEF n, child, pc
    <3> QED BY <1>0, <2>1, <2>2, <3>1, <3>2, GoesOnFlow
  <2> QED BY <1>9, <2>3, <2>4 DEF ArrayIndex
<1> QED
  BY <1>4, <1>5, <1>6, <1>7, <1>8, <1>9 DEF Operators

\* A loop ends "break" and "continue"; blocks hand them on.
LEMMA ControlFlow ==
  ASSUME NEW X, NEW C, NEW O, NEW V, Outside(X, C, O), Closed(X, V), NoExits(V),
         IInv, PInv(X, C), VInv(X, V), LInv(O), Control
  PROVE  Flows(O) /\ functions' = functions
<1>0. functions' = functions
  BY DEF Control, BlockEnter, BlockLeave, IfEnter, IfChoose, WhileEnter, WhileFirst,
         WhileBody, WhileAgain, env
<1>1. Parsed(X, C) /\ X \subseteq O /\ NoExpr \in O
  BY DEF Outside
<1>2. CASE IfEnter \/ WhileEnter
  <2>1. phase = "eval" /\ cur \in C /\ cur.type \in {"eIF", "eWHILE"}
    BY <1>2 DEF IfEnter, WhileEnter, Evaluating, PInv, Starts
  <2>2. PICK pc : Push(Frame(pc), cur.next)
    BY <1>2 DEF IfEnter, WhileEnter
  <2>3. cur.next \in O
    BY <1>1, <2>1, TreeFacts
  <2> QED BY <1>0, <1>1, <2>1, <2>2, <2>3, EntersFlow
<1>3. CASE IfChoose
  <2>1. /\ phase = "return" /\ ctl # <<>> /\ phase' = "eval" /\ ctl' = Front(ctl)
        /\ Top.e.type = "eIF" /\ cur' \in {Top.e.left, Top.e.right}
    BY <1>3 DEF IfChoose, Returned, Descend
  <2>2. Top.e \in O => cur' \in O
    BY <2>1 DEF Outside
  <2> QED BY <1>0, <2>1, <2>2 DEF Flows, Replaces
<1>4. CASE WhileFirst \/ WhileBody \/ WhileAgain
  <2>1. phase = "return" /\ ctl # <<>> /\ Top.e.type = "eWHILE"
    BY <1>4 DEF WhileFirst, WhileBody, WhileAgain, Returned
  <2>2. IsFrame(Top) /\ Top.e \in C
    BY <2>1, VTop
  <2>3. Top.e.next \in O
    BY <1>1, <2>1, <2>2, TreeFacts
  <2>4. \/ Crash \/ Pop(Null) \/ (Pop(ret) /\ ret.type = "FC_Return")
        \/ Switch([Top EXCEPT !.pc = "body"], Top.e.right)
        \/ Switch([Top EXCEPT !.pc = "again"], Top.e.next)
    BY <1>4 DEF WhileFirst, WhileBody, WhileAgain
  <2>5. CASE Crash \/ Pop(Null) \/ (Pop(ret) /\ ret.type = "FC_Return")
    BY <1>0, <2>1, <2>5 DEF Crash, Pop, Flows, Ends, IsLoopExit, Null
  <2>6. CASE Switch([Top EXCEPT !.pc = "body"], Top.e.right)
    <3> DEFINE pc == "body"
               child == Top.e.right
    <3>1. Switch([Top EXCEPT !.pc = pc], child) /\ pc = "body"
      BY <2>6
    <3> HIDE DEF pc, child
    <3> QED BY <1>0, <2>1, <2>2, <3>1, GoesOnFlow
  <2>7. CASE Switch([Top EXCEPT !.pc = "again"], Top.e.next)
    <3> DEFINE pc == "again"
               child == Top.e.next
    <3>1. Switch([Top EXCEPT !.pc = pc], child) /\ child \in O
      BY <2>3, <2>7
    <3> HIDE DEF pc, child
    <3> QED BY <1>0, <2>1, <2>2, <3>1, GoesOnFlow
  <2> QED BY <2>4, <2>5, <2>6, <2>7
<1>5. CASE BlockEnter
  <2> DEFINE f == Frame("leave")
             child == cur.left
  <2>1. phase = "eval" /\ cur.type = "eBLOCK" /\ Push(f, child)
    BY <1>5 DEF BlockEnter, Evaluating
  <2>2. cur \in O => child \in O
    BY <2>1 DEF Outside
  <2>3. f.e = cur /\ f.fn = NoExpr
    BY DEF Frame
  <2> HIDE DEF f, child
  <2>4. CallsFor(O, f)
    BY <1>1, <2>1, <2>2, <2>3 DEF CallsFor, Push, Descend, Passes
  <2> QED BY <1>0, <2>4 DEF Flows
<1>6. CASE BlockLeave
  <2>1. PassesOn
    BY <1>6 DEF BlockLeave, Returned, Pop, PassesOn, Passes
  <2> QED BY <1>0, <2>1 DEF Flows
<1> QED
  BY <1>2, <1>3, <1>4, <1>5, <1>6 DEF Control

\* The body of a function ends in no "break" or "continue".
LEMMA NoExitFromCalls ==
  ASSUME NEW X, NEW V, NEW O, IInv, VInv(X, V), LInv(O), phase = "return", ctl # <<>>,
         InCall(Top)
  PROVE  ret \in V \cup Returns(V)
<1>1. Len(ctl) \in Nat /\ ret \in Yields(V)
  BY TopFacts, IsSeqFacts DEF Stacks, Typed, VInv, VPlace
<1>2. ~Chain(ctl, Len(ctl))
  <2>1. SUFFICES ASSUME NEW w \in 1 .. Len(ctl), InBody(ctl[w]),
                        \A j \in w + 1 .. Len(ctl) : Passes(ctl[j])
                 PROVE  FALSE
    BY DEF Chain
  <2>2. w = Len(ctl) \/ Len(ctl) \in w + 1 .. Len(ctl)
    BY <1>1
  <2>3. ~InBody(Top) /\ ~Passes(Top)
    BY DEF InCall, InBody, Passes
  <2> QED BY <2>1, <2>2, <2>3 DEF Top
<1>3. ~IsLoopExit(ret)
  BY <1>2 DEF LInv
<1> QED
  BY <1>1, <1>3 DEF Yields, LoopExits, IsLoopExit, value_new

\* A function body stands outside of the loops around its call.
LEMMA CallsFlow ==
  ASSUME NEW X, NEW C, NEW O, NEW V, Outside(X, C, O), Closed(X, V), NoExits(V),
         IInv, PInv(X, C), VInv(X, V), LInv(O), Calls
  PROVE  Flows(O) /\ functions' = functions
<1>0. functions' = functions
  BY DEF Calls, CallEnter, CallBody, CallLeave, env
<1>1. Parsed(X, C) /\ X \subseteq O /\ NoExpr \in O
  BY DEF Outside
<1>2. CASE CallEnter
  <2>1. phase = "eval" /\ cur \in C /\ cur.type = "eFUNCTION_CALL"
    BY <1>2 DEF CallEnter, Evaluating, PInv, Starts
  <2>2. cur.left \in O
    BY <1>1, <2>1, TreeFacts
  <2>3. \/ \E fn \in O : Push([Frame("args") EXCEPT !.fn = fn], cur.left)
        \/ Push(Frame("args"), cur.left)
        \/ Crash
    BY <1>2 DEF CallEnter, LInv
  <2>4. CASE Crash
    BY <1>0, <2>1, <2>4 DEF Crash, Flows, Ends
  <2>5. CASE Push(Frame("args"), cur.left)
    BY <1>0, <1>1, <2>1, <2>2, <2>5, EntersFlow
  <2>6. CASE \E fn \in O : Push([Frame("args") EXCEPT !.fn = fn], cur.left)
    BY <1>0, <1>1, <2>1, <2>2, <2>6, EntersFlow
  <2> QED BY <2>3, <2>4, <2>5, <2>6
<1>3. CASE CallBody
  <2> DEFINE f == [Top EXCEPT !.pc = "leave", !.at = spaces]
  <2>1. phase = "return" /\ ctl # <<>> /\ Switch(f, Top.fn)
    BY <1>3 DEF CallBody, Returned
  <2>2. f.e = Top.e /\ f.fn = Top.fn
    BY <2>1, VTop DEF IsFrame
  <2>3. Top.fn \in O
    BY <2>1, BelowTop
  <2> HIDE DEF f
  <2>4. CallsNext(O, f)
    BY <2>1, <2>2, <2>3 DEF CallsNext, Switch, Descend
  <2> QED BY <1>0, <2>4 DEF Flows
<1>4. CASE CallLeave
  <2> DEFINE v == value_delist(ReturnedValue(ret))
  <2>1. phase = "return" /\ ctl # <<>> /\ InCall(Top) /\ Pop(v)
    BY <1>4 DEF CallLeave, Returned, InCall
  <2>2. v \in V
    BY <2>1, CallValue, NoExitFromCalls
  <2> HIDE DEF v
  <2> QED BY <1>0, <2>1, <2>2 DEF Pop, Flows, Ends, NoExits
<1> QED
  BY <1>2, <1>3, <1>4 DEF Calls

\* A script starts outside of all loops.
LEMMA DriveFlow ==
  ASSUME NEW O, ScriptsIn(O), scripts \in ScriptSets, IInv, LInv(O), Drive
  PROVE  Flows(O) /\ \A name \in DOMAIN functions' : functions'[name] \in O
<1>0. \A name \in DOMAIN functions' : functions'[name] \in O
  <2>1. functions' = functions \/ functions' = EmptyDict
    BY DEF Drive, StartScript, ParseFails, FinishScript, kfs_lang_env_delete
  <2> QED BY <2>1 DEF EmptyDict, LInv
<1>1. CASE StartScript
  <2>1. ctl' = <<>> /\ phase' = "eval" /\ cur' = scripts[inx + 1]
    BY <1>1 DEF StartScript, Descend
  <2>2. inx + 1 \in DOMAIN scripts /\ scripts[inx + 1] # ParseError
    BY <1>1, IsSeqFacts DEF StartScript, IInv, Rest
  <2>3. cur' \in O
    BY <2>1, <2>2 DEF ScriptsIn
  <2> QED BY <1>0, <2>1, <2>3 DEF Flows, StartsOne
<1>2. CASE ParseFails \/ FinishScript \/ kfs_lang_env_delete
  <2>1. ctl' = ctl /\ phase' \notin {"eval", "return"}
    BY <1>2 DEF ParseFails, FinishScript, kfs_lang_env_delete, Crash, machine
  <2> QED BY <1>0, <2>1 DEF Flows, Ends
<1> QED
  BY <1>1, <1>2 DEF Drive

\* Every step of the program keeps it.
LEMMA NextKeepsL ==
  ASSUME NEW X, NEW C, NEW O, NEW V, Outside(X, C, O), ScriptsIn(O), Closed(X, V), NoExits(V),
         scripts \in ScriptSets, IInv, PInv(X, C), VInv(X, V), LInv(O), [Next]_vars
  PROVE  LInv(O)'
<1>1. CASE UNCHANGED vars \/ Stopped
  <2>1. UNCHANGED <<phase, ctl, ret, cur, functions>>
    BY <1>1 DEF Stopped, vars, machine, env
  <2> QED BY <2>1 DEF LInv
<1>2. CASE Step
  <2>1. Flows(O) /\ (functions' = functions
                       \/ \A name \in DOMAIN functions' : functions'[name] \in O)
    BY <1>2, LeavesFlow, CollectionsFlow, OperatorsFlow, ControlFlow, CallsFlow, DriveFlow
       DEF Step
  <2>2. \A name \in DOMAIN functions' : functions'[name] \in O
    BY <2>1 DEF LInv
  <2> QED BY <2>1, <2>2, FlowKeepsL
<1> QED
  BY <1>1, <1>2 DEF Next

\* Scripts in which every "break" and "continue" stands in a loop of its own
\* function, whatever the operators compute of values that are neither: on
\* its way a "break" meets blocks and command lists only, up to that loop.
THEOREM BreaksEndAtLoops ==
  ASSUME NEW X, NEW O, NEW B, NEW V, BreaksInLoops(X, O, B), ScriptsIn(O),
         Closed(X, V), NoExits(V)
  PROVE  Spec => []BreakStaysInLoop
<1> DEFINE C == O \cup B
           Inv == scripts \in ScriptSets /\ PInv(X, C) /\ VInv(X, V) /\ LInv(O)
<1>1. Outside(X, C, O)
  BY LoopFacts
<1>2. Parsed(X, C) /\ ScriptsIn(C)
  BY <1>1 DEF Outside, ScriptsIn
<1> HIDE DEF C
<1>3. Init => Inv
  <2> SUFFICES ASSUME Init PROVE Inv
    OBVIOUS
  <2>1. LInv(O)
    BY EmptyIsSeq DEF Init, LInv, EmptyDict
  <2> QED BY <2>1, InitPure, InitV DEF Init
<1>4. IInv /\ Inv /\ [Next]_vars => Inv'
  <2> SUFFICES ASSUME IInv, Inv, [Next]_vars PROVE Inv'
    OBVIOUS
  <2>1. phase = "return" /\ ctl # <<>> /\ InCall(Top) => ret \in V \cup Returns(V)
    BY NoExitFromCalls
  <2>2. PInv(X, C)' /\ scripts' \in ScriptSets
    BY <1>2, NextKeepsPure, ScriptsStay
  <2>3. VInv(X, V)'
    BY <1>2, <2>1, NextKeepsV
  <2>4. LInv(O)'
    BY <1>1, NextKeepsL
  <2> QED BY <2>2, <2>3, <2>4
<1>5. IInv /\ Inv => BreakStaysInLoop
  <2> SUFFICES ASSUME IInv, LInv(O), phase = "return", ret.type \in {"FC_Break", "FC_Conti"}
               PROVE  \E i \in DOMAIN ctl :
                        /\ ctl[i].e.type = "eWHILE" /\ ctl[i].pc = "body"
                        /\ \A j \in i + 1 .. Len(ctl) :
                             ctl[j].e.type \in {"eBLOCK", "eListVALUE"}
    BY DEF BreakStaysInLoop
  <2>1. DOMAIN ctl = 1 .. Len(ctl)
    BY IsSeqFacts DEF IInv, Stacks, Typed
  <2>2. Chain(ctl, Len(ctl))
    BY DEF LInv, IsLoopExit
  <2> QED BY <2>1, <2>2 DEF Chain, InBody, Passes
<1> QED
  BY <1>3, <1>4, <1>5, Invariance, PTL DEF Spec

-----------------------------------------------------------------------------
(* Sums.  FoldSet takes numbers in an order of its own choice.             *)

\* A set with 0 and the successors of its numbers has all of them.
LEMMA AllNumbers ==
  ASSUME NEW P, 0 \in P, \A i \in Nat : i \in P => i + 1 \in P
  PROVE  Nat \subseteq P
<1> DEFINE T == Nat \ P
<1>0. IsWellFoundedOn(Less, Nat)
  BY NatLessThanWellFounded, Zenon DEF OpToRel, Less
<1>1. SUFFICES ASSUME T # {} PROVE FALSE
  OBVIOUS
<1>2. PICK i \in T : \A j \in T : ~ <<j, i>> \in Less
  BY <1>0, <1>1, WFMin
<1>3. i \in Nat /\ i # 0
  OBVIOUS
<1>4. i - 1 \in Nat /\ i - 1 < i /\ i - 1 + 1 = i
  BY <1>3
<1>5. i - 1 \in P
  BY <1>2, <1>3, <1>4 DEF Less
<1> QED BY <1>3, <1>4, <1>5

\* What FoldSet computes of a set and its subsets, step by step.
Picked(s) == CHOOSE x \in s : TRUE
Folded(c, S, g) ==
  /\ DOMAIN g = SUBSET S
  /\ \A s \in SUBSET S : g[s] = IF s = {} THEN 0 ELSE g[s \ {Picked(s)}] + c[Picked(s)]

\* The number picked is one of the set.
LEMMA PickedIn == ASSUME NEW s, s # {} PROVE Picked(s) \in s
BY DEF Picked

\* The recursive function exists.
LEMMA FoldedExists ==
  ASSUME NEW c, NEW S, IsFiniteSet(S)
  PROVE  \E g : Folded(c, S, g)
<1> DEFINE Body(g, s) == IF s = {} THEN 0 ELSE g[s \ {Picked(s)}] + c[Picked(s)]
           Upto(n, g) == /\ DOMAIN g = SUBSET S
                         /\ \A s \in SUBSET S : Cardinality(s) <= n => g[s] = Body(g, s)
           P == {n \in Nat : \E g : Upto(n, g)}
<1>1. \A s \in SUBSET S : IsFiniteSet(s) /\ Cardinality(s) \in Nat
        /\ Cardinality(s) <= Cardinality(S) /\ (Cardinality(s) = 0 <=> s = {})
  BY FS_Subset, FS_CardinalityType, FS_EmptySet
<1>2. \A s \in SUBSET S : s # {} => /\ s \ {Picked(s)} \in SUBSET S
                                    /\ Cardinality(s \ {Picked(s)}) = Cardinality(s) - 1
  BY <1>1, PickedIn, FS_RemoveElement
<1>3. 0 \in P
  <2> DEFINE g == [s \in SUBSET S |-> 0]
  <2>1. Upto(0, g)
    BY <1>1
  <2> QED BY <2>1
<1>4. ASSUME NEW n \in Nat, n \in P PROVE n + 1 \in P
  <2>1. PICK g : Upto(n, g)
    BY <1>4
  <2> DEFINE h == [s \in SUBSET S |-> IF Cardinality(s) <= n THEN g[s] ELSE Body(g, s)]
  <2>2. ASSUME NEW s \in SUBSET S, Cardinality(s) <= n + 1
        PROVE  h[s] = Body(h, s)
    <3>1. h[s] = Body(g, s)
      BY <2>1
    <3>2. CASE s = {}
      BY <3>1, <3>2
    <3>3. CASE s # {}
      <4>1. s \ {Picked(s)} \in SUBSET S /\ Cardinality(s \ {Picked(s)}) <= n
        BY <1>1, <1>2, <2>2, <3>3
      <4>2. h[s \ {Picked(s)}] = g[s \ {Picked(s)}]
        BY <4>1
      <4> HIDE DEF h
      <4> QED BY <3>1, <3>3, <4>2
    <3> QED BY <3>2, <3>3
  <2>3. Upto(n + 1, h)
    <3>1. DOMAIN h = SUBSET S
      OBVIOUS
    <3> HIDE DEF h, Body
    <3> QED BY <2>2, <3>1
  <2> HIDE DEF Upto, h
  <2> QED BY <2>3
<1>5. Cardinality(S) \in P
  <2> HIDE DEF P
  <2>1. Nat \subseteq P
    BY <1>3, <1>4, AllNumbers
  <2> QED BY <1>1, <2>1
<1>6. PICK g : Upto(Cardinality(S), g)
  BY <1>5
<1>7. Folded(c, S, g)
  BY <1>1, <1>6 DEF Folded
<1> QED BY <1>7

\* Sum is what it computes.
LEMMA SumIsFolded ==
  ASSUME NEW c, NEW S, DOMAIN c = S, IsFiniteSet(S)
  PROVE  \E g : Folded(c, S, g) /\ Sum(c) = g[S]
<1> DEFINE IsIter(g) ==
             g = [s \in SUBSET S |-> IF s = {} THEN 0 ELSE g[s \ {Picked(s)}] + c[Picked(s)]]
           iter == CHOOSE g : IsIter(g)
<1>1. PICK f : Folded(c, S, f)
  BY FoldedExists
<1>2. \E g : IsIter(g)
  <2> DEFINE g == [s \in SUBSET S |-> f[s]]
  <2>1. \A s \in SUBSET S : g[s] = IF s = {} THEN 0 ELSE g[s \ {Picked(s)}] + c[Picked(s)]
    BY <1>1, PickedIn DEF Folded
  <2> HIDE DEF g
  <2>2. DOMAIN g = SUBSET S /\ g = [s \in SUBSET S |-> g[s]]
    BY DEF g
  <2>3. IsIter(g)
    BY <2>1, <2>2
  <2> QED BY <2>3
<1>3. IsIter(iter)
  <2> HIDE DEF IsIter
  <2> QED BY <1>2
<1> HIDE DEF iter
<1>4. Folded(c, S, iter)
  BY <1>3 DEF Folded
<1>5. Sum(c) = iter[S]
  BY DEF Sum, FoldSet, MapThenFoldSet, iter, Picked
<1> QED BY <1>4, <1>5

\* A finite set without one of its members.
LEMMA OneLess ==
  ASSUME NEW t, IsFiniteSet(t), NEW x \in t, NEW n \in Nat, Cardinality(t) = n + 1
  PROVE  Cardinality(t \ {x}) = n
<1>1. Cardinality(t \ {x}) = Cardinality(t) - 1
  BY FS_RemoveElement
<1> QED BY <1>1

\* It computes the same from numbers that are the same.
LEMMA FoldedSame ==
  ASSUME NEW S, NEW T, T \subseteq S, IsFiniteSet(T), NEW c, NEW g, NEW d, NEW h,
         Folded(c, S, g), Folded(d, T, h), \A k \in T : c[k] = d[k]
  PROVE  g[T] = h[T]
<1> DEFINE P == {n \in Nat : \A t \in SUBSET T : Cardinality(t) = n => g[t] = h[t]}
<1>1. \A t \in SUBSET T : IsFiniteSet(t) /\ Cardinality(t) \in Nat
        /\ (Cardinality(t) = 0 <=> t = {})
  BY FS_Subset, FS_CardinalityType, FS_EmptySet
<1>2. 0 \in P
  BY <1>1 DEF Folded
<1>3. ASSUME NEW n \in Nat, n \in P PROVE n + 1 \in P
  <2> SUFFICES ASSUME NEW t \in SUBSET T, Cardinality(t) = n + 1 PROVE g[t] = h[t]
    OBVIOUS
  <2> DEFINE p == Picked(t)
  <2>1. t # {} /\ p \in t
    BY <1>1, PickedIn
  <2>2. t \ {p} \in SUBSET T /\ Cardinality(t \ {p}) = n
    BY <1>1, <2>1, OneLess
  <2>3. g[t \ {p}] = h[t \ {p}] /\ c[p] = d[p]
    BY <1>3, <2>1, <2>2
  <2>4. g[t] = g[t \ {p}] + c[p] /\ h[t] = h[t \ {p}] + d[p]
    BY <2>1 DEF Folded
  <2> QED BY <2>3, <2>4
<1> HIDE DEF P
<1>4. Cardinality(T) \in P
  BY <1>1, <1>2, <1>3, AllNumbers
<1> QED BY <1>4 DEF P

\* The sum of the numbers of some k.
Part(c, s) == Sum([k \in s |-> c[k]])

\* The sum is that of the whole set.
LEMMA SumPart ==
  ASSUME NEW c, IsFiniteSet(DOMAIN c)
  PROVE  Sum(c) = Part(c, DOMAIN c)
<1> DEFINE S == DOMAIN c
           d == [k \in S |-> c[k]]
<1>1. PICK g : Folded(c, S, g) /\ Sum(c) = g[S]
  BY SumIsFolded
<1>2. PICK h : Folded(d, S, h) /\ Sum(d) = h[S]
  <2>1. DOMAIN d = S
    OBVIOUS
  <2> HIDE DEF d, S
  <2> QED BY <2>1, SumIsFolded DEF S
<1>3. g[S] = h[S]
  BY <1>1, <1>2, FoldedSame
<1> QED BY <1>1, <1>2, <1>3 DEF Part

\* A part of a sum depends on its numbers only.
LEMMA PartSame ==
  ASSUME NEW c, NEW d, NEW s, \A k \in s : c[k] = d[k]
  PROVE  Part(c, s) = Part(d, s)
<1>1. [k \in s |-> c[k]] = [k \in s |-> d[k]]
  OBVIOUS
<1> QED BY <1>1 DEF Part

\* Nothing adds up to 0.
LEMMA PartEmpty ==
  ASSUME NEW c
  PROVE  Part(c, {}) = 0
<1> DEFINE d == [k \in {} |-> c[k]]
<1>1. DOMAIN d = {}
  OBVIOUS
<1> HIDE DEF d
<1>2. PICK g : Folded(d, {}, g) /\ Sum(d) = g[{}]
  BY <1>1, SumIsFolded, FS_EmptySet
<1> QED BY <1>2 DEF Folded, Part, d

\* One step of the computation.
LEMMA PartStep ==
  ASSUME NEW c, NEW s, IsFiniteSet(s), s # {}
  PROVE  Part(c, s) = Part(c, s \ {Picked(s)}) + c[Picked(s)]
<1> DEFINE p == Picked(s)
           t == s \ {p}
           d == [k \in s |-> c[k]]
           e == [k \in t |-> c[k]]
<1>1. p \in s /\ IsFiniteSet(t) /\ t \subseteq s
  BY PickedIn, FS_RemoveElement
<1>2. DOMAIN d = s /\ DOMAIN e = t /\ d[p] = c[p] /\ \A k \in t : d[k] = e[k]
  BY <1>1
<1>3. Part(c, s) = Sum(d) /\ Part(c, t) = Sum(e)
  BY DEF Part
<1> HIDE DEF d, e
<1>4. PICK g : Folded(d, s, g) /\ Sum(d) = g[s]
  BY <1>2, SumIsFolded
<1>5. PICK h : Folded(e, t, h) /\ Sum(e) = h[t]
  BY <1>1, <1>2, SumIsFolded
<1>6. g[t] = h[t]
  BY <1>1, <1>2, <1>4, <1>5, FoldedSame
<1>7. g[s] = g[t] + d[p]
  BY <1>4 DEF Folded
<1> QED BY <1>2, <1>3, <1>4, <1>5, <1>6, <1>7

\* A sum of integers is one.
LEMMA PartInt ==
  ASSUME NEW c, NEW s, IsFiniteSet(s), \A k \in s : c[k] \in Int
  PROVE  Part(c, s) \in Int
<1> DEFINE P == {n \in Nat : \A t \in SUBSET s : Cardinality(t) = n => Part(c, t) \in Int}
<1>1. \A t \in SUBSET s : IsFiniteSet(t) /\ Cardinality(t) \in Nat
        /\ (Cardinality(t) = 0 <=> t = {})
  BY FS_Subset, FS_CardinalityType, FS_EmptySet
<1>2. 0 \in P
  BY <1>1, PartEmpty
<1>3. ASSUME NEW n \in Nat, n \in P PROVE n + 1 \in P
  <2> SUFFICES ASSUME NEW t \in SUBSET s, Cardinality(t) = n + 1 PROVE Part(c, t) \in Int
    OBVIOUS
  <2> DEFINE p == Picked(t)
  <2>1. t # {} /\ p \in t
    BY <1>1, PickedIn
  <2>2. t \ {p} \in SUBSET s /\ Cardinality(t \ {p}) = n
    BY <1>1, <2>1, OneLess
  <2>3. Part(c, t \ {p}) \in Int
    BY <1>3, <2>2
  <2>4. Part(c, t) = Part(c, t \ {p}) + c[p]
    BY <1>1, <2>1, PartStep
  <2>5. c[p] \in Int
    BY <2>1
  <2> QED BY <2>3, <2>4, <2>5
<1> HIDE DEF P
<1>4. Cardinality(s) \in P
  BY <1>1, <1>2, <1>3, AllNumbers
<1> QED BY <1>4 DEF P

\* The order does not matter: any number may be added last.
LEMMA PartRemove ==
  ASSUME NEW c, NEW s, IsFiniteSet(s), \A k \in s : c[k] \in Int, NEW x \in s
  PROVE  Part(c, s) = Part(c, s \ {x}) + c[x]
<1> DEFINE P == {n \in Nat : \A t \in SUBSET s : \A y \in t :
                   Cardinality(t) = n => Part(c, t) = Part(c, t \ {y}) + c[y]}
<1>1. \A t \in SUBSET s : IsFiniteSet(t) /\ Cardinality(t) \in Nat
        /\ (Cardinality(t) = 0 <=> t = {})
  BY FS_Subset, FS_CardinalityType, FS_EmptySet
<1>2. 0 \in P
  BY <1>1
<1>3. ASSUME NEW n \in Nat, n \in P PROVE n + 1 \in P
  <2> SUFFICES ASSUME NEW t \in SUBSET s, NEW y \in t, Cardinality(t) = n + 1
               PROVE  Part(c, t) = Part(c, t \ {y}) + c[y]
    OBVIOUS
  <2> DEFINE p == Picked(t)
             u == t \ {p, y}
  <2>1. p \in t /\ Part(c, t) = Part(c, t \ {p}) + c[p]
    BY <1>1, PickedIn, PartStep
  <2>2. CASE y = p
    BY <2>1, <2>2
  <2>3. CASE y # p
    <3>1. /\ t \ {p} \in SUBSET s /\ y \in t \ {p} /\ Cardinality(t \ {p}) = n
          /\ t \ {y} \in SUBSET s /\ p \in t \ {y} /\ Cardinality(t \ {y}) = n
      <4> HIDE DEF p
      <4>1. Cardinality(t \ {p}) = n
        BY <1>1, <2>1, OneLess
      <4>2. Cardinality(t \ {y}) = n
        BY <1>1, OneLess
      <4> QED BY <2>1, <2>3, <4>1, <4>2
    <3>2. (t \ {p}) \ {y} = u /\ (t \ {y}) \ {p} = u /\ u \in SUBSET s
      OBVIOUS
    <3> HIDE DEF p, u
    <3>3. Part(c, t \ {p}) = Part(c, u) + c[y]
      BY <1>3, <3>1, <3>2
    <3>4. Part(c, t \ {y}) = Part(c, u) + c[p]
      BY <1>3, <3>1, <3>2
    <3>5. Part(c, u) \in Int /\ c[p] \in Int /\ c[y] \in Int
      BY <1>1, <2>1, <3>2, PartInt
    <3> QED BY <2>1, <3>3, <3>4, <3>5
  <2> QED BY <2>2, <2>3
<1> HIDE DEF P
<1>4. Cardinality(s) \in P
  BY <1>1, <1>2, <1>3, AllNumbers
<1> QED BY <1>4 DEF P

-----------------------------------------------------------------------------
\* What the proofs below use of sums.
IntsOn(c) == IsFiniteSet(DOMAIN c) /\ \A k \in DOMAIN c : c[k] \in Int

\* Whole numbers add up to one.
LEMMA SumInt ==
  ASSUME NEW c, IntsOn(c)
  PROVE  Sum(c) \in Int
BY SumPart, PartInt DEF IntsOn

\* No numbers add up to 0.
LEMMA SumNone ==
  ASSUME NEW c, DOMAIN c = {}
  PROVE  Sum(c) = 0
BY SumPart, PartEmpty, FS_EmptySet

\* One number changes.
LEMMA SumChange ==
  ASSUME NEW c, NEW d, IntsOn(c), IntsOn(d), DOMAIN d = DOMAIN c, NEW x \in DOMAIN c,
         \A k \in DOMAIN c \ {x} : c[k] = d[k]
  PROVE  Sum(d) = Sum(c) - c[x] + d[x]
<1> DEFINE s == DOMAIN c
<1>1. Sum(c) = Part(c, s \ {x}) + c[x]
  BY SumPart, PartRemove DEF IntsOn
<1>2. Sum(d) = Part(d, s \ {x}) + d[x]
  BY SumPart, PartRemove DEF IntsOn
<1>3. Part(c, s \ {x}) = Part(d, s \ {x})
  BY PartSame
<1>4. c[x] \in Int /\ d[x] \in Int /\ Part(c, s \ {x}) \in Int
  BY PartInt, FS_RemoveElement DEF IntsOn
<1> QED BY <1>1, <1>2, <1>3, <1>4

\* One more number.
LEMMA SumMore ==
  ASSUME NEW c, NEW d, IntsOn(c), IntsOn(d), NEW x, x \notin DOMAIN c,
         DOMAIN d = DOMAIN c \cup {x}, \A k \in DOMAIN c : c[k] = d[k]
  PROVE  Sum(d) = Sum(c) + d[x]
<1> DEFINE s == DOMAIN c
<1>1. DOMAIN d \ {x} = s
  OBVIOUS
<1>2. Sum(d) = Part(d, s) + d[x]
  BY <1>1, SumPart, PartRemove DEF IntsOn
<1>3. Part(c, s) = Part(d, s)
  BY PartSame
<1> QED BY <1>2, <1>3, SumPart DEF IntsOn

\* The same numbers.
LEMMA SumSame ==
  ASSUME NEW c, NEW d, IsFiniteSet(DOMAIN c), DOMAIN d = DOMAIN c,
         \A k \in DOMAIN c : c[k] = d[k]
  PROVE  Sum(c) = Sum(d)
BY SumPart, PartSame

\* The numbers under other names.
LEMMA SumRenamed ==
  ASSUME NEW c, NEW d, IntsOn(c), IntsOn(d), NEW f,
         \A k \in DOMAIN d : f[k] \in DOMAIN c /\ c[f[k]] = d[k],
         \A j, k \in DOMAIN d : f[j] = f[k] => j = k,
         \A i \in DOMAIN c : \E k \in DOMAIN d : f[k] = i
  PROVE  Sum(c) = Sum(d)
<1> DEFINE s == DOMAIN d
           At(t) == {f[k] : k \in t}
           P == {n \in Nat : \A t \in SUBSET s :
                   Cardinality(t) = n => Part(d, t) = Part(c, At(t))}
<1>1. \A t \in SUBSET s : IsFiniteSet(t) /\ Cardinality(t) \in Nat
        /\ (Cardinality(t) = 0 <=> t = {})
  BY FS_Subset, FS_CardinalityType, FS_EmptySet DEF IntsOn
<1>2. 0 \in P
  <2>1. \A t \in SUBSET s : Cardinality(t) = 0 => t = {} /\ At(t) = {}
    BY <1>1
  <2> HIDE DEF At
  <2> QED BY <2>1, PartEmpty
<1>3. ASSUME NEW n \in Nat, n \in P PROVE n + 1 \in P
  <2> SUFFICES ASSUME NEW t \in SUBSET s, Cardinality(t) = n + 1
               PROVE  Part(d, t) = Part(c, At(t))
    OBVIOUS
  <2> DEFINE p == Picked(t)
  <2>1. p \in t /\ Part(d, t) = Part(d, t \ {p}) + d[p]
    BY <1>1, PickedIn, PartStep
  <2> HIDE DEF p
  <2>2. t \ {p} \in SUBSET s /\ Cardinality(t \ {p}) = n
    BY <1>1, <2>1, OneLess
  <2>3. At(t) \subseteq DOMAIN c /\ f[p] \in At(t) /\ c[f[p]] = d[p]
    BY <2>1
  <2>4. At(t \ {p}) = At(t) \ {f[p]}
    BY <2>1
  <2> HIDE DEF At
  <2>5. IsFiniteSet(At(t)) /\ \A k \in At(t) : c[k] \in Int
    BY <2>3, FS_Subset DEF IntsOn
  <2>6. Part(c, At(t)) = Part(c, At(t) \ {f[p]}) + c[f[p]]
    BY <2>3, <2>5, PartRemove
  <2>7. Part(d, t \ {p}) = Part(c, At(t \ {p}))
    BY <1>3, <2>2
  <2> QED BY <2>1, <2>3, <2>4, <2>6, <2>7
<1>4. At(s) = DOMAIN c
  OBVIOUS
<1> HIDE DEF P, At
<1>5. Cardinality(s) \in P
  BY <1>1, <1>2, <1>3, AllNumbers
<1>6. Part(d, s) = Part(c, At(s))
  BY <1>5 DEF P
<1> QED BY <1>4, <1>6, SumPart DEF IntsOn

\* Lists of numbers.
LEMMA SumAppend ==
  ASSUME NEW c, NEW d, IsSeq(c), IsSeq(d), NEW n, Len(d) = Len(c) + 1, d[Len(d)] = n,
         n \in Int, \A k \in DOMAIN c : c[k] \in Int /\ d[k] = c[k]
  PROVE  Sum(d) = Sum(c) + n /\ Sum(c) \in Int
<1>1. DOMAIN c = 1 .. Len(c) /\ DOMAIN d = 1 .. Len(c) + 1 /\ Len(c) \in Nat
  BY IsSeqFacts
<1>2. IsFiniteSet(DOMAIN c) /\ IsFiniteSet(DOMAIN d)
  BY <1>1, FS_Interval
<1>3. IntsOn(c) /\ IntsOn(d)
  BY <1>1, <1>2 DEF IntsOn
<1>4. Len(d) \notin DOMAIN c /\ DOMAIN d = DOMAIN c \cup {Len(d)}
  BY <1>1
<1> QED
  BY <1>3, <1>4, SumMore, SumInt

-----------------------------------------------------------------------------
(* Cells                                                                   *)

\* The cells of a list of values, and of the frames of a stack.
ItemCells(s) == Sum([k \in DOMAIN s |-> CellsOf(s[k])])
StackCells(c) == Sum([i \in DOMAIN c |-> FrameCells(c[i])])

\* CellsOf counts the cells of a value, which is a tree, and value_delete frees
\* them all; what "return" makes is a list of another name.
Counted(V) ==
  /\ CellsOf(Null) = 0
  /\ \A v \in V :
       /\ CellsOf(v) \in Nat /\ FreedBy(v) = CellsOf(v)
       /\ v.type \in {"Empty", "Int", "Bool", "Double", "String", "FC_Break", "FC_Conti"} =>
            CellsOf(v) = 1
       /\ v.type = "List" => CellsOf(v) = 1 + ItemCells(v.l)
       /\ v.type = "Object" =>
            /\ IsFiniteSet(DOMAIN v.o)
            /\ CellsOf(v) = 1 + Sum([name \in DOMAIN v.o |-> CellsOf(v.o[name])])
  /\ \A l \in Seq(V) : CellsOf(FCReturn(l)) = 1 + ItemCells(l)

\* The cells of a value are a number, and all of them are freed with it.
LEMMA CellsInt ==
  ASSUME NEW V, Counted(V), NEW v \in V
  PROVE  CellsOf(v) \in Int /\ FreedBy(v) \in Int /\ FreedBy(v) = CellsOf(v)
<1>1. CellsOf(v) \in Nat /\ FreedBy(v) = CellsOf(v)
  BY DEF Counted
<1> QED BY <1>1

\* An empty list of values, and an empty stack.
LEMMA NoItems == ItemCells(<<>>) = 0 /\ StackCells(<<>>) = 0
BY EmptyIsSeq, SumNone DEF ItemCells, StackCells

\* One more item.
LEMMA MoreItems ==
  ASSUME NEW V, Counted(V), NEW s \in Seq(V), NEW v \in V
  PROVE  ItemCells(s) \in Int /\ ItemCells(Append(s, v)) = ItemCells(s) + CellsOf(v)
<1> DEFINE t == Append(s, v)
           c == [k \in DOMAIN s |-> CellsOf(s[k])]
           d == [k \in DOMAIN t |-> CellsOf(t[k])]
<1>1. IsSeq(s) /\ Len(s) \in Nat /\ DOMAIN s = 1 .. Len(s) /\ \A k \in DOMAIN s : s[k] \in V
  BY SeqIsSeq, IsSeqFacts, LenProperties
<1>2. /\ Len(t) = Len(s) + 1 /\ DOMAIN t = 1 .. Len(s) + 1 /\ t[Len(s) + 1] = v
      /\ \A k \in DOMAIN s : t[k] = s[k]
  BY <1>1, AppendFacts
<1> HIDE DEF t
<1>3. c \in Seq(Int) /\ d \in Seq(Int) /\ Len(c) = Len(s) /\ Len(d) = Len(s) + 1
  <2>1. \A k \in DOMAIN s : CellsOf(s[k]) \in Int
    BY <1>1, CellsInt
  <2>2. \A k \in DOMAIN t : CellsOf(t[k]) \in Int
    BY <1>1, <1>2, CellsInt
  <2>3. c \in [1 .. Len(s) -> Int] /\ d \in [1 .. Len(s) + 1 -> Int]
    BY <1>1, <1>2, <2>1, <2>2
  <2> HIDE DEF c, d
  <2>4. Len(s) + 1 \in Nat
    BY <1>1
  <2>5. c \in Seq(Int) /\ d \in Seq(Int)
    BY <1>1, <2>3, <2>4, SeqDef
  <2>6. DOMAIN c = 1 .. Len(s) /\ DOMAIN d = 1 .. Len(s) + 1 /\ DOMAIN c = 1 .. Len(c)
        /\ DOMAIN d = 1 .. Len(d) /\ Len(c) \in Nat /\ Len(d) \in Nat
    BY <2>3, <2>5, LenProperties
  <2> QED BY <1>1, <2>4, <2>5, <2>6, IntervalLength
<1>4. IsSeq(c) /\ IsSeq(d)
  BY <1>3, SeqIsSeq
<1>5. /\ DOMAIN c = DOMAIN s /\ \A k \in DOMAIN s : c[k] \in Int /\ d[k] = c[k]
      /\ d[Len(d)] = CellsOf(v) /\ CellsOf(v) \in Int
  BY <1>1, <1>2, <1>3 DEF Counted
<1>6. Sum(d) = Sum(c) + CellsOf(v) /\ Sum(c) \in Int
  <2> HIDE DEF c, d
  <2> QED BY <1>3, <1>4, <1>5, SumAppend
<1> QED BY <1>6 DEF ItemCells, t

\* The only item.
LEMMA SingleItem ==
  ASSUME NEW V, Counted(V), NEW v \in V
  PROVE  ItemCells(<<v>>) = CellsOf(v)
<1>1. <<>> \in Seq(V) /\ <<v>> = Append(<<>>, v)
  BY EmptySeq
<1>2. ItemCells(<<v>>) = ItemCells(<<>>) + CellsOf(v)
  BY <1>1, MoreItems
<1> QED BY <1>2, NoItems, CellsInt

\* value_list_add
LEMMA AddedItemCells ==
  ASSUME NEW V, Counted(V), NEW s \in Seq(V), NEW v \in V
  PROVE  ItemCells(value_list_add(s, v)) = ItemCells(s) + CellsOf(v)
BY MoreItems DEF value_list_add, Counted

\* What a place may get consists of cells.
LEMMA YieldCells ==
  ASSUME NEW V, Counted(V), LoopExits \subseteq V, NEW v \in Yields(V)
  PROVE  CellsOf(v) \in Int /\ (v.type # "FC_Return" => v \in V /\ FreedBy(v) = CellsOf(v))
<1>1. CASE v \in V
  BY <1>1, CellsInt
<1>2. CASE v \in Returns(V)
  <2>1. PICK l \in Seq(V) : v = FCReturn(l)
    BY <1>2 DEF Returns
  <2>2. \A k \in DOMAIN l : CellsOf(l[k]) \in Int
    BY LenProperties, CellsInt
  <2>3. IntsOn([k \in DOMAIN l |-> CellsOf(l[k])])
    <3>1. IsFiniteSet(DOMAIN l)
      BY LenProperties, FS_Interval
    <3> QED BY <2>2, <3>1 DEF IntsOn
  <2>4. ItemCells(l) \in Int
    BY <2>3, SumInt DEF ItemCells
  <2>5. CellsOf(v) = 1 + ItemCells(l) /\ v.type = "FC_Return"
    BY <2>1 DEF Counted, FCReturn
  <2> QED BY <2>4, <2>5
<1> QED BY <1>1, <1>2 DEF Yields

\* The cells of a frame.
LEMMA FrameCellsInt ==
  ASSUME NEW V, Counted(V), NEW f, VFrame(V, f)
  PROVE  /\ FrameCells(f) \in Int
         /\ FrameCells(f) = (IF f.pc = "item" THEN 1 ELSE 0) + ItemCells(f.held)
         /\ ItemCells(f.held) \in Int
<1>1. f.held \in Seq(V)
  BY DEF VFrame
<1>2. \A k \in DOMAIN f.held : CellsOf(f.held[k]) \in Int
  BY <1>1, LenProperties, CellsInt
<1>3. IsFiniteSet(DOMAIN f.held)
  <2>1. DOMAIN f.held = 1 .. Len(f.held) /\ Len(f.held) \in Nat
    BY <1>1, LenProperties
  <2> QED BY <2>1, FS_Interval
<1>4. IntsOn([k \in DOMAIN f.held |-> CellsOf(f.held[k])])
  BY <1>2, <1>3 DEF IntsOn
<1>5. ItemCells(f.held) \in Int
  BY <1>4, SumInt DEF ItemCells
<1> QED BY <1>5 DEF FrameCells, ItemCells

\* One more frame.
LEMMA MoreFrames ==
  ASSUME NEW V, Counted(V), NEW c, IsSeq(c), \A i \in DOMAIN c : VFrame(V, c[i]),
         NEW d, IsSeq(d), Len(d) = Len(c) + 1, \A i \in DOMAIN c : d[i] = c[i],
         VFrame(V, d[Len(d)])
  PROVE  /\ StackCells(c) \in Int /\ FrameCells(d[Len(d)]) \in Int
         /\ StackCells(d) = StackCells(c) + FrameCells(d[Len(d)])
<1> DEFINE a == [i \in DOMAIN c |-> FrameCells(c[i])]
           b == [i \in DOMAIN d |-> FrameCells(d[i])]
<1>1. /\ DOMAIN c = 1 .. Len(c) /\ DOMAIN d = 1 .. Len(d) /\ Len(c) \in Nat
  BY IsSeqFacts
<1>2. \A i \in DOMAIN c : FrameCells(c[i]) \in Int
  BY FrameCellsInt
<1>3. FrameCells(d[Len(d)]) \in Int
  BY FrameCellsInt
<1>4. DOMAIN a = DOMAIN c /\ DOMAIN b = DOMAIN c \cup {Len(d)} /\ Len(d) \notin DOMAIN c
  BY <1>1
<1>5. \A i \in DOMAIN a : a[i] \in Int /\ b[i] = a[i]
  BY <1>1, <1>2
<1>6. b[Len(d)] = FrameCells(d[Len(d)])
  BY <1>1
<1>7. IsFiniteSet(DOMAIN a) /\ IsFiniteSet(DOMAIN b)
  <2>1. IsFiniteSet(DOMAIN c) /\ IsFiniteSet(DOMAIN d) /\ DOMAIN b = DOMAIN d
    BY <1>1, FS_Interval
  <2> QED BY <1>4, <2>1
<1> HIDE DEF a, b
<1>8. IntsOn(a) /\ IntsOn(b)
  BY <1>3, <1>4, <1>5, <1>6, <1>7 DEF IntsOn
<1>9. Sum(b) = Sum(a) + b[Len(d)] /\ Sum(a) \in Int
  BY <1>4, <1>5, <1>8, SumMore, SumInt
<1> QED BY <1>3, <1>6, <1>9 DEF StackCells, a, b

-----------------------------------------------------------------------------
(* The cells of the variables                                              *)

GoodLevel(V, level) == StoredLevel(V, level) /\ IsFiniteSet(DOMAIN level)
GoodSpace(V, vs) == IsSeq(vs) /\ \A l \in DOMAIN vs : GoodLevel(V, vs[l])
GoodSpaces(V, sp) == IsSeq(sp) /\ \A k \in DOMAIN sp : GoodSpace(V, sp[k])

\* The domain of a list is finite.
LEMMA SeqFinite ==
  ASSUME NEW s, IsSeq(s)
  PROVE  IsFiniteSet(DOMAIN s)
BY IsSeqFacts, FS_Interval

\* The cells of the variables of a level are a number,
LEMMA LevelInts ==
  ASSUME NEW V, Counted(V), NEW level, GoodLevel(V, level)
  PROVE  /\ IntsOn([name \in DOMAIN level |-> FreedBy(level[name])])
         /\ LevelCells(level) \in Int
<1>1. \A name \in DOMAIN level : FreedBy(level[name]) \in Int
  BY CellsInt DEF GoodLevel, StoredLevel
<1>2. IntsOn([name \in DOMAIN level |-> FreedBy(level[name])])
  BY <1>1 DEF GoodLevel, IntsOn
<1> QED BY <1>2, SumInt DEF LevelCells

\* those of a space,
LEMMA SpaceInts ==
  ASSUME NEW V, Counted(V), NEW vs, GoodSpace(V, vs)
  PROVE  /\ IntsOn([l \in DOMAIN vs |-> LevelCells(vs[l])])
         /\ SpaceCells(vs) \in Int
<1>1. \A l \in DOMAIN vs : LevelCells(vs[l]) \in Int
  BY LevelInts DEF GoodSpace
<1>2. IsFiniteSet(DOMAIN vs)
  BY SeqFinite DEF GoodSpace
<1>3. IntsOn([l \in DOMAIN vs |-> LevelCells(vs[l])])
  BY <1>1, <1>2 DEF IntsOn
<1> QED BY <1>3, SumInt DEF SpaceCells

\* and those of all spaces.
LEMMA AllInts ==
  ASSUME NEW V, Counted(V), NEW sp, GoodSpaces(V, sp)
  PROVE  /\ IntsOn([k \in DOMAIN sp |-> SpaceCells(sp[k])])
         /\ AllCells(sp) \in Int
<1>1. \A k \in DOMAIN sp : SpaceCells(sp[k]) \in Int
  BY SpaceInts DEF GoodSpaces
<1>2. IsFiniteSet(DOMAIN sp)
  BY SeqFinite DEF GoodSpaces
<1>3. IntsOn([k \in DOMAIN sp |-> SpaceCells(sp[k])])
  BY <1>1, <1>2 DEF IntsOn
<1> QED BY <1>3, SumInt DEF AllCells

\* One level more, and one less.
LEMMA MoreLevels ==
  ASSUME NEW V, Counted(V), NEW vs, GoodSpace(V, vs), NEW ws, GoodSpace(V, ws),
         Len(ws) = Len(vs) + 1, \A l \in DOMAIN vs : ws[l] = vs[l]
  PROVE  /\ SpaceCells(vs) \in Int /\ LevelCells(ws[Len(ws)]) \in Int
         /\ SpaceCells(ws) = SpaceCells(vs) + LevelCells(ws[Len(ws)])
<1> DEFINE a == [l \in DOMAIN vs |-> LevelCells(vs[l])]
           b == [l \in DOMAIN ws |-> LevelCells(ws[l])]
<1>1. DOMAIN vs = 1 .. Len(vs) /\ DOMAIN ws = 1 .. Len(ws) /\ Len(vs) \in Nat
  BY IsSeqFacts DEF GoodSpace
<1>2. /\ Len(ws) \notin DOMAIN a /\ DOMAIN b = DOMAIN a \cup {Len(ws)}
      /\ \A l \in DOMAIN a : a[l] = b[l]
      /\ b[Len(ws)] = LevelCells(ws[Len(ws)]) /\ Len(ws) \in DOMAIN b
  BY <1>1
<1>3. IntsOn(a) /\ IntsOn(b) /\ Sum(a) = SpaceCells(vs) /\ Sum(b) = SpaceCells(ws)
  BY SpaceInts DEF SpaceCells
<1> HIDE DEF a, b
<1>4. Sum(b) = Sum(a) + b[Len(ws)] /\ b[Len(ws)] \in Int
  <2>1. b[Len(ws)] \in Int
    BY <1>2, <1>3 DEF IntsOn
  <2> QED BY <1>2, <1>3, <2>1, SumMore
<1> QED BY <1>2, <1>3, <1>4, SpaceInts

\* One space more, and one less.
LEMMA MoreSpaces ==
  ASSUME NEW V, Counted(V), NEW sp, GoodSpaces(V, sp), NEW tp, GoodSpaces(V, tp),
         Len(tp) = Len(sp) + 1, \A k \in DOMAIN sp : tp[k] = sp[k]
  PROVE  /\ AllCells(sp) \in Int /\ SpaceCells(tp[Len(tp)]) \in Int
         /\ AllCells(tp) = AllCells(sp) + SpaceCells(tp[Len(tp)])
<1> DEFINE a == [l \in DOMAIN sp |-> SpaceCells(sp[l])]
           b == [l \in DOMAIN tp |-> SpaceCells(tp[l])]
<1>1. DOMAIN sp = 1 .. Len(sp) /\ DOMAIN tp = 1 .. Len(tp) /\ Len(sp) \in Nat
  BY IsSeqFacts DEF GoodSpaces
<1>2. /\ Len(tp) \notin DOMAIN a /\ DOMAIN b = DOMAIN a \cup {Len(tp)}
      /\ \A l \in DOMAIN a : a[l] = b[l]
      /\ b[Len(tp)] = SpaceCells(tp[Len(tp)]) /\ Len(tp) \in DOMAIN b
  BY <1>1
<1>3. IntsOn(a) /\ IntsOn(b) /\ Sum(a) = AllCells(sp) /\ Sum(b) = AllCells(tp)
  BY AllInts DEF AllCells
<1> HIDE DEF a, b
<1>4. Sum(b) = Sum(a) + b[Len(tp)] /\ b[Len(tp)] \in Int
  <2>1. b[Len(tp)] \in Int
    BY <1>2, <1>3 DEF IntsOn
  <2> QED BY <1>2, <1>3, <2>1, SumMore
<1> QED BY <1>2, <1>3, <1>4, AllInts

\* Another level, and another space, in the place of one.
LEMMA OtherLevel ==
  ASSUME NEW V, Counted(V), NEW vs, GoodSpace(V, vs), NEW l \in DOMAIN vs,
         NEW x, GoodLevel(V, x)
  PROVE  /\ GoodSpace(V, [vs EXCEPT ![l] = x])
         /\ SpaceCells(vs) \in Int /\ LevelCells(vs[l]) \in Int /\ LevelCells(x) \in Int
         /\ SpaceCells([vs EXCEPT ![l] = x]) = SpaceCells(vs) - LevelCells(vs[l]) + LevelCells(x)
<1> DEFINE ws == [vs EXCEPT ![l] = x]
           a == [i \in DOMAIN vs |-> LevelCells(vs[i])]
           b == [i \in DOMAIN ws |-> LevelCells(ws[i])]
<1>1. /\ IsSeq(ws) /\ DOMAIN ws = DOMAIN vs
      /\ \A i \in DOMAIN vs : ws[i] = IF i = l THEN x ELSE vs[i]
  BY ExceptFacts DEF GoodSpace
<1> HIDE DEF ws
<1>2. GoodSpace(V, ws)
  BY <1>1 DEF GoodSpace
<1>3. /\ DOMAIN b = DOMAIN a /\ l \in DOMAIN a /\ \A i \in DOMAIN a \ {l} : a[i] = b[i]
      /\ a[l] = LevelCells(vs[l]) /\ b[l] = LevelCells(x)
  BY <1>1
<1>4. IntsOn(a) /\ IntsOn(b) /\ Sum(a) = SpaceCells(vs) /\ Sum(b) = SpaceCells(ws)
  BY <1>2, SpaceInts DEF SpaceCells
<1> HIDE DEF a, b
<1>5. Sum(b) = Sum(a) - a[l] + b[l] /\ a[l] \in Int /\ b[l] \in Int
  <2>1. a[l] \in Int /\ b[l] \in Int
    BY <1>3, <1>4 DEF IntsOn
  <2> QED BY <1>3, <1>4, <2>1, SumChange
<1> QED BY <1>2, <1>3, <1>4, <1>5, SpaceInts DEF ws

\* A space is replaced by another.
LEMMA OtherSpace ==
  ASSUME NEW V, Counted(V), NEW sp, GoodSpaces(V, sp), NEW k \in DOMAIN sp,
         NEW vs, GoodSpace(V, vs)
  PROVE  /\ GoodSpaces(V, [sp EXCEPT ![k] = vs])
         /\ AllCells(sp) \in Int /\ SpaceCells(sp[k]) \in Int /\ SpaceCells(vs) \in Int
         /\ AllCells([sp EXCEPT ![k] = vs]) = AllCells(sp) - SpaceCells(sp[k]) + SpaceCells(vs)
<1> DEFINE tp == [sp EXCEPT ![k] = vs]
           a == [i \in DOMAIN sp |-> SpaceCells(sp[i])]
           b == [i \in DOMAIN tp |-> SpaceCells(tp[i])]
<1>1. /\ IsSeq(tp) /\ DOMAIN tp = DOMAIN sp
      /\ \A i \in DOMAIN sp : tp[i] = IF i = k THEN vs ELSE sp[i]
  BY ExceptFacts DEF GoodSpaces
<1> HIDE DEF tp
<1>2. GoodSpaces(V, tp)
  BY <1>1 DEF GoodSpaces
<1>3. /\ DOMAIN b = DOMAIN a /\ k \in DOMAIN a /\ \A i \in DOMAIN a \ {k} : a[i] = b[i]
      /\ a[k] = SpaceCells(sp[k]) /\ b[k] = SpaceCells(vs)
  BY <1>1
<1>4. IntsOn(a) /\ IntsOn(b) /\ Sum(a) = AllCells(sp) /\ Sum(b) = AllCells(tp)
  BY <1>2, AllInts DEF AllCells
<1> HIDE DEF a, b
<1>5. Sum(b) = Sum(a) - a[k] + b[k] /\ a[k] \in Int /\ b[k] \in Int
  <2>1. a[k] \in Int /\ b[k] \in Int
    BY <1>3, <1>4 DEF IntsOn
  <2> QED BY <1>3, <1>4, <2>1, SumChange
<1> QED BY <1>2, <1>3, <1>4, <1>5, AllInts DEF tp

\* A call: copies of the arguments in a space of their own.
LEMMA AddSpaceCells ==
  ASSUME NEW X, NEW V, Closed(X, V), Counted(V), NEW sp, GoodSpaces(V, sp), NEW v \in V
  PROVE  /\ GoodSpaces(V, kfs_lang_env_add_space(sp, v))
         /\ AllCells(sp) \in Int /\ LevelCells(variables_new(v)) \in Int
         /\ AllCells(kfs_lang_env_add_space(sp, v))
              = AllCells(sp) + LevelCells(variables_new(v))
<1> DEFINE level == variables_new(v)
           vs == <<level>>
           tp == Append(sp, vs)
<1>1. GoodLevel(V, level)
  <2>1. StoredLevel(V, level)
    BY StoredArguments
  <2>2. DOMAIN level = IF v.type = "Object" THEN DOMAIN v.o ELSE {}
    BY DEF variables_new, EmptyDict
  <2>3. IsFiniteSet(DOMAIN level)
    BY <2>2, FS_EmptySet DEF Counted
  <2> QED BY <2>1, <2>3 DEF GoodLevel
<1> HIDE DEF level
<1>2. vs = Append(<<>>, level) /\ Len(vs) = 1 /\ vs[1] = level
  OBVIOUS
<1>3. IsSeq(vs) /\ DOMAIN vs = 1 .. 1
  BY OneLevel, IsSeqFacts
<1>4. GoodSpace(V, vs) /\ GoodSpace(V, <<>>) /\ SpaceCells(<<>>) = 0
  BY <1>1, <1>2, <1>3, EmptyIsSeq, SumNone DEF GoodSpace, SpaceCells
<1> HIDE DEF vs
<1>5. SpaceCells(vs) = LevelCells(level)
  <2>1. Len(<<>>) = 0 /\ Len(vs) = Len(<<>>) + 1
    BY <1>2
  <2>2. \A l \in DOMAIN <<>> : vs[l] = <<>>[l]
    BY EmptyIsSeq
  <2>3. SpaceCells(vs) = SpaceCells(<<>>) + LevelCells(vs[Len(vs)])
    BY <1>4, <2>1, <2>2, MoreLevels
  <2>4. LevelCells(level) \in Int
    BY <1>1, LevelInts
  <2> QED BY <1>2, <1>4, <2>3, <2>4
<1>6. IsSeq(sp)
  BY DEF GoodSpaces
<1>7. /\ IsSeq(tp) /\ Len(tp) = Len(sp) + 1 /\ DOMAIN tp = 1 .. Len(sp) + 1
      /\ \A k \in DOMAIN sp : tp[k] = sp[k]
      /\ tp[Len(sp) + 1] = vs /\ DOMAIN sp = 1 .. Len(sp) /\ Len(sp) \in Nat
  BY <1>6, AppendFacts, IsSeqFacts
<1> HIDE DEF tp
<1>8. GoodSpaces(V, tp)
  BY <1>4, <1>7 DEF GoodSpaces
<1>9. AllCells(tp) = AllCells(sp) + SpaceCells(vs)
  BY <1>7, <1>8, MoreSpaces
<1>10. kfs_lang_env_add_space(sp, v) = tp
  BY DEF kfs_lang_env_add_space, tp, vs, level
<1> QED BY <1>1, <1>5, <1>8, <1>9, <1>10, AllInts, LevelInts DEF level

\* The end of a call.
LEMMA RemoveSpaceCells ==
  ASSUME NEW V, Counted(V), NEW sp, GoodSpaces(V, sp), IsSpaces(sp)
  PROVE  /\ GoodSpaces(V, kfs_lang_env_remove_space(sp))
         /\ AllCells(sp) \in Int /\ SpaceCells(kfs_lang_env_actual_space(sp)) \in Int
         /\ AllCells(kfs_lang_env_remove_space(sp))
              = AllCells(sp) - SpaceCells(kfs_lang_env_actual_space(sp))
<1> DEFINE tp == Front(sp)
<1>1. /\ IsSeq(sp) /\ sp # <<>> /\ Len(sp) \in Nat \ {0} /\ DOMAIN sp = 1 .. Len(sp)
  BY LastSpace DEF IsSpaces
<1>2. /\ IsSeq(tp) /\ Len(tp) = Len(sp) - 1 /\ DOMAIN tp = 1 .. Len(sp) - 1
      /\ \A k \in DOMAIN tp : tp[k] = sp[k]
  BY <1>1, FrontFacts
<1> HIDE DEF tp
<1>3. GoodSpaces(V, tp)
  BY <1>1, <1>2 DEF GoodSpaces
<1>4. Len(sp) = Len(tp) + 1
  BY <1>1, <1>2
<1>5. /\ AllCells(tp) \in Int /\ SpaceCells(sp[Len(sp)]) \in Int
      /\ AllCells(sp) = AllCells(tp) + SpaceCells(sp[Len(sp)])
  BY <1>2, <1>3, <1>4, MoreSpaces
<1>6. kfs_lang_env_remove_space(sp) = tp
  BY <1>1 DEF kfs_lang_env_remove_space, tp
<1> QED BY <1>3, <1>5, <1>6 DEF kfs_lang_env_actual_space

\* A block.
LEMMA AddVarsCells ==
  ASSUME NEW V, Counted(V), NEW sp, GoodSpaces(V, sp), IsSpaces(sp)
  PROVE  /\ GoodSpaces(V, kfs_lang_env_space_add_vars(sp))
         /\ AllCells(kfs_lang_env_space_add_vars(sp)) = AllCells(sp)
<1> DEFINE n == Len(sp)
           vs == sp[n]
           ws == Append(vs, EmptyDict)
<1>1. n \in DOMAIN sp /\ IsSeq(vs)
  BY LastSpace
<1>2. GoodSpace(V, vs)
  BY <1>1 DEF GoodSpaces
<1>3. GoodLevel(V, EmptyDict) /\ LevelCells(EmptyDict) = 0
  <2>1. DOMAIN EmptyDict = {}
    BY DEF EmptyDict
  <2>2. DOMAIN [name \in DOMAIN EmptyDict |-> FreedBy(EmptyDict[name])] = {}
    BY <2>1
  <2> QED BY <2>1, <2>2, FS_EmptySet, SumNone DEF GoodLevel, StoredLevel, LevelCells
<1> HIDE DEF vs
<1>4. /\ IsSeq(ws) /\ Len(ws) = Len(vs) + 1 /\ DOMAIN ws = 1 .. Len(vs) + 1
      /\ \A l \in DOMAIN vs : ws[l] = vs[l]
      /\ ws[Len(vs) + 1] = EmptyDict /\ DOMAIN vs = 1 .. Len(vs) /\ Len(vs) \in Nat
  BY <1>1, AppendFacts, IsSeqFacts
<1> HIDE DEF ws
<1>5. GoodSpace(V, ws)
  BY <1>2, <1>3, <1>4 DEF GoodSpace
<1>6. SpaceCells(ws) = SpaceCells(vs)
  <2>1. SpaceCells(vs) \in Int /\ SpaceCells(ws) = SpaceCells(vs) + LevelCells(ws[Len(ws)])
    BY <1>2, <1>4, <1>5, MoreLevels
  <2> QED BY <1>3, <1>4, <2>1
<1>7. /\ GoodSpaces(V, [sp EXCEPT ![n] = ws]) /\ AllCells(sp) \in Int
      /\ SpaceCells(ws) \in Int
      /\ AllCells([sp EXCEPT ![n] = ws]) = AllCells(sp) - SpaceCells(vs) + SpaceCells(ws)
  <2> HIDE DEF n
  <2> QED BY <1>1, <1>5, OtherSpace DEF vs
<1>8. kfs_lang_env_space_add_vars(sp) = [sp EXCEPT ![n] = ws]
  BY DEF kfs_lang_env_space_add_vars, ws, vs
<1> HIDE DEF n
<1> QED BY <1>6, <1>7, <1>8

\* When the block ends, the cells of its level are gone.
LEMMA DelVarsCells ==
  ASSUME NEW V, Counted(V), NEW sp, GoodSpaces(V, sp), IsSpaces(sp)
  PROVE  /\ GoodSpaces(V, kfs_lang_env_space_del_vars(sp)) /\ AllCells(sp) \in Int
         /\ LevelCells(Last(kfs_lang_env_actual_space(sp))) \in Int
         /\ AllCells(kfs_lang_env_space_del_vars(sp))
              = AllCells(sp) - LevelCells(Last(kfs_lang_env_actual_space(sp)))
<1> DEFINE n == Len(sp)
           vs == sp[n]
           ws == Front(vs)
<1>1. n \in DOMAIN sp /\ IsSeq(vs) /\ vs # <<>>
  BY LastSpace
<1>2. GoodSpace(V, vs)
  BY <1>1 DEF GoodSpaces
<1> HIDE DEF vs
<1>3. /\ IsSeq(ws) /\ Len(ws) = Len(vs) - 1 /\ DOMAIN ws = 1 .. Len(vs) - 1
      /\ \A l \in DOMAIN ws : ws[l] = vs[l]
      /\ DOMAIN vs = 1 .. Len(vs) /\ Len(vs) \in Nat
  BY <1>1, FrontFacts, IsSeqFacts
<1> HIDE DEF ws
<1>4. GoodSpace(V, ws)
  BY <1>2, <1>3 DEF GoodSpace
<1>5. Len(vs) = Len(ws) + 1
  BY <1>3
<1>6. /\ SpaceCells(ws) \in Int /\ LevelCells(vs[Len(vs)]) \in Int
      /\ SpaceCells(vs) = SpaceCells(ws) + LevelCells(vs[Len(vs)])
  BY <1>2, <1>3, <1>4, <1>5, MoreLevels
<1>7. /\ GoodSpaces(V, [sp EXCEPT ![n] = ws]) /\ AllCells(sp) \in Int
      /\ AllCells([sp EXCEPT ![n] = ws]) = AllCells(sp) - SpaceCells(vs) + SpaceCells(ws)
  <2> HIDE DEF n
  <2> QED BY <1>1, <1>4, OtherSpace DEF vs
<1>8. kfs_lang_env_space_del_vars(sp) = [sp EXCEPT ![n] = ws]
  BY <1>1 DEF kfs_lang_env_space_del_vars, ws, vs
<1>9. Last(kfs_lang_env_actual_space(sp)) = vs[Len(vs)]
  BY DEF Last, kfs_lang_env_actual_space, vs
<1> HIDE DEF n
<1> QED BY <1>6, <1>7, <1>8, <1>9

\* An assignment.
LEMMA SetLevelCells ==
  ASSUME NEW V, Counted(V), Null \in V, NEW level, GoodLevel(V, level), NEW name, NEW v \in V
  PROVE  /\ GoodLevel(V, dict_set(level, name, v))
         /\ LevelCells(level) \in Int /\ FreedBy(dict_get(level, name)) \in Int
         /\ LevelCells(dict_set(level, name, v))
              = LevelCells(level) - FreedBy(dict_get(level, name)) + FreedBy(v)
<1> DEFINE x == dict_set(level, name, v)
           a == [y \in DOMAIN level |-> FreedBy(level[y])]
           b == [y \in DOMAIN x |-> FreedBy(x[y])]
<1>1. /\ DOMAIN x = DOMAIN level \cup {name} /\ x[name] = v
      /\ \A y \in DOMAIN level \ {name} : x[y] = level[y]
  BY DEF dict_set
<1> HIDE DEF x
<1>2. GoodLevel(V, x)
  <2>1. StoredLevel(V, x)
    BY <1>1 DEF GoodLevel, StoredLevel
  <2>2. IsFiniteSet(DOMAIN x)
    BY <1>1, FS_AddElement DEF GoodLevel
  <2> QED BY <2>1, <2>2 DEF GoodLevel
<1>3. IntsOn(a) /\ IntsOn(b) /\ Sum(a) = LevelCells(level) /\ Sum(b) = LevelCells(x)
  BY <1>2, LevelInts DEF LevelCells
<1>4. /\ DOMAIN a = DOMAIN level /\ DOMAIN b = DOMAIN level \cup {name}
      /\ b[name] = FreedBy(v) /\ \A y \in DOMAIN level \ {name} : a[y] = b[y]
      /\ name \in DOMAIN level => a[name] = FreedBy(level[name])
  BY <1>1
<1>5. FreedBy(v) \in Int /\ FreedBy(Null) = 0
  BY CellsInt DEF Counted
<1>6. Sum(a) \in Int
  BY <1>3, SumInt
<1> HIDE DEF a, b
<1>7. CASE name \in DOMAIN level
  <2>1. dict_get(level, name) = level[name] /\ DOMAIN b = DOMAIN a
    BY <1>4, <1>7 DEF dict_get
  <2>2. Sum(b) = Sum(a) - a[name] + b[name]
    BY <1>3, <1>4, <1>7, <2>1, SumChange
  <2>3. a[name] \in Int
    BY <1>3, <1>4, <1>7 DEF IntsOn
  <2> QED BY <1>2, <1>3, <1>4, <1>6, <1>7, <2>1, <2>2, <2>3 DEF x
<1>8. CASE name \notin DOMAIN level
  <2>1. dict_get(level, name) = Null
    BY <1>8 DEF dict_get
  <2>2. Sum(b) = Sum(a) + b[name]
    BY <1>3, <1>4, <1>8, SumMore
  <2> QED BY <1>2, <1>3, <1>4, <1>5, <1>6, <2>1, <2>2 DEF x
<1> QED BY <1>7, <1>8

\* kfs_lang_set_var: the cells of a variable are replaced.
LEMMA SetVarCells ==
  ASSUME NEW V, Counted(V), Null \in V, NEW sp, GoodSpaces(V, sp), IsSpaces(sp),
         NEW name, NEW v \in V,
         NEW old, old = Overwritten(kfs_lang_env_actual_space(sp), name)
  PROVE  /\ GoodSpaces(V, kfs_lang_set_var(sp, name, v))
         /\ AllCells(sp) \in Int /\ FreedBy(old) \in Int
         /\ AllCells(kfs_lang_set_var(sp, name, v)) = AllCells(sp) - FreedBy(old) + FreedBy(v)
<1> DEFINE n == Len(sp)
           vs == sp[n]
           l == AssignedLevel(vs, name)
           x == dict_set(vs[l], name, v)
           ws == [vs EXCEPT ![l] = x]
<1>1. n \in DOMAIN sp /\ IsSeq(vs) /\ vs # <<>> /\ Len(vs) \in Nat \ {0}
  BY LastSpace
<1>2. GoodSpace(V, vs)
  BY <1>1 DEF GoodSpaces
<1>3. l \in DOMAIN vs
  <2> DEFINE holders == {k \in DOMAIN vs : name \in DOMAIN vs[k]}
  <2>1. DOMAIN vs = 1 .. Len(vs)
    BY <1>1, IsSeqFacts
  <2>2. l = IF holders = {} THEN Len(vs) ELSE Max(holders)
    BY DEF AssignedLevel
  <2>3. holders # {} => Max(holders) \in holders
    <3>1. holders \subseteq 1 .. Len(vs)
      BY <2>1
    <3> HIDE DEF holders, vs
    <3> QED BY <1>1, <3>1, GreatestExists
  <2> HIDE DEF l, vs
  <2> QED BY <1>1, <2>1, <2>2, <2>3
<1>4. old = dict_get(vs[l], name)
  BY <1>1 DEF Overwritten, kfs_lang_env_actual_space
<1>5. kfs_lang_set_var(sp, name, v) = [sp EXCEPT ![n] = ws]
  BY DEF kfs_lang_set_var, var_stack_set
<1> HIDE DEF l, vs
<1>6. GoodLevel(V, vs[l])
  BY <1>2, <1>3 DEF GoodSpace
<1>7. /\ GoodLevel(V, x) /\ LevelCells(vs[l]) \in Int /\ FreedBy(old) \in Int
      /\ LevelCells(x) = LevelCells(vs[l]) - FreedBy(old) + FreedBy(v)
  BY <1>4, <1>6, SetLevelCells
<1> HIDE DEF x
<1>8. /\ GoodSpace(V, ws) /\ SpaceCells(vs) \in Int /\ LevelCells(x) \in Int
      /\ SpaceCells(ws) = SpaceCells(vs) - LevelCells(vs[l]) + LevelCells(x)
  BY <1>2, <1>3, <1>7, OtherLevel
<1> HIDE DEF ws
<1>9. /\ GoodSpaces(V, [sp EXCEPT ![n] = ws]) /\ AllCells(sp) \in Int
      /\ AllCells([sp EXCEPT ![n] = ws]) = AllCells(sp) - SpaceCells(vs) + SpaceCells(ws)
  <2> HIDE DEF n
  <2> QED BY <1>1, <1>8, OtherSpace DEF vs
<1>10. FreedBy(v) \in Int
  BY CellsInt
<1> HIDE DEF n
<1> QED BY <1>5, <1>7, <1>8, <1>9, <1>10

-----------------------------------------------------------------------------
(* Who owns the cells                                                      *)

\* What a frame holds: items of a list, or the first operand.
HeldFrame(f) ==
  /\ f.pc \notin {"item", "left held", "right held"} => f.held = <<>>
  /\ f.pc \in {"left held", "right held"} => Len(f.held) = 1

Owned == stranded + AllCells(spaces) + CellsOf(ret) + StackCells(ctl)
           + (IF phase = "done" THEN 0 ELSE 1)

OInv(V) ==
  phase # "crashed" =>
    /\ live \in Int /\ stranded \in Int
    /\ GoodSpaces(V, spaces)
    /\ \A i \in DOMAIN ctl : HeldFrame(ctl[i])
    /\ phase # "return" => ret = Null
    /\ live = Owned

\* The assumptions on trees and values, and the invariants they are used with.
Trusted(X, C, V) ==
  Parsed(X, C) /\ Closed(X, V) /\ Counted(V) /\ LoopExits \subseteq V
Invs(X, C, V) == IInv /\ PInv(X, C) /\ VInv(X, V) /\ OInv(V)

\* The cells of the frames are a number.
LEMMA StackInt ==
  ASSUME NEW V, Counted(V), NEW c, IsSeq(c), \A i \in DOMAIN c : VFrame(V, c[i])
  PROVE  StackCells(c) \in Int
<1>1. \A i \in DOMAIN c : FrameCells(c[i]) \in Int
  BY FrameCellsInt
<1>2. IntsOn([i \in DOMAIN c |-> FrameCells(c[i])])
  BY <1>1, SeqFinite DEF IntsOn
<1> QED BY <1>2, SumInt DEF StackCells

\* The amounts are numbers.
LEMMA Amounts ==
  ASSUME NEW X, NEW C, NEW V, Trusted(X, C, V), Invs(X, C, V),
         phase \notin {"done", "crashed"}
  PROVE  /\ IsSeq(ctl) /\ IsSpaces(spaces) /\ GoodSpaces(V, spaces)
         /\ StackCells(ctl) \in Int /\ AllCells(spaces) \in Int
         /\ CellsOf(ret) \in Int /\ live \in Int /\ stranded \in Int
         /\ live = stranded + AllCells(spaces) + CellsOf(ret) + StackCells(ctl) + 1
<1>1. IsSeq(ctl) /\ IsSpaces(spaces)
  BY DEF Invs, IInv, Stacks, Typed
<1>2. GoodSpaces(V, spaces) /\ live \in Int /\ stranded \in Int /\ live = Owned
  BY DEF Invs, OInv
<1>3. AllCells(spaces) \in Int
  BY <1>2, AllInts DEF Trusted
<1>4. StackCells(ctl) \in Int
  BY <1>1, StackInt DEF Trusted, Invs, VInv
<1>5. CellsOf(ret) \in Int
  <2>1. CASE phase = "return"
    BY <2>1, YieldCells DEF Trusted, Invs, VInv, VPlace
  <2>2. CASE phase # "return"
    BY <2>2 DEF Trusted, Invs, OInv, Counted
  <2> QED BY <2>1, <2>2
<1> QED BY <1>1, <1>2, <1>3, <1>4, <1>5 DEF Owned

\* The frame on top, and those below it.
LEMMA TopAmounts ==
  ASSUME NEW X, NEW C, NEW V, Trusted(X, C, V), Invs(X, C, V), phase = "return", ctl # <<>>
  PROVE  /\ IsFrame(Top) /\ VFrame(V, Top) /\ HeldFrame(Top) /\ IsSeq(Front(ctl))
         /\ \A i \in DOMAIN Front(ctl) : VFrame(V, Front(ctl)[i]) /\ HeldFrame(Front(ctl)[i])
         /\ StackCells(Front(ctl)) \in Int /\ FrameCells(Top) \in Int
         /\ StackCells(ctl) = StackCells(Front(ctl)) + FrameCells(Top)
<1> DEFINE d == Front(ctl)
<1>1. IsFrame(Top) /\ IsSeq(ctl)
  BY TopFacts DEF Invs, Stacks, Typed
<1>2. /\ IsSeq(d) /\ Len(d) = Len(ctl) - 1 /\ DOMAIN d = 1 .. Len(ctl) - 1
      /\ \A i \in DOMAIN d : d[i] = ctl[i]
  BY <1>1, FrontFacts
<1>3. Len(ctl) \in Nat \ {0} /\ DOMAIN ctl = 1 .. Len(ctl) /\ Len(ctl) \in DOMAIN ctl
  BY <1>1, IsSeqFacts
<1> HIDE DEF d
<1>4. \A i \in DOMAIN ctl : VFrame(V, ctl[i]) /\ HeldFrame(ctl[i])
  BY DEF Invs, VInv, OInv
<1>5. \A i \in DOMAIN d : VFrame(V, d[i]) /\ HeldFrame(d[i]) /\ ctl[i] = d[i]
  BY <1>2, <1>3, <1>4
<1>6. VFrame(V, Top) /\ HeldFrame(Top)
  BY <1>3, <1>4 DEF Top
<1>7. /\ StackCells(d) \in Int /\ FrameCells(ctl[Len(ctl)]) \in Int
      /\ StackCells(ctl) = StackCells(d) + FrameCells(ctl[Len(ctl)])
  <2>1. Len(ctl) = Len(d) + 1
    BY <1>2, <1>3
  <2> QED BY <1>1, <1>2, <1>3, <1>4, <1>5, <2>1, MoreFrames DEF Trusted
<1> QED BY <1>1, <1>2, <1>5, <1>6, <1>7 DEF Top, d

\* A frame with a value that is not the first operand or an item owns nothing.
LEMMA TopHolds ==
  ASSUME NEW V, Counted(V), NEW f, VFrame(V, f), HeldFrame(f)
  PROVE  /\ f.pc = "item" => FrameCells(f) = 1 + ItemCells(f.held) /\ ItemCells(f.held) \in Int
         /\ f.pc \notin {"item", "left held", "right held"} => FrameCells(f) = 0
         /\ f.pc \in {"left held", "right held"} =>
              f.held[1] \in V /\ FrameCells(f) = CellsOf(f.held[1])
<1>1. /\ FrameCells(f) = (IF f.pc = "item" THEN 1 ELSE 0) + ItemCells(f.held)
      /\ ItemCells(f.held) \in Int
  BY FrameCellsInt
<1>2. CASE f.pc = "item"
  BY <1>1, <1>2
<1>3. CASE f.pc \notin {"item", "left held", "right held"}
  <2>1. ItemCells(f.held) = 0
    BY <1>3, NoItems, Zenon DEF HeldFrame
  <2>2. FrameCells(f) = 0 + ItemCells(f.held)
    BY <1>1, <1>3
  <2>3. FrameCells(f) = 0
    BY ONLY <2>1, <2>2
  <2> QED BY ONLY <1>3, <2>3
<1>4. CASE f.pc \in {"left held", "right held"}
  <2>1. f.held \in Seq(V) /\ Len(f.held) = 1
    BY <1>4 DEF VFrame, HeldFrame
  <2>2. f.held = <<f.held[1]>> /\ f.held[1] \in V
    BY <2>1
  <2>3. ItemCells(<<f.held[1]>>) = CellsOf(f.held[1]) /\ CellsOf(f.held[1]) \in Int
    BY <2>2, SingleItem, CellsInt
  <2>4. ItemCells(f.held) = CellsOf(f.held[1])
    BY <2>2, <2>3, Zenon
  <2>5. FrameCells(f) = 0 + ItemCells(f.held)
    BY <1>1, <1>4
  <2>6. FrameCells(f) = CellsOf(f.held[1])
    BY <2>3, <2>4, <2>5
  <2> QED BY <1>4, <2>2, <2>6
<1> QED BY <1>2, <1>3, <1>4

-----------------------------------------------------------------------------
(* The ways in which a step moves cells                                    *)

\* The call returns at once: the new value is all that is allocated.
LEMMA OYield ==
  ASSUME NEW X, NEW C, NEW V, Trusted(X, C, V), Invs(X, C, V), phase = "eval",
         NEW v, CellsOf(v) \in Int, Yield(v), spaces' = spaces,
         live' = live + CellsOf(v), stranded' = stranded
  PROVE  OInv(V)'
<1>1. phase' = "return" /\ ret' = v /\ ctl' = ctl
  BY DEF Yield
<1>2. CellsOf(ret) = 0 /\ \A i \in DOMAIN ctl : HeldFrame(ctl[i])
  BY DEF Invs, OInv, Trusted, Counted
<1>3. StackCells(ctl)' = StackCells(ctl) /\ AllCells(spaces)' = AllCells(spaces)
  BY <1>1 DEF StackCells, AllCells
<1>4. live' \in Int /\ live' = Owned'
  BY <1>1, <1>2, <1>3, Amounts DEF Owned
<1> QED BY <1>1, <1>2, <1>4, Amounts DEF OInv

\* A new frame holds nothing, but for the cell of a list or object.
LEMMA OPush ==
  ASSUME NEW X, NEW C, NEW V, Trusted(X, C, V), Invs(X, C, V), VInv(X, V)', phase = "eval",
         NEW f, NEW child, Push(f, child), f.held = <<>>, f.pc \notin {"left held", "right held"},
         NEW sp2, spaces' = sp2, GoodSpaces(V, sp2), AllCells(sp2) = AllCells(spaces),
         live' = live + (IF f.pc = "item" THEN 1 ELSE 0), stranded' = stranded
  PROVE  OInv(V)'
<1> DEFINE c == Append(ctl, f)
<1>1. phase' = "eval" /\ ret' = Null /\ ctl' = c
  BY DEF Push, Descend
<1>2. CellsOf(ret) = 0 /\ CellsOf(Null) = 0 /\ \A i \in DOMAIN ctl : HeldFrame(ctl[i])
  BY DEF Invs, OInv, Trusted, Counted
<1>0. /\ IsSeq(ctl) /\ StackCells(ctl) \in Int /\ AllCells(spaces) \in Int
      /\ live \in Int /\ stranded \in Int
      /\ live = stranded + AllCells(spaces) + CellsOf(ret) + StackCells(ctl) + 1
  BY Amounts
<1>3. /\ IsSeq(c) /\ Len(c) = Len(ctl) + 1 /\ DOMAIN c = 1 .. Len(ctl) + 1
      /\ \A i \in DOMAIN ctl : c[i] = ctl[i]
      /\ c[Len(ctl) + 1] = f /\ DOMAIN ctl = 1 .. Len(ctl) /\ Len(ctl) \in Nat
  <2>1. DOMAIN ctl = 1 .. Len(ctl) /\ Len(ctl) \in Nat
    BY <1>0, IsSeqFacts
  <2>2. IsSeq(ctl)
    BY <1>0
  <2> QED BY ONLY <2>1, <2>2, AppendFacts
<1> HIDE DEF c
<1>4. \A i \in DOMAIN c : VFrame(V, c[i])
  BY <1>1 DEF VInv
<1>5. HeldFrame(f)
  BY DEF HeldFrame
<1>6. \A i \in DOMAIN c : HeldFrame(c[i])
  <2>1. \A i \in DOMAIN c : i \in DOMAIN ctl \/ i = Len(ctl) + 1
    BY ONLY <1>3
  <2> QED BY <1>2, <1>3, <1>5, <2>1
<1>7. FrameCells(f) = IF f.pc = "item" THEN 1 ELSE 0
  <2>1. VFrame(V, f)
    <3>1. Len(ctl) + 1 \in DOMAIN c
      BY ONLY <1>3
    <3> QED BY <1>3, <1>4, <3>1
  <2>2. FrameCells(f) = (IF f.pc = "item" THEN 1 ELSE 0) + ItemCells(f.held)
    BY <2>1, FrameCellsInt DEF Trusted
  <2>3. ItemCells(f.held) = 0
    BY NoItems, Zenon
  <2> QED BY ONLY <2>2, <2>3
<1>8. StackCells(c) = StackCells(ctl) + FrameCells(f)
  <2>1. \A i \in DOMAIN ctl : VFrame(V, ctl[i])
    BY DEF Invs, VInv
  <2>2. VFrame(V, c[Len(c)]) /\ c[Len(c)] = f
    <3>1. Len(ctl) + 1 \in DOMAIN c /\ Len(c) = Len(ctl) + 1
      BY ONLY <1>3
    <3> QED BY <1>3, <1>4, <3>1, Zenon
  <2>3. Counted(V)
    BY DEF Trusted
  <2>4. StackCells(c) = StackCells(ctl) + FrameCells(c[Len(c)])
    BY <1>0, <1>3, <2>1, <2>2, <2>3, MoreFrames
  <2> QED BY <2>2, <2>4
<1>9. StackCells(ctl)' = StackCells(c) /\ AllCells(spaces)' = AllCells(sp2)
  BY <1>1 DEF StackCells, AllCells
<1>10. live' \in Int /\ live' = Owned'
  <2>1. Owned' = stranded' + AllCells(sp2) + CellsOf(Null) + StackCells(c) + 1
    BY <1>1, <1>9 DEF Owned
  <2>6. FrameCells(f) \in Int
    BY ONLY <1>7
  <2>7. live' = live + (IF f.pc = "item" THEN 1 ELSE 0) /\ stranded' = stranded
    OBVIOUS
  <2>2. live' = live + FrameCells(f) /\ stranded' = stranded /\ FrameCells(f) \in Int
    BY <1>7, <2>6, <2>7, Zenon
  <2>3. AllCells(sp2) = AllCells(spaces) /\ CellsOf(ret) = 0 /\ CellsOf(Null) = 0
    BY <1>2
  <2>4. live' \in Int
    BY ONLY <1>0, <2>2
  <2>5. live' = stranded' + AllCells(sp2) + CellsOf(Null) + StackCells(c) + 1
    BY ONLY <1>0, <1>8, <2>2, <2>3
  <2> QED BY <2>1, <2>4, <2>5, Zenon
<1> QED BY <1>1, <1>6, <1>10, Amounts DEF OInv

\* The frame on top goes, with what it holds and got; v is returned.
LEMMA OPop ==
  ASSUME NEW X, NEW C, NEW V, Trusted(X, C, V), Invs(X, C, V), phase = "return", ctl # <<>>,
         NEW v, CellsOf(v) \in Int, Pop(v),
         NEW sp2, spaces' = sp2, GoodSpaces(V, sp2),
         NEW lost \in Int, stranded' = stranded + lost,
         live' = live + lost + CellsOf(v) - CellsOf(ret) - FrameCells(Top)
                   + AllCells(sp2) - AllCells(spaces)
  PROVE  OInv(V)'
<1> DEFINE c == Front(ctl)
<1>1. phase' = "return" /\ ret' = v /\ ctl' = c
  BY DEF Pop
<1>2. /\ \A i \in DOMAIN c : HeldFrame(c[i])
      /\ StackCells(c) \in Int /\ FrameCells(Top) \in Int
      /\ StackCells(ctl) = StackCells(c) + FrameCells(Top)
  BY TopAmounts
<1> HIDE DEF c
<1>3. StackCells(ctl)' = StackCells(c) /\ AllCells(spaces)' = AllCells(sp2)
  BY <1>1 DEF StackCells, AllCells
<1>4. AllCells(sp2) \in Int
  BY AllInts DEF Trusted
<1>5. live' \in Int /\ stranded' \in Int /\ live' = Owned'
  <2>1. Owned' = stranded' + AllCells(sp2) + CellsOf(v) + StackCells(c) + 1
    BY <1>1, <1>3 DEF Owned
  <2>2. /\ StackCells(ctl) \in Int /\ AllCells(spaces) \in Int /\ CellsOf(ret) \in Int
        /\ live \in Int /\ stranded \in Int
        /\ live = stranded + AllCells(spaces) + CellsOf(ret) + StackCells(ctl) + 1
    BY Amounts
  <2>3. /\ live' = live + lost + CellsOf(v) - CellsOf(ret) - FrameCells(Top)
                     + AllCells(sp2) - AllCells(spaces)
        /\ stranded' = stranded + lost /\ lost \in Int /\ CellsOf(v) \in Int
    OBVIOUS
  <2>4. /\ StackCells(c) \in Int /\ FrameCells(Top) \in Int
        /\ StackCells(ctl) = StackCells(c) + FrameCells(Top)
    BY <1>2
  <2>5. live' \in Int /\ stranded' \in Int
    BY ONLY <1>4, <2>2, <2>3, <2>4
  <2>6. live' = stranded' + AllCells(sp2) + CellsOf(v) + StackCells(c) + 1
    BY ONLY <1>4, <2>2, <2>3, <2>4
  <2> QED BY <2>1, <2>5, <2>6, Zenon
<1> QED BY <1>1, <1>2, <1>5 DEF OInv

\* The frame on top becomes f; what it got is held by f, or freed.
LEMMA OSwitch ==
  ASSUME NEW X, NEW C, NEW V, Trusted(X, C, V), Invs(X, C, V), VInv(X, V)', phase = "return",
         ctl # <<>>, NEW f, NEW child, Switch(f, child), HeldFrame(f),
         NEW sp2, spaces' = sp2, GoodSpaces(V, sp2), stranded' = stranded,
         live' = live + FrameCells(f) - CellsOf(ret) - FrameCells(Top)
                   + AllCells(sp2) - AllCells(spaces)
  PROVE  OInv(V)'
<1> DEFINE d == Front(ctl)
           c == Append(d, f)
<1>1. phase' = "eval" /\ ret' = Null /\ ctl' = c
  BY DEF Switch, Descend
<1>2. /\ IsSeq(d) /\ \A i \in DOMAIN d : VFrame(V, d[i]) /\ HeldFrame(d[i])
      /\ StackCells(d) \in Int /\ FrameCells(Top) \in Int
      /\ StackCells(ctl) = StackCells(d) + FrameCells(Top)
  BY TopAmounts
<1> HIDE DEF d
<1>3. /\ IsSeq(c) /\ Len(c) = Len(d) + 1 /\ DOMAIN c = 1 .. Len(d) + 1
      /\ \A i \in DOMAIN d : c[i] = d[i]
      /\ c[Len(d) + 1] = f /\ DOMAIN d = 1 .. Len(d) /\ Len(d) \in Nat
  BY <1>2, AppendFacts, IsSeqFacts
<1> HIDE DEF c
<1>4. \A i \in DOMAIN c : VFrame(V, c[i])
  BY <1>1 DEF VInv
<1>5. \A i \in DOMAIN c : HeldFrame(c[i])
  BY <1>2, <1>3
<1>6. StackCells(c) = StackCells(d) + FrameCells(f) /\ FrameCells(f) \in Int
  BY <1>2, <1>3, <1>4, MoreFrames DEF Trusted
<1>7. StackCells(ctl)' = StackCells(c) /\ AllCells(spaces)' = AllCells(sp2)
  BY <1>1 DEF StackCells, AllCells
<1>8. AllCells(sp2) \in Int /\ CellsOf(Null) = 0
  BY AllInts DEF Trusted, Counted
<1>9. live' \in Int /\ live' = Owned'
  <2>1. Owned' = stranded' + AllCells(sp2) + CellsOf(Null) + StackCells(c) + 1
    BY <1>1, <1>7 DEF Owned
  <2>2. /\ StackCells(ctl) \in Int /\ AllCells(spaces) \in Int /\ CellsOf(ret) \in Int
        /\ live \in Int /\ stranded \in Int
        /\ live = stranded + AllCells(spaces) + CellsOf(ret) + StackCells(ctl) + 1
    BY Amounts
  <2>3. /\ live' = live + FrameCells(f) - CellsOf(ret) - FrameCells(Top)
                     + AllCells(sp2) - AllCells(spaces)
        /\ stranded' = stranded
    OBVIOUS
  <2>4. /\ StackCells(d) \in Int /\ FrameCells(Top) \in Int
        /\ StackCells(ctl) = StackCells(d) + FrameCells(Top)
    BY <1>2
  <2>5. live' \in Int
    BY ONLY <1>6, <1>8, <2>2, <2>3, <2>4
  <2>6. live' = stranded' + AllCells(sp2) + CellsOf(Null) + StackCells(c) + 1
    BY ONLY <1>6, <1>8, <2>2, <2>3, <2>4
  <2> QED BY <2>1, <2>5, <2>6, Zenon
<1> QED BY <1>1, <1>5, <1>9, Amounts DEF OInv

\* The process has ended.
LEMMA OCrash ==
  ASSUME NEW V, Crash
  PROVE  OInv(V)'
BY DEF Crash, OInv

\* An object of the values of the entries of an expression.
UniqueNames(e) ==
  \A j, k \in DOMAIN e.object : e.object[j].name = e.object[k].name => j = k

\* The grammar gives the entries of an object different names.
LEMMA ObjectNames ==
  ASSUME NEW X, NEW C, Parsed(X, C), NEW e \in C, e.type = "eObjectVALUE"
  PROVE  UniqueNames(e)
<1>1. e \in X => ExprNode(e, X)
  BY DEF Parsed
<1>2. \/ e \in X
      \/ e.type \in {"eBREAK", "eCONTI"}
      \/ InputNode(e, X, C, C, C)
  BY DEF Parsed
<1> QED
  BY <1>1, <1>2 DEF ExprNode, InputNode, BinaryTypes, UniqueNames

\* Such an object has one cell and those of the values.
LEMMA ObjectCells ==
  ASSUME NEW X, NEW V, Closed(X, V), Counted(V), NEW e \in X, e.type = "eObjectVALUE",
         IsSeq(e.object), UniqueNames(e), NEW held \in Seq(V), Len(held) = Len(e.object)
  PROVE  /\ value_new_object(Entries(e, held)) \in V
         /\ CellsOf(value_new_object(Entries(e, held))) = 1 + ItemCells(held)
<1> DEFINE o == Entries(e, held)
           v == value_new_object(o)
           n == Len(held)
           f == [k \in 1 .. n |-> e.object[k].name]
           c == [name \in DOMAIN o |-> CellsOf(o[name])]
           d == [k \in DOMAIN held |-> CellsOf(held[k])]
<1>1. /\ n \in Nat /\ DOMAIN e.object = 1 .. n /\ DOMAIN held = 1 .. n
      /\ \A k \in 1 .. n : held[k] \in V
  BY IsSeqFacts, LenProperties
<1>2. DOMAIN o = Names(e)
  BY DEF Entries, Names
<1>3. \A k \in 1 .. n : f[k] \in DOMAIN o /\ o[f[k]] = held[k]
  <2> SUFFICES ASSUME NEW k \in 1 .. n
               PROVE  f[k] \in DOMAIN o /\ o[f[k]] = held[k]
    OBVIOUS
  <2>1. f[k] = e.object[k].name /\ k \in DOMAIN e.object
    BY <1>1
  <2>2. (CHOOSE j \in DOMAIN e.object : e.object[j].name = e.object[k].name) = k
    BY <2>1 DEF UniqueNames
  <2>3. o[e.object[k].name] = held[k]
    BY <2>1, <2>2 DEF Entries
  <2> QED BY <1>2, <2>1, <2>3 DEF Names
<1>4. \A j, k \in 1 .. n : f[j] = f[k] => j = k
  BY <1>1 DEF UniqueNames
<1>5. \A name \in DOMAIN o : \E k \in 1 .. n : f[k] = name
  BY <1>1, <1>2 DEF Names
<1>6. o \in [Names(e) -> V]
  <2>1. \A name \in DOMAIN o : o[name] \in V
    <3> TAKE name \in DOMAIN o
    <3>1. PICK k \in 1 .. n : f[k] = name
      BY <1>5
    <3>2. o[f[k]] \in V
      BY <1>1, <1>3
    <3> QED BY <3>1, <3>2, Zenon
  <2>2. o = [name \in DOMAIN o |-> o[name]]
    BY DEF Entries
  <2> HIDE DEF o
  <2> QED BY <1>2, <2>1, <2>2
<1> HIDE DEF o, f
<1>7. v \in V /\ v.type = "Object" /\ v.o = o
  BY <1>6 DEF Closed, value_new_object
<1> HIDE DEF v
<1>8. CellsOf(v) = 1 + Sum(c) /\ IsFiniteSet(DOMAIN o)
  BY <1>7 DEF Counted
<1>9. IntsOn(c) /\ IntsOn(d)
  <2>1. \A name \in DOMAIN o : CellsOf(o[name]) \in Int
    BY <1>6, CellsInt
  <2>2. \A k \in DOMAIN held : CellsOf(held[k]) \in Int
    BY <1>1, CellsInt
  <2>3. IsFiniteSet(DOMAIN held)
    BY <1>1, FS_Interval
  <2> QED BY <1>8, <2>1, <2>2, <2>3 DEF IntsOn
<1>10. /\ \A k \in DOMAIN d : f[k] \in DOMAIN c /\ c[f[k]] = d[k]
       /\ DOMAIN d = 1 .. n /\ DOMAIN c = DOMAIN o
  BY <1>1, <1>3
<1> HIDE DEF c, d
<1>11. Sum(c) = Sum(d)
  <2>1. \A j, k \in DOMAIN d : f[j] = f[k] => j = k
    BY <1>4, <1>10
  <2>2. \A i \in DOMAIN c : \E k \in DOMAIN d : f[k] = i
    BY <1>5, <1>10
  <2>3. \A k \in DOMAIN d : f[k] \in DOMAIN c /\ c[f[k]] = d[k]
    BY <1>10
  <2> QED BY ONLY <1>9, <2>1, <2>2, <2>3, SumRenamed
<1>12. Sum(d) = ItemCells(held)
  BY DEF ItemCells, d
<1>13. v \in V /\ CellsOf(v) = 1 + ItemCells(held)
  BY <1>7, <1>8, <1>11, <1>12
<1> QED BY <1>13 DEF v, o

\* A new frame of the usual kind.
LEMMA OEnter ==
  ASSUME NEW X, NEW C, NEW V, Trusted(X, C, V), Invs(X, C, V), VInv(X, V)', phase = "eval",
         NEW pc, NEW fn, NEW child, pc \notin {"left held", "right held"},
         \/ Push(Frame(pc), child)
         \/ Push([Frame(pc) EXCEPT !.n = 1], child)
         \/ Push([Frame(pc) EXCEPT !.fn = fn], child),
         UNCHANGED env, live' = live + (IF pc = "item" THEN 1 ELSE 0), stranded' = stranded
  PROVE  OInv(V)'
<1> DEFINE a == Frame(pc)
           b == [Frame(pc) EXCEPT !.n = 1]
           c == [Frame(pc) EXCEPT !.fn = fn]
<1>1. /\ a.pc = pc /\ a.held = <<>>
      /\ b.pc = pc /\ b.held = <<>>
      /\ c.pc = pc /\ c.held = <<>>
  BY DEF Frame
<1>2. Push(a, child) \/ Push(b, child) \/ Push(c, child)
  OBVIOUS
<1> HIDE DEF a, b, c
<1>3. PICK f : Push(f, child) /\ f.pc = pc /\ f.held = <<>>
  BY <1>1, <1>2
<1>4. GoodSpaces(V, spaces) /\ spaces' = spaces
  BY Amounts DEF env
<1> QED BY <1>3, <1>4, OPush

\* The frame on top returns v; no variable changes.
LEMMA OGive ==
  ASSUME NEW X, NEW C, NEW V, Trusted(X, C, V), Invs(X, C, V), phase = "return", ctl # <<>>,
         NEW v \in Yields(V), Pop(v), UNCHANGED env, stranded' = stranded,
         live' = live + CellsOf(v) - CellsOf(ret) - FrameCells(Top)
  PROVE  OInv(V)'
<1>1. GoodSpaces(V, spaces) /\ spaces' = spaces /\ AllCells(spaces) \in Int /\ stranded \in Int
  BY Amounts DEF env
<1>2. CellsOf(v) \in Int
  BY YieldCells DEF Trusted
<1>3. live \in Int /\ CellsOf(ret) \in Int /\ FrameCells(Top) \in Int
  BY Amounts, TopAmounts
<1>4. live' = live + CellsOf(v) - CellsOf(ret) - FrameCells(Top)
  OBVIOUS
<1>5. live' = live + 0 + CellsOf(v) - CellsOf(ret) - FrameCells(Top)
                + AllCells(spaces) - AllCells(spaces)
  BY ONLY <1>1, <1>2, <1>3, <1>4
<1>6. stranded' = stranded + 0
  BY <1>1
<1> DEFINE zero == 0
<1>7. zero \in Int /\ stranded' = stranded + zero
      /\ live' = live + zero + CellsOf(v) - CellsOf(ret) - FrameCells(Top)
                   + AllCells(spaces) - AllCells(spaces)
  BY <1>5, <1>6
<1> HIDE DEF zero
<1> QED BY <1>1, <1>2, <1>7, OPop

\* The frame on top goes on; what it got is freed.
LEMMA OGoOn ==
  ASSUME NEW X, NEW C, NEW V, Trusted(X, C, V), Invs(X, C, V), VInv(X, V)', phase = "return",
         ctl # <<>>, NEW pc, NEW n, NEW child,
         Top.pc \notin {"item", "left held", "right held"},
         pc \notin {"item", "left held", "right held"},
         \/ Switch([Top EXCEPT !.pc = pc, !.n = n], child)
         \/ Switch([Top EXCEPT !.pc = pc], child),
         UNCHANGED env, live' = live - CellsOf(ret), stranded' = stranded
  PROVE  OInv(V)'
<1> DEFINE a == [Top EXCEPT !.pc = pc, !.n = n]
           b == [Top EXCEPT !.pc = pc]
<1>1. IsFrame(Top) /\ VFrame(V, Top) /\ HeldFrame(Top) /\ IsSeq(Front(ctl))
  BY TopAmounts
<1>2. a.pc = pc /\ a.held = Top.held /\ b.pc = pc /\ b.held = Top.held
  BY <1>1 DEF IsFrame
<1>3. Switch(a, child) \/ Switch(b, child)
  OBVIOUS
<1> HIDE DEF a, b
<1>4. PICK f : Switch(f, child) /\ f.pc = pc /\ f.held = Top.held
  BY <1>2, <1>3
<1>5. Top.held = <<>>
  BY <1>1 DEF HeldFrame
<1>6. HeldFrame(f)
  BY <1>4, <1>5 DEF HeldFrame
<1>7. FrameCells(Top) = 0
  BY <1>1, TopHolds DEF Trusted
<1>8. FrameCells(f) = 0
  <2>1. f \in {x \in {f} : VFrame(V, x)}
    <3> DEFINE d == Front(ctl)
    <3> HIDE DEF d
    <3>1. ctl' = Append(d, f) /\ IsSeq(d)
      BY <1>1, <1>4 DEF Switch, Descend, d
    <3>2. Len(d) + 1 \in DOMAIN Append(d, f) /\ Append(d, f)[Len(d) + 1] = f
      BY ONLY <3>1, AppendFacts, IsSeqFacts
    <3>3. \A i \in DOMAIN ctl' : VFrame(V, ctl'[i])
      BY DEF VInv
    <3>4. VFrame(V, f)
      BY <3>1, <3>2, <3>3
    <3> QED BY <3>4
  <2> QED BY <1>4, <1>6, <2>1, TopHolds DEF Trusted
<1>9. /\ GoodSpaces(V, spaces) /\ spaces' = spaces /\ AllCells(spaces) \in Int
      /\ live \in Int /\ CellsOf(ret) \in Int
  BY Amounts DEF env
<1>10. live' = live - CellsOf(ret)
  OBVIOUS
<1>11. live' = live + FrameCells(f) - CellsOf(ret) - FrameCells(Top)
                 + AllCells(spaces) - AllCells(spaces)
  BY ONLY <1>7, <1>8, <1>9, <1>10
<1> QED BY <1>4, <1>6, <1>9, <1>11, OSwitch

-----------------------------------------------------------------------------
(* One step per action                                                     *)

\* Values of one cell.
LEMMA OneCell ==
  ASSUME NEW X, NEW C, NEW V, Trusted(X, C, V)
  PROVE  /\ Null \in V /\ CellsOf(Null) = 0
         /\ \A n \in Int : value_new_int(n) \in V /\ CellsOf(value_new_int(n)) = 1
         /\ \A b \in BOOLEAN : value_new_bool(b) \in V /\ CellsOf(value_new_bool(b)) = 1
         /\ value_new_double \in V /\ CellsOf(value_new_double) = 1
         /\ \A v \in LoopExits : v \in V /\ CellsOf(v) = 1
<1>1. /\ Null \in V /\ CellsOf(Null) = 0 /\ value_new_double \in V
      /\ \A n \in Int : value_new_int(n) \in V
      /\ \A b \in BOOLEAN : value_new_bool(b) \in V
      /\ \A v \in LoopExits : v \in V
  BY DEF Trusted, Closed, Counted
<1>2. \A v \in V : v.type \in {"Int", "Bool", "Double", "FC_Break", "FC_Conti"} => CellsOf(v) = 1
  BY DEF Trusted, Counted
<1>3. /\ \A n : value_new_int(n).type = "Int"
      /\ \A b : value_new_bool(b).type = "Bool"
      /\ value_new_double.type = "Double"
      /\ \A v \in LoopExits : v.type \in {"FC_Break", "FC_Conti"}
  BY DEF value_new_int, value_new_bool, value_new_double, LoopExits, value_new
<1> QED BY <1>1, <1>2, <1>3

\* Expressions without operands.
LEMMA LeavesOwn ==
  ASSUME NEW X, NEW C, NEW V, Trusted(X, C, V), Invs(X, C, V), Leaves
  PROVE  OInv(V)'
<1>1. phase = "eval" /\ spaces' = spaces /\ cur \in C
  BY DEF Leaves, EvalNull, EvalLeaf, EvalString, EvalNothing, EvalVar, EvalIsEmpty,
         EvalFunctionDef, Evaluating, env, Invs, PInv, Starts
<1>2. live \in Int /\ stranded \in Int /\ IsSpaces(spaces)
  BY <1>1, Amounts
<1>3. cut \in [LiteralIds -> Nat] /\ Stored(V, spaces)
  BY DEF Invs, IInv, Rest, VInv
<1>4. Parsed(X, C) /\ Closed(X, V) /\ Counted(V)
  BY DEF Trusted
<1>5. ASSUME NEW v, CellsOf(v) = 1, Yield(v), Memory(1, 0)
      PROVE  OInv(V)'
  <2>1. live' = live + CellsOf(v) /\ stranded' = stranded
    BY <1>2, <1>5 DEF Memory
  <2>2. CellsOf(v) \in Int
    BY <1>5
  <2> QED BY <1>1, <1>5, <2>1, <2>2, OYield
<1>6. CASE EvalNull \/ EvalNothing \/ EvalFunctionDef
  <2>1. Yield(Null) /\ live' = live /\ stranded' = stranded
    BY <1>6 DEF EvalNull, EvalNothing, EvalFunctionDef, memory
  <2>2. CellsOf(Null) = 0
    BY OneCell
  <2>3. live' = live + CellsOf(Null) /\ CellsOf(Null) \in Int
    BY <1>2, <2>1, <2>2
  <2> DEFINE v == Null
  <2>4. live' = live + CellsOf(v) /\ CellsOf(v) \in Int /\ Yield(v)
    BY <2>1, <2>3
  <2> HIDE DEF v
  <2> QED BY <1>1, <2>1, <2>4, OYield
<1>7. CASE EvalLeaf
  <2> DEFINE v == LeafValue(cur)
  <2>1. Yield(v) /\ cur.type \in LeafTypes /\ Memory(1, 0)
    BY <1>7 DEF EvalLeaf, Evaluating
  <2>2. CellsOf(v) = 1
    <3>1. /\ cur.type = "eIntVALUE" => cur.lValue \in Int
          /\ cur.type = "eBoolVALUE" => cur.lValue \in BOOLEAN
      BY <1>1, <1>4, MoreTreeFacts
    <3>2. /\ cur.type = "eIntVALUE" => v = value_new_int(cur.lValue)
          /\ cur.type = "eDoubleVALUE" => v = value_new_double
          /\ cur.type = "eBoolVALUE" => v = value_new_bool(cur.lValue)
          /\ cur.type \in {"eBREAK", "eCONTI"} => v \in LoopExits
      BY DEF LeafValue, LoopExits
    <3> HIDE DEF v
    <3> QED BY <2>1, <3>1, <3>2, OneCell DEF LeafTypes
  <2> HIDE DEF v
  <2> QED BY <1>5, <2>1, <2>2
<1>8. CASE EvalString
  <2> DEFINE v == eval_string(cur, cut[cur.id])
  <2>1. Yield(v) /\ cur.type = "eStringVALUE" /\ Memory(1, 0)
    BY <1>8 DEF EvalString, Evaluating
  <2>2. cur \in X /\ cur.id \in LiteralIds
    BY <1>1, <1>4, <2>1, MoreTreeFacts
  <2>3. cut[cur.id] \in Nat
    BY <1>3, <2>2
  <2>4. v \in V
    BY <1>4, <2>1, <2>2, <2>3 DEF Closed
  <2>5. v.type = "String"
    BY DEF eval_string, value_new_string
  <2> HIDE DEF v
  <2>6. CellsOf(v) = 1
    BY <1>4, <2>4, <2>5 DEF Counted
  <2> QED BY <1>5, <2>1, <2>6
<1>9. CASE EvalVar
  <2> DEFINE v == Copy(kfs_lang_get_var(spaces, cur.str))
  <2>1. Yield(v) /\ Memory(CellsOf(v), 0)
    BY <1>9 DEF EvalVar
  <2>2. kfs_lang_get_var(spaces, cur.str) \in V
    BY <1>2, <1>3, <1>4, StoredGet
  <2>3. v \in V
    BY <1>4, <2>2 DEF Closed
  <2> HIDE DEF v
  <2>4. CellsOf(v) \in Int
    BY <1>4, <2>3, CellsInt
  <2>5. live' = live + CellsOf(v) /\ stranded' = stranded
    BY <1>2, <2>1, <2>4 DEF Memory
  <2> QED BY <1>1, <2>1, <2>4, <2>5, OYield
<1>10. CASE EvalIsEmpty
  <2> DEFINE b == kfs_lang_get_var(spaces, cur.str).type = "Empty"
             v == value_new_bool(b)
  <2>1. Yield(v) /\ b \in BOOLEAN /\ Memory(1, 0)
    BY <1>10 DEF EvalIsEmpty
  <2> HIDE DEF b
  <2>2. CellsOf(v) = 1
    BY <2>1, OneCell
  <2> HIDE DEF v
  <2> QED BY <1>5, <2>1, <2>2
<1> QED
  BY <1>6, <1>7, <1>8, <1>9, <1>10 DEF Leaves

\* Lists, objects and command lists.
LEMMA CollectionsOwn ==
  ASSUME NEW X, NEW C, NEW V, Trusted(X, C, V), Invs(X, C, V), VInv(X, V)', Collections
  PROVE  OInv(V)'
<1>0. Parsed(X, C) /\ Closed(X, V) /\ Counted(V) /\ LoopExits \subseteq V
  BY DEF Trusted
<1>1. CASE EvalEmptyList \/ EvalEmptyObject
  <2>1. PICK v \in {value_new_list(<<>>), value_new_object(EmptyDict)} :
          phase = "eval" /\ spaces' = spaces /\ Yield(v) /\ Memory(1, 0)
    BY <1>1 DEF EvalEmptyList, EvalEmptyObject, Evaluating, env
  <2>2. CellsOf(v) = 1
    <3>1. CASE v = value_new_list(<<>>)
      <4>1. v \in V /\ v.type = "List" /\ v.l = <<>>
        BY <1>0, <3>1, EmptySeq DEF Closed, value_new_list
      <4>2. CellsOf(v) = 1 + ItemCells(v.l)
        BY <1>0, <4>1 DEF Counted
      <4>3. ItemCells(v.l) = 0
        BY <4>1, NoItems, Zenon
      <4> QED BY <4>2, <4>3
    <3>2. CASE v = value_new_object(EmptyDict)
      <4>1. v \in V /\ v.type = "Object" /\ v.o = EmptyDict
        BY <1>0, <3>2 DEF Closed, value_new_object
      <4> DEFINE c == [name \in DOMAIN v.o |-> CellsOf(v.o[name])]
      <4>2. CellsOf(v) = 1 + Sum(c)
        BY <1>0, <4>1 DEF Counted
      <4>3. DOMAIN c = {}
        BY <4>1 DEF EmptyDict
      <4> HIDE DEF c
      <4>4. Sum(c) = 0
        BY <4>3, SumNone
      <4> QED BY <4>2, <4>4
    <3> QED BY <2>1, <3>1, <3>2
  <2>3. live \in Int /\ stranded \in Int
    BY <2>1, Amounts
  <2>4. live' = live + CellsOf(v) /\ stranded' = stranded /\ CellsOf(v) \in Int
    BY <2>1, <2>2, <2>3 DEF Memory
  <2> QED BY <2>1, <2>4, OYield
<1>2. CASE ListEnter \/ ObjectEnter
  <2> DEFINE pc == "item"
  <2>1. PICK child : /\ phase = "eval" /\ UNCHANGED env /\ Memory(1, 0)
                     /\ Push([Frame(pc) EXCEPT !.n = 1], child)
    BY <1>2 DEF ListEnter, ObjectEnter, Evaluating
  <2>2. live \in Int
    BY <2>1, Amounts
  <2>3. live' = live + (IF pc = "item" THEN 1 ELSE 0) /\ stranded' = stranded
    BY <2>1, <2>2 DEF Memory
  <2>4. pc \notin {"left held", "right held"}
    OBVIOUS
  <2> HIDE DEF pc
  <2> QED BY <2>1, <2>3, <2>4, OEnter
<1>3. CASE ListStop \/ ListNext \/ ListDone \/ ObjectNext \/ ObjectDone
  <2>1. /\ phase = "return" /\ ctl # <<>> /\ UNCHANGED env /\ spaces' = spaces
        /\ Top.pc = "item" /\ Top.e.type \in {"eListVALUE", "eObjectVALUE"}
    BY <1>3 DEF ListStop, ListNext, ListDone, ObjectNext, ObjectDone, Returned, env
  <2>2. /\ Top.e \in C /\ VFrame(V, Top) /\ VPlace(X, V, ctl, ret) /\ IsFrame(Top)
        /\ IsSeq(ctl)
    BY <2>1, VTop DEF Invs
  <2>3. /\ ret \in Yields(V)
        /\ Top.e \in X => ret \in V
    <3>1. Top.e \in X => ~CommandPlace(X, Top)
      BY <2>1 DEF CommandPlace, InBlock, InCall
    <3> QED BY <2>1, <2>2, <3>1 DEF VPlace, Top
  <2>4. ~IsFC(ret) => ret \in V
    BY <2>3 DEF IsFC, Yields, Returns, LoopExits, FCReturn, value_new
  <2>5. /\ Top.held \in Seq(V) /\ ItemCells(Top.held) \in Int
        /\ FrameCells(Top) = 1 + ItemCells(Top.held)
    <3>1. HeldFrame(Top)
      BY <2>1, TopAmounts
    <3> QED BY <1>0, <2>1, <2>2, <3>1, TopHolds DEF VFrame
  <2>6. live \in Int /\ CellsOf(ret) \in Int /\ GoodSpaces(V, spaces) /\ AllCells(spaces) \in Int
    BY <2>1, Amounts
  \* The next item: f is the frame with the items so far.
  <2>7. ASSUME NEW f, NEW child, Switch(f, child), f.pc = "item",
               f.held \in Seq(V), ItemCells(f.held) = ItemCells(Top.held) + CellsOf(ret),
               UNCHANGED memory
        PROVE  OInv(V)'
    <3>1. HeldFrame(f)
      BY <2>7 DEF HeldFrame
    <3>2. VFrame(V, f)
      <4> DEFINE d == Front(ctl)
      <4> HIDE DEF d
      <4>1. ctl' = Append(d, f) /\ IsSeq(d)
        BY <2>1, <2>2, <2>7, FrontFacts DEF Switch, Descend, d
      <4>2. Len(d) + 1 \in DOMAIN Append(d, f) /\ Append(d, f)[Len(d) + 1] = f
        BY ONLY <4>1, AppendFacts, IsSeqFacts
      <4>3. \A i \in DOMAIN ctl' : VFrame(V, ctl'[i])
        BY DEF VInv
      <4> QED BY <4>1, <4>2, <4>3
    <3>3. FrameCells(f) = 1 + ItemCells(f.held) /\ ItemCells(f.held) \in Int
      BY <1>0, <2>7, <3>1, <3>2, TopHolds
    <3>4. live' = live /\ stranded' = stranded
      BY <2>7 DEF memory
    <3>5. ItemCells(f.held) = ItemCells(Top.held) + CellsOf(ret)
      BY <2>7
    <3>6. live' = live + FrameCells(f) - CellsOf(ret) - FrameCells(Top)
                    + AllCells(spaces) - AllCells(spaces)
      BY ONLY <2>5, <2>6, <3>3, <3>4, <3>5
    <3> QED BY <2>1, <2>6, <2>7, <3>1, <3>4, <3>6, OSwitch
  \* The last item: v is made of all items.
  <2>8. ASSUME NEW v \in V, Pop(v), UNCHANGED memory,
               CellsOf(v) = 1 + (ItemCells(Top.held) + CellsOf(ret))
        PROVE  OInv(V)'
    <3>1. v \in Yields(V)
      BY DEF Yields
    <3>2. live' = live /\ stranded' = stranded
      BY <2>8 DEF memory
    <3>3. CellsOf(v) = 1 + (ItemCells(Top.held) + CellsOf(ret))
      BY <2>8
    <3>4. live' = live + CellsOf(v) - CellsOf(ret) - FrameCells(Top)
      BY ONLY <2>5, <2>6, <3>2, <3>3
    <3> QED BY <2>1, <2>8, <3>1, <3>2, <3>4, OGive
  <2>9. CASE ListStop
    <3> DEFINE w == value_new_list(Top.held)
    <3>1. Pop(ret) /\ live' = live + 0 - FreedBy(w) /\ stranded' = stranded
      BY <2>9 DEF ListStop, Memory
    <3>2. w \in V /\ w.type = "List" /\ w.l = Top.held
      BY <1>0, <2>5 DEF Closed, value_new_list
    <3> HIDE DEF w
    <3>3. CellsOf(w) = 1 + ItemCells(Top.held) /\ FreedBy(w) = CellsOf(w)
      BY <1>0, <3>2 DEF Counted
    <3>4. live' = live + CellsOf(ret) - CellsOf(ret) - FrameCells(Top)
      BY ONLY <2>5, <2>6, <3>1, <3>3
    <3> QED BY <2>1, <2>3, <3>1, <3>4, OGive
  <2>10. CASE ListNext
    <3> DEFINE n == Top.n + 1
               held == value_list_add(Top.held, ret)
               child == Top.e.list[Top.n + 1]
               f == [Top EXCEPT !.n = n, !.held = held]
    <3>1. Switch(f, child) /\ ~IsFC(ret) /\ UNCHANGED memory
      BY <2>2, <2>10 DEF ListNext, IsFrame
    <3>2. held \in Seq(V) /\ ItemCells(held) = ItemCells(Top.held) + CellsOf(ret)
      BY <1>0, <2>4, <2>5, <3>1, AddedItem, AddedItemCells
    <3>3. f.pc = "item" /\ f.held = held
      BY <2>1, <2>2 DEF IsFrame
    <3> HIDE DEF f, child, held
    <3> QED BY <2>7, <3>1, <3>2, <3>3
  <2>11. CASE ListDone
    <3> DEFINE held == value_list_add(Top.held, ret)
               v == value_new_list(held)
    <3>1. Pop(v) /\ ~IsFC(ret) /\ UNCHANGED memory
      BY <2>11 DEF ListDone
    <3>2. held \in Seq(V) /\ ItemCells(held) = ItemCells(Top.held) + CellsOf(ret)
      BY <1>0, <2>4, <2>5, <3>1, AddedItem, AddedItemCells
    <3> HIDE DEF held
    <3>3. v \in V /\ v.type = "List" /\ v.l = held
      BY <1>0, <3>2 DEF Closed, value_new_list
    <3> HIDE DEF v
    <3>4. CellsOf(v) = 1 + ItemCells(held)
      BY <1>0, <3>3 DEF Counted
    <3> QED BY <2>8, <3>1, <3>2, <3>3, <3>4
  <2>12. CASE ObjectNext \/ ObjectDone
    <3> DEFINE n == Top.n + 1
               held == Append(Top.held, ret)
    <3>1. Top.e.type = "eObjectVALUE"
      BY <2>12 DEF ObjectNext, ObjectDone, Returned
    <3>2. IsSeq(Top.e.object) /\ Top.e \in X /\ UniqueNames(Top.e)
      BY <1>0, <2>2, <3>1, TreeFacts, MoreTreeFacts, ObjectNames
    <3>3. Len(Top.e.object) \in Nat /\ DOMAIN Top.e.object = 1 .. Len(Top.e.object)
      BY <3>2, IsSeqFacts
    <3>4. Top.n \in 1 .. Len(Top.e.object) /\ Len(Top.held) = Top.n - 1
      BY <2>1, <2>2, <3>1 DEF VFrame
    <3>5. /\ held \in Seq(V) /\ Len(held) = Len(Top.held) + 1
          /\ ItemCells(held) = ItemCells(Top.held) + CellsOf(ret)
      BY <1>0, <2>3, <2>5, <3>2, AddedItem, MoreItems
    <3>6. CASE ObjectNext
      <4> DEFINE child == Top.e.object[Top.n + 1].data
                 f == [Top EXCEPT !.n = n, !.held = held]
      <4>1. Switch(f, child) /\ UNCHANGED memory
        BY <2>2, <3>6 DEF ObjectNext, IsFrame
      <4>2. f.pc = "item" /\ f.held = held
        BY <2>1, <2>2 DEF IsFrame
      <4> HIDE DEF f, held, child
      <4> QED BY <2>7, <3>5, <4>1, <4>2
    <3>7. CASE ObjectDone
      <4> DEFINE o == Entries(Top.e, held)
                 v == value_new_object(o)
      <4>1. Pop(v) /\ Top.n >= Len(Top.e.object) /\ UNCHANGED memory
        BY <3>7 DEF ObjectDone
      <4>2. Len(held) = Len(Top.e.object)
        BY <3>3, <3>4, <3>5, <4>1
      <4> HIDE DEF held
      <4>3. v \in V /\ CellsOf(v) = 1 + ItemCells(held)
        BY <1>0, <3>1, <3>2, <3>5, <4>2, ObjectCells
      <4> HIDE DEF v
      <4> QED BY <2>8, <3>5, <4>1, <4>3
    <3> QED BY <2>12, <3>6, <3>7
  <2> QED BY <1>3, <2>9, <2>10, <2>11, <2>12
<1> QED
  BY <1>1, <1>2, <1>3 DEF Collections


\* The only operand of an operator, or a condition: nothing else is held.
LEMMA OperandCells ==
  ASSUME NEW X, NEW C, NEW V, Trusted(X, C, V), Invs(X, C, V), phase = "return", ctl # <<>>,
         Top.pc \in {"apply", "index", "choose", "first", "again", "args"}
  PROVE  /\ ret \in V /\ FreedBy(ret) = CellsOf(ret) /\ FrameCells(Top) = 0
         /\ CellsOf(ret) \in Int /\ live \in Int /\ stranded \in Int
<1>1. ret \in V
  BY VOperand DEF Invs
<1>2. VFrame(V, Top) /\ HeldFrame(Top)
  BY TopAmounts
<1>3. FrameCells(Top) = 0
  BY <1>2, TopHolds DEF Trusted
<1> QED BY <1>1, <1>3, Amounts, CellsInt DEF Trusted

\* An operator with one operand takes it and gives v.
LEMMA OApply ==
  ASSUME NEW X, NEW C, NEW V, Trusted(X, C, V), Invs(X, C, V), phase = "return", ctl # <<>>,
         Top.pc \in {"apply", "index", "choose", "first", "again", "args"}, UNCHANGED env,
         NEW v \in Yields(V), Pop(v), live' = live + CellsOf(v) - CellsOf(ret),
         stranded' = stranded
  PROVE  OInv(V)'
<1>1. FrameCells(Top) = 0 /\ CellsOf(ret) \in Int /\ live \in Int
  BY OperandCells
<1>2. CellsOf(v) \in Int
  BY YieldCells DEF Trusted
<1>3. live' = live + CellsOf(v) - CellsOf(ret)
  OBVIOUS
<1>4. live' = live + CellsOf(v) - CellsOf(ret) - FrameCells(Top)
  BY ONLY <1>1, <1>2, <1>3
<1> QED BY <1>4, OGive

\* Outcome, for such an operator.
LEMMA OOutcome ==
  ASSUME NEW X, NEW C, NEW V, Trusted(X, C, V), Invs(X, C, V), phase = "return", ctl # <<>>,
         Top.pc = "apply", UNCHANGED env, NEW v \in V \cup {Wild}, Outcome(v, FreedBy(ret))
  PROVE  OInv(V)'
<1>1. CASE Crash
  BY <1>1, OCrash
<1>2. CASE v # Wild /\ Pop(v) /\ Memory(CellsOf(v), FreedBy(ret))
  <2>1. v \in Yields(V) /\ FreedBy(ret) = CellsOf(ret)
    BY <1>2, OperandCells DEF Yields
  <2>2. live' = live + CellsOf(v) - CellsOf(ret) /\ stranded' = stranded
    BY <1>2, <2>1 DEF Memory
  <2> QED BY <1>2, <2>1, <2>2, OApply
<1> QED BY <1>1, <1>2 DEF Outcome

\* Entering an operator, if or while: the new frame holds nothing yet.
LEMMA EntersOwn ==
  ASSUME NEW X, NEW C, NEW V, Trusted(X, C, V), Invs(X, C, V), VInv(X, V)',
         BinaryEnter \/ UnaryEnter \/ ArrayEnter \/ IfEnter \/ WhileEnter
  PROVE  OInv(V)'
<1>1. phase = "eval" /\ UNCHANGED <<env, memory>>
  BY DEF BinaryEnter, UnaryEnter, ArrayEnter, IfEnter, WhileEnter, Evaluating
<1>2. PICK pc : /\ pc \in {"left first", "right first", "apply", "index", "choose", "first"}
                /\ \E child : Push(Frame(pc), child)
  BY DEF BinaryEnter, UnaryEnter, ArrayEnter, IfEnter, WhileEnter
<1>3. PICK child : Push(Frame(pc), child)
  BY <1>2
<1>4. live' = live + (IF pc = "item" THEN 1 ELSE 0) /\ stranded' = stranded
  <2>1. live \in Int
    BY <1>1, Amounts
  <2>2. live' = live /\ stranded' = stranded
    BY <1>1 DEF memory
  <2>3. (IF pc = "item" THEN 1 ELSE 0) = 0
    BY <1>2
  <2> DEFINE n == IF pc = "item" THEN 1 ELSE 0
  <2> HIDE DEF n
  <2>4. n = 0
    BY <2>3 DEF n
  <2>5. live' = live + n
    BY ONLY <2>1, <2>2, <2>4
  <2> QED BY <2>2, <2>5 DEF n
<1>5. UNCHANGED env /\ pc \notin {"left held", "right held"}
  BY <1>1, <1>2
<1> QED BY <1>1, <1>3, <1>4, <1>5, OEnter

\* The first operand moves to the frame.
LEMMA BinarySecondOwns ==
  ASSUME NEW X, NEW C, NEW V, Trusted(X, C, V), Invs(X, C, V), VInv(X, V)', BinarySecond
  PROVE  OInv(V)'
<1>1. /\ phase = "return" /\ ctl # <<>> /\ UNCHANGED <<env, memory>>
      /\ Top.pc \in {"left first", "right first"}
  BY DEF BinarySecond, Returned
<1>2. PICK pc : /\ pc \in {"left held", "right held"}
                /\ \E child : Switch([Top EXCEPT !.pc = pc, !.held = <<ret>>], child)
  BY DEF BinarySecond
<1>3. PICK child : Switch([Top EXCEPT !.pc = pc, !.held = <<ret>>], child)
  BY <1>2
<1>4. ret \in V /\ IsFrame(Top) /\ VFrame(V, Top) /\ HeldFrame(Top)
  BY <1>1, VOperand, TopAmounts DEF Invs
<1> DEFINE held == <<ret>>
           f == [Top EXCEPT !.pc = pc, !.held = held]
<1>5. Len(held) = 1 /\ held[1] = ret /\ held \in Seq(V) /\ held # <<>>
  BY <1>4, OneItem
<1>6. Switch(f, child)
  BY <1>3
<1> HIDE DEF held
<1>7. f.pc = pc /\ f.held = held /\ f.n = Top.n /\ f.e = Top.e
  BY <1>4 DEF IsFrame
<1> HIDE DEF f
<1>8. HeldFrame(f) /\ VFrame(V, f)
  BY <1>2, <1>4, <1>5, <1>7 DEF HeldFrame, VFrame
<1>9. FrameCells(f) = CellsOf(f.held[1]) /\ FrameCells(Top) = 0
  BY <1>1, <1>2, <1>4, <1>7, <1>8, TopHolds DEF Trusted
<1>10. FrameCells(f) = CellsOf(ret)
  BY <1>5, <1>7, <1>9
<1>11. GoodSpaces(V, spaces) /\ spaces' = spaces /\ live' = live /\ stranded' = stranded
  BY <1>1, Amounts DEF env, memory
<1>12. AllCells(spaces) \in Int /\ live \in Int /\ CellsOf(ret) \in Int
  BY <1>1, Amounts
<1>13. FrameCells(Top) = 0 /\ live' = live
  BY <1>9, <1>11
<1>14. live' = live + FrameCells(f) - CellsOf(ret) - FrameCells(Top)
                 + AllCells(spaces) - AllCells(spaces)
  BY ONLY <1>10, <1>12, <1>13
<1> QED BY <1>1, <1>6, <1>8, <1>11, <1>14, OSwitch

\* Both operands are freed, and a value made of them is returned.
LEMMA BinaryApplyOwns ==
  ASSUME NEW X, NEW C, NEW V, Trusted(X, C, V), Invs(X, C, V), BinaryApply
  PROVE  OInv(V)'
<1>1. /\ phase = "return" /\ ctl # <<>> /\ UNCHANGED env /\ Top.e.type \in BinaryTypes
      /\ Top.pc \in {"left held", "right held"}
  BY DEF BinaryApply, Returned
<1> DEFINE w == Top.held[1]
<1>2. /\ ret \in V /\ VFrame(V, Top) /\ HeldFrame(Top) /\ FrameCells(Top) \in Int
      /\ live \in Int
  BY <1>1, VOperand, TopAmounts, Amounts DEF Invs
<1>3. w \in V /\ FrameCells(Top) = CellsOf(w)
  BY <1>1, <1>2, TopHolds DEF Trusted
<1>4. PICK v \in Binary(Top.e.type, w, ret) \cup Binary(Top.e.type, ret, w) :
        Outcome(v, FreedBy(w) + FreedBy(ret))
  BY DEF BinaryApply
<1> HIDE DEF w
<1>5. v \in V \cup {Wild}
  BY <1>1, <1>2, <1>3, <1>4 DEF Trusted, Closed
<1>6. /\ FreedBy(w) = CellsOf(w) /\ FreedBy(ret) = CellsOf(ret)
      /\ CellsOf(w) \in Int /\ CellsOf(ret) \in Int
  BY <1>2, <1>3, CellsInt DEF Trusted
<1>7. CASE Crash
  BY <1>7, OCrash
<1>8. CASE v # Wild /\ Pop(v) /\ Memory(CellsOf(v), FreedBy(w) + FreedBy(ret))
  <2>1. v \in V /\ v \in Yields(V)
    BY <1>5, <1>8 DEF Yields
  <2>2. CellsOf(v) \in Int
    BY <2>1, CellsInt DEF Trusted
  <2>3. live' = live + CellsOf(v) - (FreedBy(w) + FreedBy(ret)) /\ stranded' = stranded
    BY <1>8 DEF Memory
  <2>4. live' = live + CellsOf(v) - CellsOf(ret) - FrameCells(Top)
    BY ONLY <1>2, <1>3, <1>6, <2>2, <2>3
  <2> QED BY <1>1, <1>8, <2>1, <2>3, <2>4, OGive
<1> QED BY <1>4, <1>7, <1>8 DEF Outcome

\* Values that the operand becomes in place: one cell each.
LEMMA OInPlace ==
  ASSUME NEW X, NEW C, NEW V, Trusted(X, C, V), Invs(X, C, V), phase = "return", ctl # <<>>,
         Top.pc = "apply", UNCHANGED <<env, memory>>, NEW v \in V, Pop(v),
         CellsOf(v) = CellsOf(ret)
  PROVE  OInv(V)'
<1>1. live \in Int /\ CellsOf(ret) \in Int /\ live' = live /\ stranded' = stranded
  BY OperandCells DEF memory
<1>2. CellsOf(v) = CellsOf(ret)
  OBVIOUS
<1>3. live' = live + CellsOf(v) - CellsOf(ret)
  BY ONLY <1>1, <1>2
<1> QED BY <1>1, <1>3, OApply DEF Yields

\* "int" and the sign.
LEMMA InPlaceOwn ==
  ASSUME NEW X, NEW C, NEW V, Trusted(X, C, V), Invs(X, C, V), MinusApply \/ IntApply
  PROVE  OInv(V)'
<1>1. phase = "return" /\ ctl # <<>> /\ UNCHANGED env /\ Top.pc = "apply"
  BY DEF MinusApply, IntApply, Returned
<1>2. ret \in V /\ CellsOf(ret) \in Int /\ live \in Int /\ FrameCells(Top) = 0
  BY <1>1, OperandCells
<1>3. /\ ret.type \in {"Int", "Bool"} => ret.i \in Int
      /\ ret.type \in {"Int", "Bool", "Double"} => CellsOf(ret) = 1
      /\ DoubleInts \subseteq Int
  BY <1>2 DEF Trusted, Closed, Counted
<1>4. \A n \in Int : value_new_int(n) \in V /\ CellsOf(value_new_int(n)) = 1
  BY OneCell
<1>5. CASE Crash
  BY <1>5, OCrash
<1>6. ASSUME NEW n \in Int, Pop(value_new_int(n)), UNCHANGED memory, CellsOf(ret) = 1
      PROVE  OInv(V)'
  <2> DEFINE v == value_new_int(n)
  <2>1. v \in V /\ CellsOf(v) = CellsOf(ret) /\ Pop(v) /\ UNCHANGED <<env, memory>>
    BY <1>1, <1>4, <1>6
  <2> HIDE DEF v
  <2> QED BY <1>1, <2>1, OInPlace
<1>7. CASE MinusApply
  <2>1. CASE ret.type = "Int" /\ Pop(value_new_int(Wrap(-ret.i)))
    <3>1. Wrap(-ret.i) \in Int
      BY <1>3, <2>1, IntHalfAssumption DEF Wrap
    <3> QED BY <1>3, <1>6, <1>7, <2>1, <3>1 DEF MinusApply
  <2>2. CASE Pop(ret)
    BY <1>1, <1>2, <1>7, <2>2, OInPlace DEF MinusApply
  <2> QED BY <1>5, <1>7, <2>1, <2>2 DEF MinusApply
<1>8. CASE IntApply
  <2>1. CASE ret.type \in {"Int", "Bool"} /\ Pop(value_new_int(ret.i)) /\ UNCHANGED memory
    BY <1>3, <1>6, <2>1
  <2>2. CASE ret.type = "Double" /\ (\E n \in DoubleInts : Pop(value_new_int(n)))
               /\ UNCHANGED memory
    BY <1>3, <1>6, <2>2
  <2>3. CASE Pop(Null) /\ stranded' = stranded + CellsOf(ret) /\ UNCHANGED live
    <3> DEFINE v == Null
               lost == CellsOf(ret)
    <3>1. v \in V /\ CellsOf(v) = 0
      BY OneCell
    <3>2. GoodSpaces(V, spaces) /\ spaces' = spaces /\ AllCells(spaces) \in Int
      BY <1>1, Amounts DEF env
    <3>3. Pop(v) /\ lost \in Int /\ stranded' = stranded + lost /\ live' = live
      BY <1>2, <2>3
    <3> HIDE DEF v
    <3>4. live' = live + lost + CellsOf(v) - CellsOf(ret) - FrameCells(Top)
                    + AllCells(spaces) - AllCells(spaces)
      BY <1>2, <3>1, <3>2, <3>3
    <3>5. CellsOf(v) \in Int
      BY <3>1
    <3> HIDE DEF lost
    <3> QED BY <1>1, <3>2, <3>3, <3>4, <3>5, OPop
  <2> QED BY <1>5, <1>8, <2>1, <2>2, <2>3 DEF IntApply
<1> QED BY <1>7, <1>8

\* The operand is freed, and a copy of a part of it, or nothing, is returned.
LEMMA CopiesOwn ==
  ASSUME NEW X, NEW C, NEW V, Trusted(X, C, V), Invs(X, C, V),
         NotApply \/ DotApply \/ PrintApply \/ ReadApply \/ ArrayApply
  PROVE  OInv(V)'
<1>1. phase = "return" /\ ctl # <<>> /\ UNCHANGED env /\ Top.pc = "apply"
  BY DEF NotApply, DotApply, PrintApply, ReadApply, ArrayApply, Returned
<1>2. ret \in V /\ FreedBy(ret) = CellsOf(ret) /\ CellsOf(ret) \in Int /\ live \in Int
  BY <1>1, OperandCells
<1>3. Closed(X, V) /\ Null \in V /\ CellsOf(Null) = 0
  BY OneCell DEF Trusted
<1>4. CASE Crash
  BY <1>4, OCrash
<1>5. ASSUME NEW v \in V, Pop(v), Memory(CellsOf(v), FreedBy(ret))
      PROVE  OInv(V)'
  <2>1. live' = live + CellsOf(v) - CellsOf(ret) /\ stranded' = stranded
    BY <1>2, <1>5 DEF Memory
  <2> QED BY <1>1, <1>5, <2>1, OApply DEF Yields
<1>6. CASE NotApply
  <2> DEFINE v == Negation(ret)
  <2>1. v \in V \cup {Wild} /\ Outcome(v, FreedBy(ret))
    BY <1>2, <1>3, <1>6 DEF NotApply, Closed
  <2> HIDE DEF v
  <2> QED BY <1>1, <2>1, OOutcome
<1>7. CASE ReadApply
  <2>1. PICK v \in JsonValues \cup FileValues : Outcome(v, FreedBy(ret))
    BY <1>7 DEF ReadApply
  <2>2. v \in V \cup {Wild}
    BY <1>3, <2>1 DEF Closed
  <2> QED BY <1>1, <2>1, <2>2, OOutcome
<1>8. CASE PrintApply
  <2> DEFINE v == Null
  <2>1. Pop(v) /\ Memory(0, FreedBy(ret)) /\ v \in V /\ CellsOf(v) = 0
    BY <1>3, <1>8 DEF PrintApply
  <2> HIDE DEF v
  <2>2. Memory(CellsOf(v), FreedBy(ret))
    BY <2>1
  <2> QED BY <1>5, <2>1, <2>2
<1>9. CASE DotApply
  <2> DEFINE entry == value_object_get(ret, Top.e.str)
             v == IF entry = Null THEN Null ELSE Copy(entry)
  <2>1. Pop(v) /\ Memory(CellsOf(v), FreedBy(ret))
    BY <1>9 DEF DotApply
  <2>2. entry \in V
    BY <1>2, <1>3 DEF Closed, value_object_get
  <2> HIDE DEF entry
  <2>3. v \in V
    BY <1>3, <2>2 DEF Closed
  <2> HIDE DEF v
  <2> QED BY <1>5, <2>1, <2>3
<1>10. CASE ArrayApply /\ ret # Null
  <2> DEFINE n == Top.n
             item == value_list_get(ret, n)
             v == IF item = Null THEN Null ELSE Copy(item)
  <2>1. Pop(v) /\ Memory(CellsOf(v), FreedBy(ret))
    BY <1>10 DEF ArrayApply
  <2>2. n \in Int
    BY <1>1, TopAmounts DEF VFrame
  <2> HIDE DEF n
  <2>3. item \in V
    <3>1. CASE ret.type = "List" /\ n >= 0 /\ n < Len(ret.l)
      <4>1. ret.l \in Seq(V)
        BY <1>2, <1>3, <3>1 DEF Closed
      <4>2. n + 1 \in 1 .. Len(ret.l)
        BY <2>2, <3>1, <4>1
      <4>3. ret.l[n + 1] \in V
        BY <4>1, <4>2
      <4> QED BY <3>1, <4>3 DEF value_list_get
    <3>2. CASE ~(ret.type = "List" /\ n >= 0 /\ n < Len(ret.l))
      BY <1>3, <3>2 DEF value_list_get
    <3> QED BY <3>1, <3>2
  <2> HIDE DEF item
  <2>4. v \in V
    BY <1>3, <2>3 DEF Closed
  <2> HIDE DEF v
  <2> QED BY <1>5, <2>1, <2>4
<1> QED
  BY <1>4, <1>6, <1>7, <1>8, <1>9, <1>10 DEF ArrayApply

\* An assignment keeps a copy and frees what the variable held.
LEMMA AssignOwns ==
  ASSUME NEW X, NEW C, NEW V, Trusted(X, C, V), Invs(X, C, V), AssignApply
  PROVE  OInv(V)'
<1>1. phase = "return" /\ ctl # <<>> /\ Top.pc = "apply" /\ Pop(ret)
  BY DEF AssignApply, Returned
<1>2. ret \in V /\ CellsOf(ret) \in Int /\ live \in Int /\ FrameCells(Top) = 0
  BY <1>1, OperandCells
<1>3. ret \in Yields(V)
  BY <1>2 DEF Yields
<1>4. CASE UNCHANGED <<spaces, memory>>
  <2>1. UNCHANGED <<env, memory>>
    BY <1>4 DEF AssignApply, env
  <2> QED BY <1>1, <1>2, <2>1, OInPlace
<1>5. CASE ret # Null
  <2> DEFINE name == Top.e.str
             w == Copy(ret)
             old == Overwritten(kfs_lang_env_actual_space(spaces), name)
             sp2 == kfs_lang_set_var(spaces, name, w)
             zero == 0
  <2>1. spaces' = sp2 /\ Memory(CellsOf(w), FreedBy(old))
    BY <1>5 DEF AssignApply, Null
  <2>2. w \in V /\ Null \in V /\ Counted(V)
    BY <1>2 DEF Trusted, Closed
  <2>3. GoodSpaces(V, spaces) /\ IsSpaces(spaces)
    BY <1>1, Amounts
  <2>4. FreedBy(w) = CellsOf(w) /\ CellsOf(w) \in Int
    BY <2>2, CellsInt
  <2> HIDE DEF w, old, name
  <2>5. /\ GoodSpaces(V, sp2)
        /\ AllCells(spaces) \in Int /\ FreedBy(old) \in Int
        /\ AllCells(sp2) = AllCells(spaces) - FreedBy(old) + FreedBy(w)
    BY <2>2, <2>3, SetVarCells DEF old
  <2> HIDE DEF sp2
  <2>6. live' = live + CellsOf(w) - FreedBy(old) /\ stranded' = stranded
    BY <2>1 DEF Memory
  <2>7. AllCells(spaces) \in Int /\ FreedBy(old) \in Int
        /\ AllCells(sp2) = AllCells(spaces) - FreedBy(old) + FreedBy(w)
    BY <2>5
  <2>8. CellsOf(ret) \in Int /\ live \in Int /\ FrameCells(Top) = 0
    BY <1>2
  <2>9. live' = live + 0 + CellsOf(ret) - CellsOf(ret) - FrameCells(Top)
                  + AllCells(sp2) - AllCells(spaces)
    BY ONLY <2>4, <2>6, <2>7, <2>8
  <2>10. stranded \in Int
    BY <1>1, OperandCells
  <2>11. /\ zero \in Int /\ stranded' = stranded + zero
         /\ live' = live + zero + CellsOf(ret) - CellsOf(ret) - FrameCells(Top)
                      + AllCells(sp2) - AllCells(spaces)
    BY <2>6, <2>9, <2>10
  <2> HIDE DEF zero
  <2> QED BY <1>1, <1>2, <2>1, <2>5, <2>11, OPop
<1> QED BY <1>4, <1>5 DEF AssignApply

\* "return" makes its operand a list, or puts it in a new one.
LEMMA ReturnOwns ==
  ASSUME NEW X, NEW C, NEW V, Trusted(X, C, V), Invs(X, C, V), ReturnApply
  PROVE  OInv(V)'
<1>1. phase = "return" /\ ctl # <<>> /\ UNCHANGED env /\ Top.pc = "apply"
  BY DEF ReturnApply, Returned
<1>2. ret \in V /\ CellsOf(ret) \in Int /\ live \in Int
  BY <1>1, OperandCells
<1>3. Counted(V) /\ Closed(X, V)
  BY DEF Trusted
<1>4. CASE Crash
  BY <1>4, OCrash
<1>5. CASE ret.type = "List" /\ Pop(FCReturn(ret.l)) /\ UNCHANGED memory
  <2> DEFINE v == FCReturn(ret.l)
  <2>1. ret.l \in Seq(V)
    BY <1>2, <1>3, <1>5 DEF Closed
  <2>2. v \in Yields(V) /\ CellsOf(v) = 1 + ItemCells(ret.l)
    BY <1>3, <2>1 DEF Yields, Returns, Counted
  <2>3. CellsOf(ret) = 1 + ItemCells(ret.l)
    BY <1>2, <1>3, <1>5 DEF Counted
  <2> HIDE DEF v
  <2>4. CellsOf(v) = CellsOf(ret)
    BY <2>2, <2>3, Zenon
  <2>5. live' = live /\ stranded' = stranded /\ Pop(v)
    BY <1>5 DEF memory, v
  <2>6. live' = live
    BY <2>5
  <2>7. live' = live + CellsOf(v) - CellsOf(ret)
    BY ONLY <1>2, <2>4, <2>6
  <2> QED BY <1>1, <2>2, <2>5, <2>7, OApply
<1>6. CASE Pop(FCReturn(<<ret>>)) /\ Memory(1, 0)
  <2> DEFINE v == FCReturn(<<ret>>)
             l == <<ret>>
  <2>1. l \in Seq(V) /\ ItemCells(l) = CellsOf(ret)
    BY <1>2, <1>3, OneItem, SingleItem
  <2>2. v \in Yields(V) /\ CellsOf(v) = 1 + ItemCells(l)
    <3>1. v = FCReturn(l)
      OBVIOUS
    <3> HIDE DEF v, l
    <3> QED BY <1>3, <2>1, <3>1 DEF Yields, Returns, Counted
  <2>3. Pop(v) /\ live' = live + 1 - 0 /\ stranded' = stranded
    BY <1>6 DEF Memory
  <2> HIDE DEF v, l
  <2>4. live' = live + 1 - 0
    BY <2>3
  <2>5. CellsOf(v) = 1 + CellsOf(ret)
    BY <2>1, <2>2
  <2>6. live' = live + CellsOf(v) - CellsOf(ret)
    BY ONLY <1>2, <2>4, <2>5
  <2> QED BY <1>1, <2>2, <2>3, <2>6, OApply
<1> QED BY <1>4, <1>5, <1>6 DEF ReturnApply

\* The index of a list access is freed before the list is evaluated.
LEMMA IndexOwns ==
  ASSUME NEW X, NEW C, NEW V, Trusted(X, C, V), Invs(X, C, V), VInv(X, V)', ArrayIndex
  PROVE  OInv(V)'
<1>1. phase = "return" /\ ctl # <<>> /\ UNCHANGED env /\ Top.pc = "index"
  BY DEF ArrayIndex, Returned
<1>2. FreedBy(ret) = CellsOf(ret) /\ CellsOf(ret) \in Int /\ live \in Int
  BY <1>1, OperandCells
<1>3. CASE Crash
  BY <1>3, OCrash
<1>4. CASE /\ Memory(0, FreedBy(ret))
           /\ Pop(Null) \/ Switch([Top EXCEPT !.pc = "apply", !.n = ret.i], Top.e.left)
  <2>1. live' = live + 0 - FreedBy(ret) /\ stranded' = stranded
    BY <1>4 DEF Memory
  <2>2. live' = live - CellsOf(ret)
    BY <1>2, <2>1
  <2>3. CASE Pop(Null)
    <3> DEFINE v == Null
    <3>1. v \in Yields(V) /\ CellsOf(v) = 0 /\ Pop(v)
      BY <2>3, OneCell DEF Yields
    <3> HIDE DEF v
    <3>2. live' = live + CellsOf(v) - CellsOf(ret)
      BY <1>2, <2>2, <3>1
    <3> QED BY <1>1, <2>1, <3>1, <3>2, OApply
  <2>4. CASE Switch([Top EXCEPT !.pc = "apply", !.n = ret.i], Top.e.left)
    <3> DEFINE pc == "apply"
               n == ret.i
               child == Top.e.left
    <3>1. /\ Switch([Top EXCEPT !.pc = pc, !.n = n], child)
          /\ pc \notin {"item", "left held", "right held"}
          /\ Top.pc \notin {"item", "left held", "right held"}
      BY <1>1, <2>4
    <3> HIDE DEF pc, n, child
    <3> QED BY <1>1, <2>1, <2>2, <3>1, OGoOn
  <2> QED BY <1>4, <2>3, <2>4
<1> QED BY <1>3, <1>4 DEF ArrayIndex

\* Operators, assignments, and the access to lists.
LEMMA OperatorsOwn ==
  ASSUME NEW X, NEW C, NEW V, Trusted(X, C, V), Invs(X, C, V), VInv(X, V)', Operators
  PROVE  OInv(V)'
BY EntersOwn, BinarySecondOwns, BinaryApplyOwns, InPlaceOwn, CopiesOwn, AssignOwns,
   ReturnOwns, IndexOwns DEF Operators

\* The branch takes the place of the if.
LEMMA ChooseOwns ==
  ASSUME NEW X, NEW C, NEW V, Trusted(X, C, V), Invs(X, C, V), IfChoose
  PROVE  OInv(V)'
<1> DEFINE c == Front(ctl)
<1>1. /\ phase = "return" /\ ctl # <<>> /\ UNCHANGED env /\ Top.pc = "choose"
      /\ phase' = "eval" /\ ctl' = c /\ ret' = Null
      /\ live' = live + 0 - FreedBy(ret) /\ stranded' = stranded
  BY DEF IfChoose, Returned, Descend, Memory
<1>2. FreedBy(ret) = CellsOf(ret) /\ CellsOf(ret) \in Int /\ live \in Int /\ FrameCells(Top) = 0
  BY <1>1, OperandCells
<1>3. /\ \A i \in DOMAIN c : HeldFrame(c[i])
      /\ StackCells(c) \in Int
      /\ StackCells(ctl) = StackCells(c) + FrameCells(Top)
  BY <1>1, TopAmounts
<1> HIDE DEF c
<1>4. /\ stranded \in Int /\ AllCells(spaces) \in Int
      /\ live = stranded + AllCells(spaces) + CellsOf(ret) + StackCells(ctl) + 1
  BY <1>1, Amounts
<1>5. CellsOf(Null) = 0 /\ GoodSpaces(V, spaces) /\ spaces' = spaces
  BY <1>1, OneCell, Amounts DEF env
<1>6. Owned' = stranded' + AllCells(spaces) + CellsOf(Null) + StackCells(c) + 1
  <2>1. StackCells(ctl)' = StackCells(c) /\ AllCells(spaces)' = AllCells(spaces)
    BY <1>1, <1>5 DEF StackCells, AllCells
  <2> QED BY <1>1, <2>1 DEF Owned
<1>7. live' = live + 0 - FreedBy(ret) /\ stranded' = stranded /\ CellsOf(Null) = 0
      /\ StackCells(c) \in Int /\ StackCells(ctl) = StackCells(c) + FrameCells(Top)
  BY <1>1, <1>3, <1>5
<1>8. live' \in Int
  BY ONLY <1>2, <1>7
<1>9. live' = stranded' + AllCells(spaces) + CellsOf(Null) + StackCells(c) + 1
  BY ONLY <1>2, <1>4, <1>7
<1>10. live' = Owned'
  BY <1>6, <1>9, Zenon
<1> QED BY <1>1, <1>3, <1>4, <1>5, <1>8, <1>10 DEF OInv

\* Loops: what the condition and the body give is freed; "return" passes on.
LEMMA LoopsOwn ==
  ASSUME NEW X, NEW C, NEW V, Trusted(X, C, V), Invs(X, C, V), VInv(X, V)',
         WhileFirst \/ WhileBody \/ WhileAgain
  PROVE  OInv(V)'
<1>1. /\ phase = "return" /\ ctl # <<>> /\ UNCHANGED env
      /\ Top.pc \in {"first", "body", "again"}
  BY DEF WhileFirst, WhileBody, WhileAgain, Returned
<1>2. /\ VPlace(X, V, ctl, ret) /\ VFrame(V, Top) /\ HeldFrame(Top)
  BY <1>1, VTop, TopAmounts DEF Invs
<1>3. ret \in Yields(V) /\ CellsOf(ret) \in Int /\ live \in Int /\ FrameCells(Top) = 0
  <2>1. FrameCells(Top) = 0
    BY <1>1, <1>2, TopHolds DEF Trusted
  <2> QED BY <1>1, <1>2, <2>1, Amounts DEF VPlace
<1>4. CASE Crash
  BY <1>4, OCrash
<1>5. CASE Pop(ret) /\ UNCHANGED memory
  <2>1. live' = live /\ stranded' = stranded
    BY <1>5 DEF memory
  <2>2. live' = live
    BY <2>1
  <2>3. live' = live + CellsOf(ret) - CellsOf(ret) - FrameCells(Top)
    BY ONLY <1>3, <2>2
  <2> QED BY <1>1, <1>3, <1>5, <2>1, <2>3, OGive
<1>6. CASE /\ Memory(0, FreedBy(ret)) /\ FreedBy(ret) = CellsOf(ret)
           /\ \/ Pop(Null)
              \/ Switch([Top EXCEPT !.pc = "body"], Top.e.right)
              \/ Switch([Top EXCEPT !.pc = "again"], Top.e.next)
  <2>1. live' = live + 0 - FreedBy(ret) /\ stranded' = stranded /\ FreedBy(ret) = CellsOf(ret)
    BY <1>6 DEF Memory
  <2>2. live' = live - CellsOf(ret)
    BY ONLY <1>3, <2>1
  <2>3. CASE Pop(Null)
    <3> DEFINE v == Null
    <3>1. v \in Yields(V) /\ CellsOf(v) = 0 /\ Pop(v)
      BY <2>3, OneCell DEF Yields
    <3> HIDE DEF v
    <3>2. CellsOf(v) = 0
      BY <3>1
    <3>3. live' = live + CellsOf(v) - CellsOf(ret) - FrameCells(Top)
      BY ONLY <1>3, <2>2, <3>2
    <3> QED BY <1>1, <2>1, <3>1, <3>3, OGive
  <2>4. CASE \/ Switch([Top EXCEPT !.pc = "body"], Top.e.right)
             \/ Switch([Top EXCEPT !.pc = "again"], Top.e.next)
    <3>1. PICK pc : pc \in {"body", "again"} /\ \E child : Switch([Top EXCEPT !.pc = pc], child)
      BY <2>4
    <3>2. PICK child : Switch([Top EXCEPT !.pc = pc], child)
      BY <3>1
    <3>3. /\ pc \notin {"item", "left held", "right held"}
          /\ Top.pc \notin {"item", "left held", "right held"}
      BY <1>1, <3>1
    <3> QED BY <1>1, <2>1, <2>2, <3>2, <3>3, OGoOn
  <2> QED BY <1>6, <2>3, <2>4
<1>7. ret.type # "FC_Return" => FreedBy(ret) = CellsOf(ret)
  BY <1>3, YieldCells DEF Trusted
<1>8. CASE WhileFirst \/ WhileAgain
  <2>1. ret \in V
    BY <1>1, <1>8, VOperand DEF WhileFirst, WhileAgain, Returned, Invs
  <2>2. FreedBy(ret) = CellsOf(ret)
    BY <2>1, CellsInt DEF Trusted
  <2> QED BY <1>4, <1>6, <1>8, <2>2 DEF WhileFirst, WhileAgain
<1>9. CASE WhileBody
  BY <1>4, <1>5, <1>6, <1>7, <1>9 DEF WhileBody
<1> QED BY <1>8, <1>9

\* Blocks: the variables of the block are freed with its level.
LEMMA BlocksOwn ==
  ASSUME NEW X, NEW C, NEW V, Trusted(X, C, V), Invs(X, C, V), VInv(X, V)',
         BlockEnter \/ BlockLeave
  PROVE  OInv(V)'
<1>0. Counted(V)
  BY DEF Trusted
<1>1. CASE BlockEnter
  <2> DEFINE f == Frame("leave")
             sp2 == kfs_lang_env_space_add_vars(spaces)
             child == cur.left
  <2>1. phase = "eval" /\ Push(f, child) /\ spaces' = sp2 /\ UNCHANGED memory
    BY <1>1 DEF BlockEnter, Evaluating
  <2>2. GoodSpaces(V, spaces) /\ IsSpaces(spaces) /\ live \in Int
    BY <2>1, Amounts
  <2>3. GoodSpaces(V, sp2) /\ AllCells(sp2) = AllCells(spaces)
    BY <1>0, <2>2, AddVarsCells
  <2>4. f.held = <<>> /\ f.pc = "leave"
    BY DEF Frame
  <2> HIDE DEF f, sp2, child
  <2>5. f.pc \notin {"left held", "right held"} /\ (IF f.pc = "item" THEN 1 ELSE 0) = 0
    BY <2>4
  <2> DEFINE n == IF f.pc = "item" THEN 1 ELSE 0
  <2>6. n = 0 /\ live' = live /\ stranded' = stranded
    BY <2>1, <2>5 DEF memory
  <2> HIDE DEF n
  <2>7. live' = live + n
    BY <2>2, <2>6
  <2>8. live' = live + (IF f.pc = "item" THEN 1 ELSE 0)
    BY <2>7 DEF n
  <2> QED BY <2>1, <2>3, <2>4, <2>5, <2>6, <2>8, OPush
<1>2. CASE BlockLeave
  <2> DEFINE sp2 == kfs_lang_env_space_del_vars(spaces)
             freed == LevelCells(Last(kfs_lang_env_actual_space(spaces)))
             zero == 0
  <2>1. /\ phase = "return" /\ ctl # <<>> /\ Pop(ret) /\ spaces' = sp2
        /\ Top.pc = "leave" /\ Memory(0, freed)
    BY <1>2 DEF BlockLeave, Returned
  <2>2. GoodSpaces(V, spaces) /\ IsSpaces(spaces) /\ live \in Int /\ CellsOf(ret) \in Int
        /\ stranded \in Int
    BY <2>1, Amounts
  <2>3. /\ GoodSpaces(V, sp2) /\ AllCells(spaces) \in Int /\ freed \in Int
        /\ AllCells(sp2) = AllCells(spaces) - freed
    BY <1>0, <2>2, DelVarsCells
  <2> HIDE DEF sp2, freed
  <2>4. FrameCells(Top) = 0
    <3>1. VFrame(V, Top) /\ HeldFrame(Top)
      BY <2>1, TopAmounts
    <3> QED BY <1>0, <2>1, <3>1, TopHolds
  <2>5. live' = live + 0 - freed /\ stranded' = stranded
    BY <2>1 DEF Memory
  <2>6. live \in Int /\ CellsOf(ret) \in Int
    BY <2>2
  <2>7. AllCells(spaces) \in Int /\ freed \in Int /\ AllCells(sp2) = AllCells(spaces) - freed
    BY <2>3
  <2>8. live' = live + 0 + CellsOf(ret) - CellsOf(ret) - FrameCells(Top)
                  + AllCells(sp2) - AllCells(spaces)
    BY ONLY <2>4, <2>5, <2>6, <2>7
  <2>9. /\ zero \in Int /\ stranded' = stranded + zero
        /\ live' = live + zero + CellsOf(ret) - CellsOf(ret) - FrameCells(Top)
                     + AllCells(sp2) - AllCells(spaces)
    BY <2>2, <2>5, <2>8
  <2> HIDE DEF zero
  <2> QED BY <2>1, <2>2, <2>3, <2>9, OPop
<1> QED BY <1>1, <1>2

\* If, while and blocks.
LEMMA ControlOwn ==
  ASSUME NEW X, NEW C, NEW V, Trusted(X, C, V), Invs(X, C, V), VInv(X, V)', Control
  PROVE  OInv(V)'
BY EntersOwn, ChooseOwns, LoopsOwn, BlocksOwn DEF Control

\* Calls: the variables of the function are copies of the arguments, and are
\* freed when the call ends.
LEMMA CallsOwn ==
  ASSUME NEW X, NEW C, NEW V, Trusted(X, C, V), Invs(X, C, V), VInv(X, V)', Calls
  PROVE  OInv(V)'
<1>0. Counted(V) /\ Closed(X, V) /\ Null \in V
  BY DEF Trusted, Closed
<1>1. CASE CallEnter
  <2> DEFINE pc == "args"
  <2>1. phase = "eval" /\ UNCHANGED env /\ UNCHANGED memory
    BY <1>1 DEF CallEnter, Evaluating
  <2>2. CASE Crash
    BY <2>2, OCrash
  <2>3. CASE \E fn, child : \/ Push(Frame(pc), child)
                            \/ Push([Frame(pc) EXCEPT !.fn = fn], child)
    <3>1. PICK fn, child : \/ Push(Frame(pc), child)
                           \/ Push([Frame(pc) EXCEPT !.fn = fn], child)
      BY <2>3
    <3>2. live \in Int
      BY <2>1, Amounts
    <3>3. /\ live' = live + (IF pc = "item" THEN 1 ELSE 0) /\ stranded' = stranded
          /\ pc \notin {"left held", "right held"}
      BY <2>1, <3>2 DEF memory
    <3> HIDE DEF pc
    <3> QED BY <2>1, <3>1, <3>3, OEnter
  <2> QED BY <1>1, <2>2, <2>3 DEF CallEnter
<1>2. CASE CallBody
  <2> DEFINE f == [Top EXCEPT !.pc = "leave", !.at = spaces]
             sp2 == kfs_lang_env_add_space(spaces, ret)
             child == Top.fn
             new == LevelCells(variables_new(ret))
  <2>1. /\ phase = "return" /\ ctl # <<>> /\ Top.pc = "args" /\ Switch(f, child)
        /\ spaces' = sp2 /\ Memory(new, FreedBy(ret))
    BY <1>2 DEF CallBody, Returned
  <2>2. /\ ret \in V /\ FreedBy(ret) = CellsOf(ret) /\ FrameCells(Top) = 0
        /\ CellsOf(ret) \in Int /\ live \in Int
    BY <2>1, OperandCells
  <2>3. IsFrame(Top) /\ VFrame(V, Top) /\ HeldFrame(Top) /\ GoodSpaces(V, spaces)
    BY <2>1, TopAmounts, Amounts
  <2>4. f.e = Top.e /\ f.n = Top.n /\ f.held = Top.held /\ f.pc = "leave"
    BY <2>3 DEF IsFrame
  <2>5. /\ GoodSpaces(V, sp2) /\ AllCells(spaces) \in Int /\ new \in Int
        /\ AllCells(sp2) = AllCells(spaces) + new
    BY <1>0, <2>2, <2>3, AddSpaceCells
  <2> HIDE DEF f, sp2, child, new
  <2>6. Top.held = <<>>
    BY <2>1, <2>3 DEF HeldFrame
  <2>7. HeldFrame(f) /\ VFrame(V, f)
    BY <2>3, <2>4, <2>6 DEF HeldFrame, VFrame
  <2>8. FrameCells(f) = 0 /\ FrameCells(Top) = 0
    BY <1>0, <2>2, <2>4, <2>7, TopHolds
  <2>9. live' = live + new - FreedBy(ret) /\ stranded' = stranded
    BY <2>1 DEF Memory
  <2>10. FreedBy(ret) = CellsOf(ret) /\ CellsOf(ret) \in Int /\ live \in Int
    BY <2>2
  <2>11. AllCells(spaces) \in Int /\ new \in Int /\ AllCells(sp2) = AllCells(spaces) + new
    BY <2>5
  <2>12. live' = live + FrameCells(f) - CellsOf(ret) - FrameCells(Top)
                   + AllCells(sp2) - AllCells(spaces)
    BY ONLY <2>8, <2>9, <2>10, <2>11
  <2> QED BY <2>1, <2>5, <2>7, <2>9, <2>12, OSwitch
<1>3. CASE CallLeave
  <2> DEFINE v == value_delist(ReturnedValue(ret))
             sp2 == kfs_lang_env_remove_space(spaces)
             own == SpaceCells(kfs_lang_env_actual_space(spaces))
             zero == 0
  <2>1. /\ phase = "return" /\ ctl # <<>> /\ Pop(v) /\ spaces' = sp2 /\ Top.pc = "leave"
        /\ Memory(0, own + CellsOf(ret) - CellsOf(v))
    BY <1>3 DEF CallLeave, Returned
  <2>2. /\ GoodSpaces(V, spaces) /\ IsSpaces(spaces) /\ live \in Int /\ CellsOf(ret) \in Int
        /\ stranded \in Int
    BY <2>1, Amounts
  <2>3. v \in V
    <3>1. ret \in Yields(V)
      BY <2>1 DEF Invs, VInv, VPlace
    <3>2. ret \in V \cup Returns(V)
      BY <3>1 DEF Yields, Trusted
    <3> QED BY <1>0, <3>2, CallValue
  <2> HIDE DEF v
  <2>4. CellsOf(v) \in Int
    BY <1>0, <2>3, CellsInt
  <2>5. /\ GoodSpaces(V, sp2) /\ AllCells(spaces) \in Int /\ own \in Int
        /\ AllCells(sp2) = AllCells(spaces) - own
    BY <1>0, <2>2, RemoveSpaceCells
  <2> HIDE DEF sp2, own
  <2>6. FrameCells(Top) = 0
    <3>1. VFrame(V, Top) /\ HeldFrame(Top)
      BY <2>1, TopAmounts
    <3> QED BY <1>0, <2>1, <3>1, TopHolds
  <2>7. live' = live + 0 - (own + CellsOf(ret) - CellsOf(v)) /\ stranded' = stranded
    BY <2>1 DEF Memory
  <2>8. live \in Int /\ CellsOf(ret) \in Int
    BY <2>2
  <2>9. AllCells(spaces) \in Int /\ own \in Int /\ AllCells(sp2) = AllCells(spaces) - own
    BY <2>5
  <2>10. live' = live + 0 + CellsOf(v) - CellsOf(ret) - FrameCells(Top)
                   + AllCells(sp2) - AllCells(spaces)
    BY ONLY <2>4, <2>6, <2>7, <2>8, <2>9
  <2>11. /\ zero \in Int /\ stranded' = stranded + zero
         /\ live' = live + zero + CellsOf(v) - CellsOf(ret) - FrameCells(Top)
                      + AllCells(sp2) - AllCells(spaces)
    BY <2>2, <2>7, <2>10
  <2> HIDE DEF zero
  <2> QED BY <2>1, <2>4, <2>5, <2>11, OPop
<1> QED BY <1>1, <1>2, <1>3 DEF Calls

\* The variables before the first assignment, and after the last script.
LEMMA NoVariables ==
  ASSUME NEW X, NEW V, Closed(X, V), Counted(V)
  PROVE  /\ GoodSpaces(V, <<>>) /\ AllCells(<<>>) = 0
         /\ GoodSpaces(V, kfs_lang_env_add_space(<<>>, Null))
         /\ AllCells(kfs_lang_env_add_space(<<>>, Null)) = 0
<1>1. GoodSpaces(V, <<>>)
  BY EmptyIsSeq DEF GoodSpaces
<1>2. AllCells(<<>>) = 0
  BY EmptyIsSeq, SumNone DEF AllCells
<1>3. LevelCells(variables_new(Null)) = 0
  <2> DEFINE level == variables_new(Null)
  <2>1. DOMAIN level = {}
    BY DEF variables_new, Null, EmptyDict
  <2> HIDE DEF level
  <2>2. LevelCells(level) = 0
    BY <2>1, SumNone DEF LevelCells
  <2> QED BY <2>2 DEF level
<1> DEFINE sp == <<>>
           v == Null
           tp == kfs_lang_env_add_space(sp, v)
<1>4. GoodSpaces(V, sp) /\ AllCells(sp) = 0 /\ v \in V /\ LevelCells(variables_new(v)) = 0
  BY <1>1, <1>2, <1>3 DEF Closed
<1> HIDE DEF sp, v
<1>5. GoodSpaces(V, tp) /\ AllCells(tp) = AllCells(sp) + LevelCells(variables_new(v))
  BY <1>4, AddSpaceCells
<1>6. AllCells(tp) = 0 + 0
  BY <1>4, <1>5, Zenon
<1>7. GoodSpaces(V, tp) /\ AllCells(tp) = 0
  BY <1>5, <1>6
<1> QED BY <1>1, <1>2, <1>7 DEF sp, v

\* Between two scripts nothing but the variables and "empty" is left.
LEMMA OIdle ==
  ASSUME NEW X, NEW C, NEW V, Trusted(X, C, V), NEW sp2, GoodSpaces(V, sp2), spaces' = sp2,
         ctl' = <<>>, ret' = Null, phase' \in {"idle", "eval", "done"},
         stranded' \in Int, NEW n \in Int, n = (IF phase' = "done" THEN 0 ELSE 1),
         live' = stranded' + AllCells(sp2) + n
  PROVE  OInv(V)'
<1>1. AllCells(sp2) \in Int /\ CellsOf(Null) = 0
  BY AllInts, OneCell DEF Trusted
<1> DEFINE c == <<>>
<1>2. StackCells(c) = 0 /\ \A i \in DOMAIN c : HeldFrame(c[i])
  BY NoItems, EmptyIsSeq
<1>3. ctl' = c
  OBVIOUS
<1> HIDE DEF c
<1>4. Owned' = stranded' + AllCells(sp2) + CellsOf(Null) + StackCells(c) + n
  <2>1. StackCells(ctl)' = StackCells(c) /\ AllCells(spaces)' = AllCells(sp2)
    BY <1>3 DEF StackCells, AllCells
  <2> QED BY <2>1 DEF Owned
<1>5. /\ live' = stranded' + AllCells(sp2) + n /\ stranded' \in Int /\ n \in Int
      /\ StackCells(c) = 0
  BY <1>2
<1>6. live' \in Int
  BY ONLY <1>1, <1>5
<1>7. live' = stranded' + AllCells(sp2) + CellsOf(Null) + StackCells(c) + n
  BY ONLY <1>1, <1>5
<1>8. live' = Owned'
  BY <1>4, <1>7, Zenon
<1> QED BY <1>2, <1>3, <1>6, <1>8 DEF OInv

\* The drivers.
LEMMA DriveOwns ==
  ASSUME NEW X, NEW C, NEW V, Trusted(X, C, V), Invs(X, C, V), Drive
  PROVE  OInv(V)'
<1>0. Counted(V) /\ Closed(X, V)
  BY DEF Trusted
<1>1. phase \in {"idle", "return"} /\ ctl = <<>>
  BY DEF Drive, StartScript, ParseFails, FinishScript, kfs_lang_env_delete, Invs, IInv, Rest
<1>2. /\ GoodSpaces(V, spaces) /\ live \in Int /\ stranded \in Int
      /\ AllCells(spaces) \in Int /\ CellsOf(ret) \in Int
      /\ live = stranded + AllCells(spaces) + CellsOf(ret) + StackCells(ctl) + 1
  BY <1>1, Amounts
<1>3. StackCells(ctl) = 0
  BY <1>1, NoItems, Zenon
<1>4. phase = "idle" => ret = Null /\ CellsOf(ret) = 0
  <2>1. phase = "idle" => ret = Null
    BY DEF Invs, OInv
  <2> QED BY <2>1, OneCell, Zenon
<1>5. CASE StartScript \/ ParseFails
  <2> DEFINE sp2 == Prepared
             one == 1
  <2>1. /\ phase = "idle" /\ spaces' = sp2 /\ ctl' = <<>> /\ ret' = Null
        /\ phase' \in {"idle", "eval"} /\ Memory(AllCells(sp2), AllCells(spaces))
    BY <1>1, <1>4, <1>5 DEF StartScript, ParseFails, Descend, machine
  <2>2. GoodSpaces(V, sp2)
    BY <1>0, <1>2, NoVariables DEF Prepared
  <2> HIDE DEF sp2
  <2>3. AllCells(sp2) \in Int
    BY <1>0, <2>2, AllInts
  <2>4. live' = live + AllCells(sp2) - AllCells(spaces) /\ stranded' = stranded
    BY <2>1 DEF Memory
  <2>5. /\ live \in Int /\ stranded \in Int /\ AllCells(spaces) \in Int
        /\ live = stranded + AllCells(spaces) + CellsOf(ret) + StackCells(ctl) + 1
    BY <1>2
  <2>6. CellsOf(ret) = 0
    BY <1>4, <2>1
  <2>7. live' = stranded' + AllCells(sp2) + 1
    BY ONLY <1>3, <2>3, <2>4, <2>5, <2>6
  <2>8. /\ one \in Int /\ one = (IF phase' = "done" THEN 0 ELSE 1)
        /\ live' = stranded' + AllCells(sp2) + one /\ stranded' \in Int
    BY <2>1, <2>4, <2>5, <2>7
  <2> HIDE DEF one
  <2> QED BY <2>1, <2>2, <2>8, OIdle
<1>6. CASE FinishScript
  <2> DEFINE v == value_delist(ReturnedValue(ret))
             one == 1
  <2>1. phase = "return" /\ spaces' = spaces
    BY <1>6 DEF FinishScript
  <2>2. CASE Crash
    BY <2>2, OCrash
  <2>3. CASE /\ Memory(0, CellsOf(ret) - CellsOf(v) + FreedBy(v))
             /\ phase' = "idle" /\ ret' = Null /\ ctl' = ctl
    <3>1. ret \in V \cup Returns(V)
      <4>1. ret \in Yields(V)
        BY <2>1 DEF Invs, VInv, VPlace
      <4> QED BY <4>1 DEF Yields, Trusted
    <3>2. v \in V
      BY <1>0, <3>1, CallValue
    <3> HIDE DEF v
    <3>3. CellsOf(v) \in Int /\ FreedBy(v) = CellsOf(v)
      BY <1>0, <3>2, CellsInt
    <3>4. live' = live + 0 - (CellsOf(ret) - CellsOf(v) + FreedBy(v)) /\ stranded' = stranded
      BY <2>3 DEF Memory
    <3>5. /\ live \in Int /\ stranded \in Int /\ AllCells(spaces) \in Int /\ CellsOf(ret) \in Int
          /\ live = stranded + AllCells(spaces) + CellsOf(ret) + StackCells(ctl) + 1
      BY <1>2
    <3>6. live' = stranded' + AllCells(spaces) + 1
      BY ONLY <1>3, <3>3, <3>4, <3>5
    <3>7. /\ one \in Int /\ one = (IF phase' = "done" THEN 0 ELSE 1)
          /\ live' = stranded' + AllCells(spaces) + one /\ stranded' \in Int
      BY <2>3, <3>4, <3>5, <3>6
    <3>8. ctl' = <<>>
      BY <1>1, <2>3
    <3> HIDE DEF one
    <3> QED BY <1>2, <2>1, <2>3, <3>7, <3>8, OIdle
  <2> QED BY <1>6, <2>2, <2>3 DEF FinishScript
<1>7. CASE kfs_lang_env_delete
  <2> DEFINE sp2 == <<>>
             zero == 0
  <2>1. /\ phase = "idle" /\ phase' = "done" /\ spaces' = sp2 /\ ret' = ret /\ ctl' = ctl
        /\ live' = live + 0 - (AllCells(spaces) + 1) /\ stranded' = stranded
    BY <1>7 DEF kfs_lang_env_delete, Memory
  <2>2. GoodSpaces(V, sp2) /\ AllCells(sp2) = 0
    BY <1>0, NoVariables
  <2> HIDE DEF sp2
  <2>3. /\ live \in Int /\ stranded \in Int /\ AllCells(spaces) \in Int
        /\ live = stranded + AllCells(spaces) + CellsOf(ret) + StackCells(ctl) + 1
    BY <1>2
  <2>4. live' = live + 0 - (AllCells(spaces) + 1) /\ stranded' = stranded
    BY <2>1
  <2>5. CellsOf(ret) = 0 /\ AllCells(sp2) = 0
    BY <1>4, <2>1, <2>2
  <2>6. live' = stranded' + AllCells(sp2) + 0
    BY ONLY <1>3, <2>3, <2>4, <2>5
  <2>7. /\ zero \in Int /\ zero = (IF phase' = "done" THEN 0 ELSE 1)
        /\ live' = stranded' + AllCells(sp2) + zero /\ stranded' \in Int
    BY <2>1, <2>3, <2>6
  <2>8. ctl' = <<>> /\ ret' = Null
    BY <1>1, <1>4, <2>1
  <2> HIDE DEF zero
  <2> QED BY <2>1, <2>2, <2>7, <2>8, OIdle
<1> QED BY <1>5, <1>6, <1>7 DEF Drive

\* Every step of the program keeps it.
LEMMA NextOwns ==
  ASSUME NEW X, NEW C, NEW V, Trusted(X, C, V), Invs(X, C, V), VInv(X, V)', [Next]_vars
  PROVE  OInv(V)'
<1>1. CASE UNCHANGED vars \/ Stopped
  <2>1. UNCHANGED <<phase, ctl, ret, spaces, live, stranded>>
    BY <1>1 DEF Stopped, vars, machine, env, memory
  <2>2. UNCHANGED Owned
    BY <2>1 DEF Owned, StackCells, AllCells
  <2> QED BY <2>1, <2>2 DEF OInv, Invs
<1> QED
  BY <1>1, LeavesOwn, CollectionsOwn, OperatorsOwn, ControlOwn, CallsOwn, DriveOwns
     DEF Next, Step

\* At first there is the value "empty" only.
LEMMA InitOwns ==
  ASSUME NEW X, NEW V, Closed(X, V), Counted(V), Init
  PROVE  OInv(V)
<1> DEFINE sp == kfs_lang_env_add_space(<<>>, Null)
<1>1. GoodSpaces(V, sp) /\ AllCells(sp) = 0
  BY NoVariables
<1>2. /\ phase = "idle" /\ ctl = <<>> /\ ret = Null /\ spaces = sp /\ live = 1 /\ stranded = 0
  BY DEF Init
<1> HIDE DEF sp
<1>3. StackCells(ctl) = 0 /\ CellsOf(ret) = 0 /\ AllCells(spaces) = 0
  BY <1>1, <1>2, NoItems, Zenon DEF Counted
<1>4. Owned = 1
  BY <1>2, <1>3 DEF Owned
<1> QED BY <1>1, <1>2, <1>4, EmptyIsSeq DEF OInv

\* Whatever trees the parser makes and whatever the operators compute, as long
\* as a value consists of the cells that value_delete frees with it: every
\* cell that is allocated and not freed has one owner, or "int" lost it.
THEOREM ValuesHaveOneOwner ==
  ASSUME NEW X, NEW C, NEW V, Parsed(X, C), ScriptsIn(C), Closed(X, V),
         LoopExits \subseteq V, Counted(V)
  PROVE  Spec => []SingleOwner
<1> DEFINE Inv == scripts \in ScriptSets /\ PInv(X, C) /\ VInv(X, V) /\ OInv(V)
<1>1. Init => Inv
  BY InitPure, InitV, InitOwns DEF Init
<1>2. IInv /\ Inv /\ [Next]_vars => Inv'
  <2> SUFFICES ASSUME IInv, Inv, [Next]_vars PROVE Inv'
    OBVIOUS
  <2>1. phase = "return" /\ ctl # <<>> /\ InCall(Top) => ret \in V \cup Returns(V)
    BY DEF VInv, VPlace, Yields
  <2>2. (scripts \in ScriptSets)' /\ PInv(X, C)' /\ VInv(X, V)'
    BY <2>1, NextKeepsPure, NextKeepsV, ScriptsStay
  <2>3. Trusted(X, C, V) /\ Invs(X, C, V)
    BY DEF Trusted, Invs
  <2> QED BY <2>2, <2>3, NextOwns
<1>3. Inv => SingleOwner
  BY DEF OInv, Owned, SingleOwner, StackCells
<1> QED
  BY <1>1, <1>2, <1>3, Invariance, PTL DEF Spec

-----------------------------------------------------------------------------
(* replace_system_props: texts put together from others                    *)

\* f[i] are the first i of the texts e[1], e[2], ... in one, g[i] the same for i > 0 only.
Joins(f, e, n) == f[0] = <<>> /\ \A i \in 0 .. n - 1 : f[i + 1] = f[i] \o e[i + 1]
JoinsFrom(g, e, n) == g = [i \in 1 .. n |-> IF i = 1 THEN e[i] ELSE g[i - 1] \o e[i]]

\* What a function that joins texts is at each number.
LEMMA JoinsFromAt ==
  ASSUME NEW g, NEW e, NEW n \in Nat \ {0}, JoinsFrom(g, e, n)
  PROVE  g[1] = e[1] /\ \A i \in 1 .. n - 1 : g[i + 1] = g[i] \o e[i + 1]
<1>1. \A i \in 1 .. n : g[i] = IF i = 1 THEN e[i] ELSE g[i - 1] \o e[i]
  BY Zenon DEF JoinsFrom
<1>2. g[1] = e[1]
  <2>1. 1 \in 1 .. n
    OBVIOUS
  <2> QED BY <1>1, <2>1
<1>3. ASSUME NEW i \in 1 .. n - 1 PROVE g[i + 1] = g[i] \o e[i + 1]
  <2> DEFINE j == i + 1
  <2>1. j \in 1 .. n /\ j # 1 /\ j - 1 = i
    OBVIOUS
  <2> HIDE DEF j
  <2>2. g[j] = g[j - 1] \o e[j]
    BY <1>1, <2>1
  <2> QED BY <2>1, <2>2 DEF j
<1> QED BY <1>2, <1>3

\* Texts can be joined.
LEMMA JoinsFromExist ==
  ASSUME NEW e, NEW n \in Nat
  PROVE  \E g : JoinsFrom(g, e, n + 1)
<1> DEFINE P == {k \in Nat : \E g : JoinsFrom(g, e, k + 1)}
<1>1. 0 \in P
  <2> DEFINE f == [i \in 1 .. 0 + 1 |-> e[i]]
  <2>1. \A i \in 1 .. 0 + 1 : i = 1
    OBVIOUS
  <2>2. f = [i \in 1 .. 0 + 1 |-> IF i = 1 THEN e[i] ELSE f[i - 1] \o e[i]]
    BY <2>1
  <2> QED BY <2>2 DEF JoinsFrom
<1>2. ASSUME NEW k \in Nat, k \in P PROVE k + 1 \in P
  <2> DEFINE n1 == k + 1
             n2 == k + 1 + 1
  <2>0. n1 \in Nat \ {0} /\ n2 = n1 + 1 /\ n2 \in Nat /\ n2 - 1 = n1
    OBVIOUS
  <2>1. PICK f : JoinsFrom(f, e, n1)
    BY <1>2
  <2> HIDE DEF n1, n2
  <2> DEFINE g == [i \in 1 .. n2 |-> IF i = n2 THEN f[n1] \o e[n2] ELSE f[i]]
             h == [i \in 1 .. n2 |-> IF i = 1 THEN e[i] ELSE g[i - 1] \o e[i]]
  <2>2. f[1] = e[1] /\ \A i \in 1 .. n1 - 1 : f[i + 1] = f[i] \o e[i + 1]
    BY <2>0, <2>1, JoinsFromAt
  <2>3. ASSUME NEW i \in 1 .. n2 PROVE g[i] = h[i]
    <3>1. CASE i = 1
      <4>1. i # n2
        BY <2>0, <3>1
      <4> QED BY <2>2, <3>1, <4>1
    <3>2. CASE i # 1
      <4>1. i - 1 \in 1 .. n1 /\ i - 1 \in 1 .. n2 /\ i - 1 + 1 = i /\ i - 1 # n2
        BY <2>0, <3>2
      <4>2. g[i - 1] = f[i - 1]
        BY <4>1
      <4>3. h[i] = f[i - 1] \o e[i]
        BY <3>2, <4>2
      <4>4. CASE i = n2
        BY <2>0, <4>3, <4>4
      <4>5. CASE i # n2
        <5>1. i - 1 \in 1 .. n1 - 1 /\ g[i] = f[i]
          BY <2>0, <3>2, <4>5
        <5> QED BY <2>2, <4>1, <4>3, <5>1
      <4> QED BY <4>4, <4>5
    <3> QED BY <3>1, <3>2
  <2>4. DOMAIN g = 1 .. n2 /\ DOMAIN h = 1 .. n2
        /\ g = [i \in 1 .. n2 |-> g[i]] /\ h = [i \in 1 .. n2 |-> h[i]]
    OBVIOUS
  <2>5. g = h
    <3> HIDE DEF g, h
    <3> QED BY <2>3, <2>4
  <2>6. JoinsFrom(g, e, n2)
    <3> HIDE DEF g
    <3> QED BY <2>5 DEF JoinsFrom
  <2> QED BY <2>6 DEF n2
<1> HIDE DEF P
<1>3. Nat \subseteq P
  BY <1>1, <1>2, AllNumbers
<1> QED BY <1>3 DEF P

\* FlattenSeq puts the texts of a sequence together in their order.
LEMMA FlattenSeqIs ==
  ASSUME NEW T, NEW k \in Nat, NEW e \in [1 .. k -> Seq(T)]
  PROVE  \E f \in [0 .. k -> Seq(T)] : Joins(f, e, k) /\ FlattenSeq(e) = f[k]
<1>0. Len(e) = k /\ e \in Seq(Seq(T))
  OBVIOUS
<1>1. CASE k = 0
  <2> DEFINE f == [i \in 0 .. 0 |-> <<>>]
  <2>1. e = <<>> /\ FlattenSeq(e) = <<>>
    <3>1. e = <<>>
      BY <1>0, <1>1, EmptySeq
    <3> QED BY <1>0, <1>1, <3>1 DEF FlattenSeq
  <2>2. f \in [0 .. k -> Seq(T)] /\ f[0] = <<>>
    BY <1>1, EmptySeq
  <2> HIDE DEF f
  <2>3. Joins(f, e, k)
    BY <1>1, <2>2 DEF Joins
  <2> QED BY <1>1, <2>1, <2>2, <2>3
<1>2. CASE k # 0
  <2> DEFINE Is(g) == g = [i \in 1 .. k |-> IF i = 1 THEN e[i] ELSE g[i - 1] \o e[i]]
             g == CHOOSE g : Is(g)
             f == [i \in 0 .. k |-> IF i = 0 THEN <<>> ELSE g[i]]
  <2>1. \E h : JoinsFrom(h, e, k)
    <3>1. k - 1 \in Nat /\ k - 1 + 1 = k
      BY <1>2
    <3>2. \E h : JoinsFrom(h, e, k - 1 + 1)
      BY <3>1, JoinsFromExist
    <3> QED BY <3>1, <3>2
  <2>2. Is(g)
    <3>1. \E h : Is(h)
      BY <2>1 DEF JoinsFrom
    <3> HIDE DEF Is
    <3> QED BY <3>1
  <2>3. JoinsFrom(g, e, k)
    <3> HIDE DEF g
    <3> QED BY <2>2 DEF JoinsFrom
  <2>4. FlattenSeq(e) = g[k]
    <3>1. Len(e) # 0
      BY <1>0, <1>2
    <3>2. FlattenSeq(e) = (CHOOSE h : h = [i \in 1 .. Len(e) |->
                             IF i = 1 THEN e[i] ELSE h[i - 1] \o e[i]])[Len(e)]
      BY <3>1, Zenon DEF FlattenSeq
    <3> QED BY <1>0, <3>2, Zenon
  <2> HIDE DEF g
  <2>5. g[1] = e[1] /\ \A i \in 1 .. k - 1 : g[i + 1] = g[i] \o e[i + 1]
    BY <1>2, <2>3, JoinsFromAt
  <2>6. f[0] = <<>> /\ \A i \in 1 .. k : f[i] = g[i]
    OBVIOUS
  <2>6a. f = [i \in 0 .. k |-> f[i]]
    OBVIOUS
  <2> HIDE DEF f
  <2>7. ASSUME NEW i \in 0 .. k - 1 PROVE f[i + 1] = f[i] \o e[i + 1]
    <3>1. CASE i = 0
      <4>1. 1 \in 1 .. k /\ e[1] \in Seq(T)
        BY <1>2
      <4>2. f[1] = e[1]
        BY <2>5, <2>6, <4>1
      <4>3. <<>> \o e[1] = e[1]
        BY <4>1, ConcatEmptySeq
      <4> QED BY <2>6, <3>1, <4>2, <4>3
    <3>2. CASE i # 0
      <4>1. i \in 1 .. k - 1 /\ i \in 1 .. k /\ i + 1 \in 1 .. k
        BY <3>2
      <4> QED BY <2>5, <2>6, <4>1
    <3> QED BY <3>1, <3>2
  <2>8. Joins(f, e, k)
    BY <2>6, <2>7 DEF Joins
  <2> DEFINE P == {i \in Nat : i <= k => f[i] \in Seq(T)}
  <2>9. 0 \in P
    BY <2>6, EmptySeq
  <2>10. ASSUME NEW i \in Nat, i \in P PROVE i + 1 \in P
    <3> SUFFICES ASSUME i + 1 <= k PROVE f[i + 1] \in Seq(T)
      OBVIOUS
    <3>1. f[i] \in Seq(T) /\ e[i + 1] \in Seq(T)
      BY <2>10
    <3>2. f[i] \o e[i + 1] \in Seq(T)
      BY <3>1, ConcatProperties
    <3>3. i \in 0 .. k - 1
      OBVIOUS
    <3> QED BY <2>7, <3>2, <3>3
  <2> HIDE DEF P
  <2>11. Nat \subseteq P
    BY <2>9, <2>10, AllNumbers
  <2>12. \A i \in 0 .. k : f[i] \in Seq(T)
    BY <2>11 DEF P
  <2>13. f \in [0 .. k -> Seq(T)]
    BY <2>6a, <2>12
  <2>14. f[k] = g[k]
    BY <1>2, <2>6
  <2> QED BY <2>4, <2>8, <2>13, <2>14
<1> QED BY <1>1, <1>2
-----------------------------------------------------------------------------
(* replace_system_props: its loop, round by round                          *)

Start == [cursor |-> 1, output |-> [text |-> <<>>, fits |-> TRUE]]

\* f is the loop after each number of rounds up to n.
Runs(f, text, environ, n) ==
  f = [i \in 0 .. n |-> IF i = 0 THEN Start ELSE Round(text, environ, f[i - 1])]

\* Where the loop is after so many rounds.
LEMMA RunsAt ==
  ASSUME NEW f, NEW text, NEW environ, NEW n \in Nat, Runs(f, text, environ, n)
  PROVE  f[0] = Start /\ \A i \in 0 .. n - 1 : f[i + 1] = Round(text, environ, f[i])
<1>1. \A i \in 0 .. n : f[i] = IF i = 0 THEN Start ELSE Round(text, environ, f[i - 1])
  BY Zenon DEF Runs
<1>2. f[0] = Start
  <2>1. 0 \in 0 .. n
    OBVIOUS
  <2> QED BY <1>1, <2>1
<1>3. ASSUME NEW i \in 0 .. n - 1 PROVE f[i + 1] = Round(text, environ, f[i])
  <2> DEFINE j == i + 1
  <2>1. j \in 0 .. n /\ j # 0 /\ j - 1 = i
    OBVIOUS
  <2> HIDE DEF j
  <2>2. f[j] = Round(text, environ, f[j - 1])
    BY <1>1, <2>1
  <2> QED BY <2>1, <2>2 DEF j
<1> QED BY <1>2, <1>3

\* The loop can be run.
LEMMA RunsExist ==
  ASSUME NEW text, NEW environ, NEW n \in Nat
  PROVE  \E f : Runs(f, text, environ, n)
<1> DEFINE P == {k \in Nat : \E f : Runs(f, text, environ, k)}
<1>1. 0 \in P
  <2> DEFINE f == [i \in 0 .. 0 |-> Start]
  <2>1. \A i \in 0 .. 0 : i = 0
    OBVIOUS
  <2>2. f = [i \in 0 .. 0 |-> IF i = 0 THEN Start ELSE Round(text, environ, f[i - 1])]
    BY <2>1
  <2> QED BY <2>2 DEF Runs
<1>2. ASSUME NEW k \in Nat, k \in P PROVE k + 1 \in P
  <2>1. PICK f : Runs(f, text, environ, k)
    BY <1>2
  <2> DEFINE g == [i \in 0 .. k + 1 |->
                    IF i = k + 1 THEN Round(text, environ, f[k]) ELSE f[i]]
             h == [i \in 0 .. k + 1 |->
                    IF i = 0 THEN Start ELSE Round(text, environ, g[i - 1])]
  <2>2. f[0] = Start /\ \A i \in 0 .. k - 1 : f[i + 1] = Round(text, environ, f[i])
    BY <2>1, RunsAt
  <2>3. ASSUME NEW i \in 0 .. k + 1 PROVE g[i] = h[i]
    <3>1. CASE i = 0
      BY <2>2, <3>1
    <3>2. CASE i # 0
      <4>1. i - 1 \in 0 .. k /\ i - 1 \in 0 .. k + 1 /\ i - 1 + 1 = i /\ i - 1 # k + 1
        BY <3>2
      <4>2. g[i - 1] = f[i - 1]
        BY <4>1
      <4>3. h[i] = Round(text, environ, f[i - 1])
        BY <3>2, <4>2
      <4>4. CASE i = k + 1
        <5>1. i - 1 = k /\ k + 1 \in 0 .. k + 1
          BY <4>4
        <5>2. g[i] = Round(text, environ, f[k])
          BY <4>4, <5>1
        <5> QED BY <4>3, <5>1, <5>2
      <4>5. CASE i # k + 1
        <5>1. i - 1 \in 0 .. k - 1 /\ g[i] = f[i]
          BY <3>2, <4>5
        <5> QED BY <2>2, <4>1, <4>3, <5>1
      <4> QED BY <4>4, <4>5
    <3> QED BY <3>1, <3>2
  <2>4. DOMAIN g = 0 .. k + 1 /\ DOMAIN h = 0 .. k + 1
        /\ g = [i \in 0 .. k + 1 |-> g[i]] /\ h = [i \in 0 .. k + 1 |-> h[i]]
    OBVIOUS
  <2>5. g = h
    <3> HIDE DEF g, h
    <3> QED BY <2>3, <2>4
  <2>6. Runs(g, text, environ, k + 1)
    <3> HIDE DEF g
    <3> QED BY <2>5 DEF Runs
  <2> QED BY <2>6
<1> HIDE DEF P
<1>3. Nat \subseteq P
  BY <1>1, <1>2, AllNumbers
<1> QED BY <1>3 DEF P

\* Rounds is where it is in the end.
LEMMA LoopIs ==
  ASSUME NEW T, NEW text \in Seq(T), NEW environ
  PROVE  \E f : /\ f[0] = Start
                /\ \A i \in 0 .. Len(text) - 1 : f[i + 1] = Round(text, environ, f[i])
                /\ Rounds(text, environ) = f[Len(text)]
<1> DEFINE n == Len(text)
           Is(f) == f = [i \in 0 .. n |-> IF i = 0 THEN Start
                                          ELSE Round(text, environ, f[i - 1])]
           f == CHOOSE f : Is(f)
<1>0. n \in Nat
  OBVIOUS
<1>1. Is(f)
  <2>1. \E g : Runs(g, text, environ, n)
    <3> HIDE DEF n
    <3> QED BY <1>0, RunsExist
  <2>2. \E g : Is(g)
    BY <2>1 DEF Runs
  <2> HIDE DEF Is
  <2> QED BY <2>2
<1>2. Runs(f, text, environ, n)
  <2> HIDE DEF f
  <2> QED BY <1>1 DEF Runs
<1>3. Rounds(text, environ) = f[n]
  BY Zenon DEF Rounds, Start
<1> HIDE DEF f, n
<1>4. f[0] = Start /\ \A i \in 0 .. n - 1 : f[i + 1] = Round(text, environ, f[i])
  BY <1>0, <1>2, RunsAt
<1> QED BY <1>3, <1>4 DEF n
\* A match begins at i.
Begins(text, i) == \E j \in i + 4 .. Len(text) : Matches(text, i, j)

\* regexec finds the first match from the cursor on, if there is one.
LEMMA MatchIs ==
  ASSUME NEW text \in Texts, NEW cursor \in 1 .. Len(text) + 1
  PROVE  \/ /\ Match(text, cursor) = [so |-> Len(text) + 1, eo |-> Len(text) + 1]
            /\ \A i \in cursor .. Len(text) : ~ Begins(text, i)
         \/ \E i \in cursor .. Len(text) : \E j \in i + 4 .. Len(text) :
              /\ Matches(text, i, j) /\ Match(text, cursor) = [so |-> i, eo |-> j + 1]
              /\ \A k \in cursor .. i - 1 : ~ Begins(text, k)
<1> DEFINE begins == {i \in cursor .. Len(text) : \E j \in i + 4 .. Len(text) : Matches(text, i, j)}
           so == CHOOSE i \in begins : \A k \in begins : i <= k
           eo == CHOOSE j \in so + 4 .. Len(text) : Matches(text, so, j)
<1>0. Len(text) \in Nat
  BY DEF Texts
<1>1. Match(text, cursor) = IF begins = {} THEN [so |-> Len(text) + 1, eo |-> Len(text) + 1]
                            ELSE [so |-> so, eo |-> eo + 1]
  BY Zenon DEF Match
<1>2. \A i \in cursor .. Len(text) : i \in begins <=> Begins(text, i)
  BY DEF Begins
<1>3. CASE begins = {}
  <2> HIDE DEF begins, so, eo
  <2> QED BY <1>1, <1>2, <1>3
<1>4. CASE begins # {}
  <2>1. begins \subseteq Nat /\ begins \subseteq cursor .. Len(text)
    BY <1>0
  <2>2. \E i \in begins : \A k \in begins : i <= k
    <3> HIDE DEF begins
    <3>0. IsWellFoundedOn(Less, Nat)
      BY NatLessThanWellFounded, Zenon DEF OpToRel, Less
    <3>1. PICK i \in begins : \A k \in begins : ~ <<k, i>> \in Less
      BY <1>4, <2>1, <3>0, WFMin
    <3>2. ASSUME NEW k \in begins PROVE i <= k
      <4>1. i \in Nat /\ k \in Nat
        BY <2>1
      <4>2. ~ (k < i)
        BY <3>1, <4>1 DEF Less
      <4> QED BY <4>1, <4>2
    <3> QED BY <3>2
  <2>3. so \in begins /\ \A k \in begins : so <= k
    <3> HIDE DEF begins
    <3> QED BY <2>2
  <2>4. \E j \in so + 4 .. Len(text) : Matches(text, so, j)
    <3> HIDE DEF so
    <3> QED BY <2>3
  <2>5. eo \in so + 4 .. Len(text) /\ Matches(text, so, eo)
    <3> HIDE DEF so
    <3> QED BY <2>4
  <2> HIDE DEF begins, so, eo
  <2>6. \A k \in cursor .. so - 1 : ~ Begins(text, k)
    <3> SUFFICES ASSUME NEW k \in cursor .. so - 1, Begins(text, k) PROVE FALSE
      OBVIOUS
    <3>1. so \in cursor .. Len(text)
      BY <2>1, <2>3
    <3>2. k \in cursor .. Len(text) /\ ~ (so <= k)
      BY <1>0, <3>1
    <3> QED BY <1>2, <2>3, <3>2
  <2> QED BY <1>1, <1>4, <2>1, <2>3, <2>5, <2>6
<1> QED BY <1>3, <1>4

\* A match that begins at i has one end: its name has no "}".
LEMMA OneEnd ==
  ASSUME NEW text, NEW i \in Nat, NEW j \in Nat, NEW k \in Nat, i + 4 <= j, i + 4 <= k,
         Matches(text, i, j), Matches(text, i, k)
  PROVE  j = k
<1>1. ASSUME NEW l \in Nat, NEW m \in Nat, i + 4 <= l, l < m, Matches(text, i, l),
             Matches(text, i, m)
      PROVE  FALSE
  <2>1. l - 1 \in i + 2 .. m - 2
    BY <1>1
  <2> QED BY <1>1, <2>1 DEF Matches
<1>2. ~ (j < k)
  BY <1>1
<1>3. ~ (k < j)
  BY <1>1
<1> QED BY <1>2, <1>3

\* What the loop is in: output is a text that has been written where there is room.
Fit(text) == [text |-> text, fits |-> TRUE]
Output == {Fit(text) : text \in Texts}
Going(text, at) == at.cursor \in 1 .. Len(text) + 1 /\ at.output \in Output

\* What is in the output.
LEMMA OutputIs ==
  ASSUME NEW output \in Output
  PROVE  /\ output.text \in Texts /\ Len(output.text) \in Nat
         /\ output = Fit(output.text) /\ output.fits
<1>1. PICK t \in Texts : output = Fit(t)
  BY DEF Output
<1>2. Fit(t).text = t /\ Fit(t).fits
  BY DEF Fit
<1>3. Len(t) \in Nat
  BY DEF Texts
<1> QED BY <1>1, <1>2, <1>3

\* Two texts, one behind the other.
LEMMA TextsJoin ==
  ASSUME NEW s \in Texts, NEW t \in Texts
  PROVE  /\ s \o t \in Texts /\ Len(s) \in Nat /\ Len(t) \in Nat
         /\ Len(s \o t) = Len(s) + Len(t)
<1>1. s \in Seq(Characters) /\ t \in Seq(Characters)
  BY DEF Texts
<1>2. s \o t \in Seq(Characters) /\ Len(s \o t) = Len(s) + Len(t)
  BY <1>1, ConcatProperties
<1> QED BY <1>1, <1>2 DEF Texts

\* What is where in them.
LEMMA TextsAt ==
  ASSUME NEW s \in Texts, NEW t \in Texts
  PROVE  /\ \A i \in 1 .. Len(s) : (s \o t)[i] = s[i]
         /\ \A i \in 1 .. Len(t) : (s \o t)[Len(s) + i] = t[i]
<1>1. s \in Seq(Characters) /\ t \in Seq(Characters) /\ Len(s) \in Nat /\ Len(t) \in Nat
  BY DEF Texts
<1>2. \A i \in 1 .. Len(s) + Len(t) :
        (s \o t)[i] = IF i <= Len(s) THEN s[i] ELSE t[i - Len(s)]
  BY <1>1, ConcatProperties
<1>3. \A i \in 1 .. Len(s) : i \in 1 .. Len(s) + Len(t) /\ i <= Len(s)
  BY <1>1
<1>4. \A i \in 1 .. Len(t) : /\ Len(s) + i \in 1 .. Len(s) + Len(t) /\ ~ (Len(s) + i <= Len(s))
                             /\ Len(s) + i - Len(s) = i
  BY <1>1
<1> QED BY <1>2, <1>3, <1>4

\* Two characters.
LEMMA PairText ==
  ASSUME NEW x \in Characters, NEW y \in Characters
  PROVE  <<x, y>> \in Texts /\ Len(<<x, y>>) = 2 /\ <<x, y>>[1] = x /\ <<x, y>>[2] = y
BY DEF Texts

\* Something is written where there is room for it and for the 0 behind it.
LEMMA WriteFits ==
  ASSUME NEW output \in Output, NEW piece \in Texts, NEW room \in Nat,
         Len(output.text) + Len(piece) + 1 <= room
  PROVE  Write(output, piece, room) = Fit(output.text \o piece)
         /\ output.text \o piece \in Texts
<1>1. output.fits /\ output.text \in Texts
  BY OutputIs
<1>2. (output.fits /\ Len(output.text) + Len(piece) + 1 <= room) = TRUE
  BY <1>1
<1>3. Write(output, piece, room) = Fit(output.text \o piece)
  BY <1>2, Zenon DEF Write, Fit
<1> QED BY <1>1, <1>3, TextsJoin

\* A part of a text.
LEMMA TextPart ==
  ASSUME NEW text \in Texts, NEW i \in 1 .. Len(text) + 1, NEW j \in Nat, i - 1 <= j, j <= Len(text)
  PROVE  /\ SubSeq(text, i, j) \in Texts /\ Len(SubSeq(text, i, j)) = j - i + 1
         /\ \A k \in 1 .. j - i + 1 : SubSeq(text, i, j)[k] = text[i + k - 1]
<1>1. text \in Seq(Characters) /\ Len(text) \in Nat
  BY DEF Texts
<1>2. i \in 1 .. Len(text) + 1 /\ j \in i - 1 .. Len(text)
  BY <1>1
<1>3. SubSeq(text, i, j) \in Seq(Characters) /\ Len(SubSeq(text, i, j)) =
         IF i <= j THEN j - i + 1 ELSE 0
  BY <1>1, <1>2, SubSeqProperties
<1>4. Len(SubSeq(text, i, j)) = j - i + 1
  BY <1>2, <1>3
<1>5. \A k \in 1 .. j - i + 1 : SubSeq(text, i, j)[k] = text[i + k - 1]
  BY <1>1, <1>2, SubSeqProperties
<1> QED BY <1>3, <1>4, <1>5 DEF Texts
\* What a name is replaced with.
Becomes(name) == IF name \in DOMAIN Environ THEN Environ[name] ELSE Unset(name)

\* Referred and what they become are texts.
LEMMA BecomesText ==
  ASSUME NEW name \in Texts
  PROVE  Becomes(name) \in Texts /\ Unset(name) \in Texts /\ Len(Unset(name)) = Len(name) + 4
<1>1. <<"{", "{">> \in Texts /\ <<"}", "}">> \in Texts
      /\ Len(<<"{", "{">>) = 2 /\ Len(<<"}", "}">>) = 2
  <2>1. "{" \in Characters /\ "}" \in Characters
    BY ReplaceAssumed DEF ReplaceAssumption
  <2> QED BY <2>1, PairText
<1> DEFINE front == <<"{", "{">>
           back == <<"}", "}">>
<1>2. Unset(name) = (front \o name) \o back
  BY DEF Unset
<1>3. front \in Texts /\ back \in Texts /\ Len(front) = 2 /\ Len(back) = 2
  BY <1>1
<1> HIDE DEF front, back
<1>4a. Len(name) \in Nat
  BY <1>3, TextsJoin
<1>4b. front \o name \in Texts
  BY <1>3, TextsJoin
<1>4c. Len(front \o name) = Len(front) + Len(name)
  BY <1>3, TextsJoin
<1>4. front \o name \in Texts /\ Len(front \o name) = Len(name) + 2 /\ Len(name) \in Nat
  BY <1>3, <1>4a, <1>4b, <1>4c
<1>5. (front \o name) \o back \in Texts /\ Len((front \o name) \o back) = Len(name) + 4
  BY <1>3, <1>4, TextsJoin
<1>6. name \in DOMAIN Environ => Environ[name] \in Texts
  BY ReplaceAssumed DEF ReplaceAssumption
<1> QED BY <1>2, <1>5, <1>6 DEF Becomes

\* A round that finds a match writes what is in front of it and what its name
\* becomes, and goes on behind it.
LEMMA RoundReplaces ==
  ASSUME NEW text \in Texts, NEW at, Going(text, at),
         NEW i \in at.cursor .. Len(text), NEW j \in i + 4 .. Len(text),
         Match(text, at.cursor) = [so |-> i, eo |-> j + 1]
  PROVE  LET front == SubSeq(text, at.cursor, i - 1)
             name == SubSeq(text, i + 2, j - 2)
         IN  /\ Round(text, Environ, at) =
                  [cursor |-> j + 1,
                   output |-> Fit((at.output.text \o front) \o Becomes(name))]
             /\ front \in Texts /\ name \in Texts
             /\ Going(text, Round(text, Environ, at))
<1> DEFINE match == Match(text, at.cursor)
           front == SubSeq(text, at.cursor, i - 1)
           name == SubSeq(text, i + 2, j - 2)
           copied == IF front = <<>> THEN at.output
                     ELSE Write(at.output, front, Len(at.output.text) + Len(front) + 1)
           outlen == Len(copied.text)
           output == IF name \in DOMAIN Environ
                     THEN Write(copied, Environ[name], outlen + Len(Environ[name]) + 1)
                     ELSE Write(copied, Unset(name), outlen + (Len(name) + 1) + 5)
           written == Fit(at.output.text \o front)
           result == Fit((at.output.text \o front) \o Becomes(name))
<1>0. /\ Len(text) \in Nat /\ at.cursor \in 1 .. Len(text) + 1
      /\ i \in Nat /\ j \in Nat /\ i + 4 <= j /\ j <= Len(text)
      /\ match.so = i /\ match.eo = j + 1 /\ match.eo - 3 = j - 2 /\ ~ (match.so > Len(text))
  BY DEF Going, Texts
<1>1. Round(text, Environ, at) = [cursor |-> j + 1, output |-> output]
  BY <1>0 DEF Round
<1>2. front \in Texts /\ Len(front) \in Nat
  BY <1>0, TextPart DEF Texts
<1>3. name \in Texts /\ Len(name) \in Nat
  BY <1>0, TextPart DEF Texts
<1>4. at.output \in Output /\ at.output.text \in Texts /\ Len(at.output.text) \in Nat
      /\ at.output = Fit(at.output.text)
  BY OutputIs DEF Going
<1> HIDE DEF match, front, name
<1>5. copied = written /\ at.output.text \o front \in Texts
  <2>1. CASE front = <<>>
    <3>1. at.output.text \o <<>> = at.output.text
      BY <1>4, ConcatEmptySeq DEF Texts
    <3> QED BY <1>4, <2>1, <3>1
  <2>2. CASE front # <<>>
    <3>1. Write(at.output, front, Len(at.output.text) + Len(front) + 1) = written
          /\ at.output.text \o front \in Texts
      BY <1>2, <1>4, WriteFits
    <3> QED BY <2>2, <3>1
  <2> QED BY <2>1, <2>2
<1>6. copied \in Output /\ copied.text = at.output.text \o front /\ outlen \in Nat
  <2>1. copied = Fit(at.output.text \o front)
    BY <1>5
  <2> DEFINE whole == at.output.text \o front
  <2>a. copied = Fit(whole) /\ whole \in Texts
    BY <1>5
  <2> HIDE DEF whole, copied
  <2>b. copied \in Output /\ copied.text = whole
    BY <2>a DEF Output, Fit
  <2>2. copied \in Output /\ copied.text = at.output.text \o front
    BY <2>b DEF whole
  <2> QED BY <2>2, OutputIs
<1>7. /\ Becomes(name) \in Texts /\ Unset(name) \in Texts /\ Len(Becomes(name)) \in Nat
      /\ Len(Unset(name)) = Len(name) + 4
  BY <1>3, BecomesText DEF Texts
<1> HIDE DEF copied
<1>8. output = Fit(copied.text \o Becomes(name))
      /\ copied.text \o Becomes(name) \in Texts
  <2>1. CASE name \in DOMAIN Environ
    <3>1. Becomes(name) = Environ[name] /\ Environ[name] \in Texts /\ Len(Environ[name]) \in Nat
      BY <1>7, <2>1 DEF Becomes
    <3> DEFINE room == outlen + Len(Environ[name]) + 1
    <3>c. Len(copied.text) \in Nat /\ Len(Environ[name]) \in Nat
      BY <1>6, <3>1
    <3> DEFINE a == Len(copied.text)
               b == Len(Environ[name])
    <3>d. a \in Nat /\ b \in Nat /\ room = a + b + 1
      BY <3>c
    <3>a. room \in Nat /\ Len(copied.text) + Len(Environ[name]) + 1 <= room
      <4> HIDE DEF room, a, b
      <4>1. room \in Nat /\ a + b + 1 <= room
        BY ONLY <3>d
      <4> QED BY <4>1 DEF a, b
    <3> HIDE DEF room
    <3>b. Write(copied, Environ[name], room) = Fit(copied.text \o Environ[name])
          /\ copied.text \o Environ[name] \in Texts
      BY <1>6, <3>1, <3>a, WriteFits
    <3>2. Write(copied, Environ[name], outlen + Len(Environ[name]) + 1)
            = Fit(copied.text \o Environ[name])
          /\ copied.text \o Environ[name] \in Texts
      BY <3>b DEF room
    <3> QED BY <2>1, <3>1, <3>2
  <2>2. CASE name \notin DOMAIN Environ
    <3>1. Becomes(name) = Unset(name)
      BY <2>2 DEF Becomes
    <3> DEFINE room == outlen + (Len(name) + 1) + 5
    <3>c. Len(copied.text) \in Nat /\ Len(name) \in Nat /\ Len(Unset(name)) = Len(name) + 4
      BY <1>3, <1>6, <1>7
    <3> DEFINE a == Len(copied.text)
               b == Len(Unset(name))
               c == Len(name)
    <3>d. a \in Nat /\ c \in Nat /\ b = c + 4 /\ room = a + (c + 1) + 5
      BY <3>c
    <3>a. room \in Nat /\ Len(copied.text) + Len(Unset(name)) + 1 <= room
      <4> HIDE DEF room, a, b, c
      <4>1. room \in Nat /\ a + b + 1 <= room
        BY ONLY <3>d
      <4> QED BY <4>1 DEF a, b
    <3> HIDE DEF room
    <3>b. Write(copied, Unset(name), room) = Fit(copied.text \o Unset(name))
          /\ copied.text \o Unset(name) \in Texts
      BY <1>6, <1>7, <3>a, WriteFits
    <3>2. Write(copied, Unset(name), outlen + (Len(name) + 1) + 5)
            = Fit(copied.text \o Unset(name))
          /\ copied.text \o Unset(name) \in Texts
      BY <3>b DEF room
    <3> QED BY <2>2, <3>1, <3>2
  <2> QED BY <2>1, <2>2
<1>9. output = result /\ result \in Output
  BY <1>6, <1>8 DEF Output
<1> HIDE DEF output, result
<1>10. Going(text, Round(text, Environ, at))
  BY <1>0, <1>1, <1>9 DEF Going
<1>11. Round(text, Environ, at) = [cursor |-> j + 1, output |-> result]
  BY <1>1, <1>9
<1> QED BY <1>2, <1>3, <1>10, <1>11 DEF result, front, name

\* A round that finds none changes nothing.
LEMMA RoundEnds ==
  ASSUME NEW text \in Texts, NEW at,
         Match(text, at.cursor) = [so |-> Len(text) + 1, eo |-> Len(text) + 1]
  PROVE  Round(text, Environ, at) = at
<1>1. Match(text, at.cursor).so > Len(text)
  BY DEF Texts
<1> QED BY <1>1, Zenon DEF Round
\* Each round leaves the loop in a place of the text, with output where there is room.
LEMMA RoundGoes ==
  ASSUME NEW text \in Texts, NEW at, Going(text, at)
  PROVE  Going(text, Round(text, Environ, at))
<1>1. at.cursor \in 1 .. Len(text) + 1
  BY DEF Going
<1>2. CASE Match(text, at.cursor) = [so |-> Len(text) + 1, eo |-> Len(text) + 1]
  BY <1>2, RoundEnds
<1>3. ASSUME NEW i \in at.cursor .. Len(text), NEW j \in i + 4 .. Len(text),
             Match(text, at.cursor) = [so |-> i, eo |-> j + 1]
      PROVE  Going(text, Round(text, Environ, at))
  BY <1>3, RoundReplaces
<1> QED BY <1>1, <1>2, <1>3, MatchIs

\* What is behind the last match is appended.
LEMMA ReplacedIs ==
  ASSUME NEW text \in Texts, Going(text, Rounds(text, Environ))
  PROVE  /\ replace_system_props(text, Environ) =
              Fit(Rounds(text, Environ).output.text
                    \o SubSeq(text, Rounds(text, Environ).cursor, Len(text)))
         /\ replace_system_props(text, Environ) \in Output
<1> DEFINE at == Rounds(text, Environ)
           rest == SubSeq(text, at.cursor, Len(text))
           output == at.output.text
<1>1. at.output \in Output /\ at.cursor \in 1 .. Len(text) + 1 /\ Len(text) \in Nat
  BY DEF Going, Texts
<1>2. rest \in Texts /\ Len(rest) \in Nat
  BY <1>1, TextPart DEF Texts
<1>3. output \in Texts /\ Len(output) \in Nat /\ at.output = Fit(output)
  BY <1>1, OutputIs
<1>4. replace_system_props(text, Environ) =
        IF rest = <<>> THEN at.output
        ELSE Write(at.output, rest, Len(at.output.text) + Len(rest) + 1)
  BY Zenon DEF replace_system_props
<1> HIDE DEF at, rest
<1>5. CASE rest = <<>>
  <2>1. output \o <<>> = output
    BY <1>3, ConcatEmptySeq DEF Texts
  <2>2. replace_system_props(text, Environ) = Fit(output \o rest)
    BY <1>3, <1>4, <1>5, <2>1
  <2> QED BY <1>1, <1>4, <1>5, <2>2 DEF at, rest
<1>6. CASE rest # <<>>
  <2> DEFINE room == Len(output) + Len(rest) + 1
  <2>1. room \in Nat /\ Len(output) + Len(rest) + 1 <= room
    BY <1>2, <1>3
  <2> HIDE DEF room
  <2>2. Write(at.output, rest, room) = Fit(output \o rest) /\ output \o rest \in Texts
    BY <1>1, <1>2, <2>1, WriteFits
  <2>3. replace_system_props(text, Environ) = Fit(output \o rest)
    BY <1>4, <1>6, <2>2 DEF room
  <2> QED BY <2>2, <2>3 DEF Output, at, rest
<1> QED BY <1>5, <1>6

\* Whatever the text, replace_system_props writes only where it has got room.
THEOREM RoomSuffices ==
  \A text \in Texts : replace_system_props(text, Environ).fits
<1> SUFFICES ASSUME NEW text \in Texts PROVE replace_system_props(text, Environ).fits
  OBVIOUS
<1>1. text \in Seq(Characters) /\ Len(text) \in Nat
  BY DEF Texts
<1>2. PICK f : /\ f[0] = Start
               /\ \A i \in 0 .. Len(text) - 1 : f[i + 1] = Round(text, Environ, f[i])
               /\ Rounds(text, Environ) = f[Len(text)]
  BY <1>1, LoopIs
<1> DEFINE P == {i \in Nat : i <= Len(text) => Going(text, f[i])}
<1>3. 0 \in P
  <2>1. Going(text, Start)
    <3>1. <<>> \in Texts
      BY EmptySeq DEF Texts
    <3>2. Fit(<<>>) \in Output
      BY <3>1 DEF Output
    <3> QED BY <1>1, <3>2 DEF Going, Start, Fit
  <2> QED BY <1>2, <2>1
<1>4. ASSUME NEW i \in Nat, i \in P PROVE i + 1 \in P
  <2> SUFFICES ASSUME i + 1 <= Len(text) PROVE Going(text, f[i + 1])
    OBVIOUS
  <2>1. i \in 0 .. Len(text) - 1 /\ Going(text, f[i])
    BY <1>1, <1>4
  <2>2. Going(text, Round(text, Environ, f[i]))
    BY <2>1, RoundGoes
  <2> QED BY <1>2, <2>1, <2>2
<1> HIDE DEF P
<1>5. Nat \subseteq P
  BY <1>3, <1>4, AllNumbers
<1>6. Going(text, Rounds(text, Environ))
  BY <1>1, <1>2, <1>5 DEF P
<1>7. replace_system_props(text, Environ) \in Output
  BY <1>6, ReplacedIs
<1> QED BY <1>7, OutputIs
\* The first n characters of a text have become so much, if what is behind the cursor
\* is appended; no match begins there.
Done(text, at, n, became) ==
  /\ Going(text, at) /\ at.cursor <= n + 1
  /\ at.output.text \o SubSeq(text, at.cursor, n) = became
  /\ \A i \in at.cursor .. n : ~ Begins(text, i)

\* p is in text behind the first n characters.
Behind(text, n, p) == n + Len(p) <= Len(text) /\ \A m \in 1 .. Len(p) : text[n + m] = p[m]

\* No match begins in a plain text.
LEMMA PlainBeginsNone ==
  ASSUME NEW text \in Texts, NEW n \in Nat, NEW p \in Texts, IsPlain(p), Behind(text, n, p),
         NEW m \in 1 .. Len(p)
  PROVE  ~ Begins(text, n + m)
<1> DEFINE i == n + m
<1>0. Len(p) \in Nat /\ Len(text) \in Nat /\ i \in Nat /\ m \in Nat
  BY DEF Texts
<1>1. SUFFICES ASSUME NEW j \in i + 4 .. Len(text), Matches(text, i, j) PROVE FALSE
  BY DEF Begins
<1>2. j \in Nat /\ i + 4 <= j
  BY <1>0
<1>3. text[i] = "{" /\ text[i + 1] = "{" /\ text[j - 1] = "}" /\ text[j] = "}"
      /\ \A x \in i + 2 .. j - 2 : text[x] \notin Stops
  BY <1>1 DEF Matches, Stops
<1>4. \A x \in 1 .. Len(p) : text[n + x] = p[x]
  BY DEF Behind
<1>5. p[m] = "{"
  BY <1>3, <1>4
<1>6. p # <<>> /\ m # Len(p)
  <2>1. p # <<>>
    BY <1>0, EmptySeq
  <2> QED BY <1>5, <2>1 DEF IsPlain
<1>7. m \in 1 .. Len(p) - 1 /\ m + 1 \in 1 .. Len(p)
  BY <1>0, <1>6
<1>8. p[m + 1] = "{"
  <2>1. n + (m + 1) = i + 1
    BY <1>0
  <2> QED BY <1>3, <1>4, <1>7, <2>1
<1>9. PICK k \in m + 2 .. Len(p) :
        /\ p[k] \in Stops /\ \A x \in m + 2 .. k - 1 : p[x] \notin Stops
        /\ k = m + 2 \/ p[k] = " " \/ (k < Len(p) /\ p[k + 1] # "}")
  BY <1>5, <1>7, <1>8 DEF IsPlain
<1>10. k \in Nat /\ k \in 1 .. Len(p) /\ n + k \in Nat /\ text[n + k] = p[k]
  BY <1>0, <1>4
<1>11. n + k > j - 2
  <2>1. SUFFICES ASSUME n + k <= j - 2 PROVE FALSE
    BY <1>2, <1>10
  <2>2. n + k \in i + 2 .. j - 2
    BY <1>0, <1>2, <1>10, <2>1
  <2> QED BY <1>3, <1>9, <1>10, <2>2
<1>12. k # m + 2
  BY <1>0, <1>2, <1>10, <1>11
<1>13. n + k = j - 1
  <2>1. SUFFICES ASSUME n + k > j - 1 PROVE FALSE
    BY <1>2, <1>10, <1>11
  <2> DEFINE x == j - 1 - n
  <2>2. x \in m + 2 .. k - 1 /\ x \in 1 .. Len(p) /\ n + x = j - 1
    BY <1>0, <1>2, <1>10, <2>1
  <2> HIDE DEF x
  <2>3. p[x] = "}"
    BY <1>3, <1>4, <2>2
  <2> QED BY <1>9, <2>2, <2>3 DEF Stops
<1>14. p[k] = "}"
  BY <1>3, <1>10, <1>13
<1>15. k < Len(p) /\ p[k + 1] # "}"
  BY <1>9, <1>12, <1>14
<1>16. k + 1 \in 1 .. Len(p) /\ n + (k + 1) = j
  <2>1. k < Len(p)
    BY <1>15
  <2> QED BY <1>0, <1>2, <1>10, <1>13, <2>1
<1> QED BY <1>3, <1>4, <1>15, <1>16

\* A plain text behind what is done is left as it is.
LEMMA PlainTaken ==
  ASSUME NEW text \in Texts, NEW at, NEW n \in Nat, NEW became \in Texts,
         Done(text, at, n, became), NEW p \in Texts, IsPlain(p), Behind(text, n, p)
  PROVE  Done(text, at, n + Len(p), became \o p)
<1> DEFINE c == at.cursor
           output == at.output.text
           done == SubSeq(text, c, n)
<1>1. /\ Len(text) \in Nat /\ Len(p) \in Nat /\ c \in 1 .. Len(text) + 1 /\ c <= n + 1
      /\ Going(text, at) /\ output \o done = became /\ output \in Texts
      /\ n + Len(p) <= Len(text)
  BY OutputIs DEF Done, Going, Texts, Behind
<1>2. done \in Texts
  BY <1>1, TextPart
<1>3. SubSeq(text, c, n + Len(p)) = done \o p
  <2>1. text \in Seq(Characters) /\ n \in c - 1 .. Len(text)
        /\ n + Len(p) \in n .. Len(text) /\ c \in 1 .. Len(text) + 1
    BY <1>1 DEF Texts
  <2>2. SubSeq(text, c, n) \o SubSeq(text, n + 1, n + Len(p)) = SubSeq(text, c, n + Len(p))
    BY <2>1, ConcatAdjacentSubSeq
  <2> DEFINE l == n + 1
             r == n + Len(p)
             q == SubSeq(text, l, r)
  <2>3a. l \in 1 .. Len(text) + 1 /\ r \in Nat /\ l - 1 <= r /\ r <= Len(text)
         /\ r - l + 1 = Len(p) /\ \A k \in 1 .. Len(p) : l + k - 1 = n + k
    BY <1>1
  <2> HIDE DEF l, r
  <2>3. q \in Texts /\ Len(q) = r - l + 1 /\ \A k \in 1 .. r - l + 1 : q[k] = text[l + k - 1]
    BY <2>3a, TextPart
  <2>4. Len(q) = Len(p)
    BY <2>3, <2>3a
  <2>5. ASSUME NEW k \in 1 .. Len(q) PROVE q[k] = p[k]
    <3>1. k \in 1 .. Len(p) /\ q[k] = text[n + k]
      BY <2>3, <2>3a, <2>4
    <3> QED BY <3>1 DEF Behind
  <2> HIDE DEF q
  <2>6. q = p
    BY <2>3, <2>4, <2>5, SeqEqual DEF Texts
  <2> QED BY <2>2, <2>6 DEF q, l, r
<1> HIDE DEF done
<1>4. output \o (done \o p) = became \o p
  <2>a. output \in Seq(Characters) /\ done \in Seq(Characters) /\ p \in Seq(Characters)
    BY <1>1, <1>2 DEF Texts
  <2> HIDE DEF output
  <2>1. (output \o done) \o p = output \o (done \o p)
    BY <2>a, ConcatAssociative
  <2> QED BY <1>1, <2>1
<1>5. ASSUME NEW i \in c .. n + Len(p) PROVE ~ Begins(text, i)
  <2>1. CASE i <= n
    <3>1. i \in c .. n
      BY <1>1, <2>1
    <3> QED BY <3>1 DEF Done
  <2>2. CASE i > n
    <3> DEFINE m == i - n
    <3>1. m \in 1 .. Len(p) /\ n + m = i
      BY <1>1, <2>2
    <3> HIDE DEF m
    <3>2. ~ Begins(text, n + m)
      BY <3>1, PlainBeginsNone
    <3> QED BY <3>1, <3>2
  <2> QED BY <1>1, <2>1, <2>2
<1>6. c <= n + Len(p) + 1
  BY <1>1
<1> DEFINE end == n + Len(p)
<1>7. /\ Going(text, at) /\ c <= end + 1 /\ output \o SubSeq(text, c, end) = became \o p
      /\ \A i \in c .. end : ~ Begins(text, i)
  BY <1>1, <1>3, <1>4, <1>5, <1>6
<1> HIDE DEF end
<1>8. Done(text, at, end, became \o p)
  BY <1>7 DEF Done
<1> QED BY <1>8 DEF end

\* What can be referred to.
IsName(name) ==
  name \in Texts /\ name # <<>> /\ \A k \in DOMAIN name : name[k] \notin Stops

\* Where the characters of a reference are.
LEMMA ReferenceAt ==
  ASSUME NEW name \in Texts
  PROVE  /\ Reference(name) \in Texts /\ Len(name) \in Nat
         /\ Len(Reference(name)) = Len(name) + 4
         /\ Reference(name)[1] = "{" /\ Reference(name)[2] = "{"
         /\ \A k \in 1 .. Len(name) : Reference(name)[k + 2] = name[k]
         /\ Reference(name)[Len(name) + 3] = "}" /\ Reference(name)[Len(name) + 4] = "}"
<1> DEFINE front == <<"{", "{">>
           back == <<"}", "}">>
           whole == (front \o name) \o back
<1>1. "{" \in Characters /\ "}" \in Characters
  BY ReplaceAssumed DEF ReplaceAssumption
<1>2. /\ front \in Texts /\ Len(front) = 2 /\ front[1] = "{" /\ front[2] = "{"
      /\ back \in Texts /\ Len(back) = 2 /\ back[1] = "}" /\ back[2] = "}"
  BY <1>1, PairText
<1>2n. Len(front) = 2 /\ Len(back) = 2
  BY <1>2
<1>3. Reference(name) = whole
  BY DEF Reference
<1> HIDE DEF front, back
<1>4. Len(name) \in Nat
  BY DEF Texts
<1> DEFINE most == front \o name
<1>5. most \in Texts
  BY <1>2, TextsJoin
<1>6. Len(most) = Len(front) + Len(name)
  BY <1>2, TextsJoin
<1>7. Len(most) = Len(name) + 2
  BY <1>2n, <1>4, <1>6
<1>8. \A k \in 1 .. Len(front) : most[k] = front[k]
  BY <1>2, TextsAt
<1>9. \A k \in 1 .. Len(name) : most[Len(front) + k] = name[k]
  BY <1>2, TextsAt
<1> HIDE DEF most
<1>10. whole = most \o back
  BY DEF most
<1>11. most \o back \in Texts
  BY <1>2, <1>5, TextsJoin
<1>12. Len(most \o back) = Len(most) + Len(back)
  BY <1>2, <1>5, TextsJoin
<1>13. \A k \in 1 .. Len(most) : (most \o back)[k] = most[k]
  BY <1>2, <1>5, TextsAt
<1>14. \A k \in 1 .. Len(back) : (most \o back)[Len(most) + k] = back[k]
  BY <1>2, <1>5, TextsAt
<1> HIDE DEF whole
<1>15. whole \in Texts /\ Len(whole) = Len(name) + 4
  BY <1>2n, <1>4, <1>7, <1>10, <1>11, <1>12
<1>16. \A k \in 1 .. Len(name) + 2 : whole[k] = most[k]
  BY <1>7, <1>10, <1>13
<1>17. whole[1] = "{" /\ whole[2] = "{"
  <2>1. 1 \in 1 .. Len(front) /\ 2 \in 1 .. Len(front)
        /\ 1 \in 1 .. Len(name) + 2 /\ 2 \in 1 .. Len(name) + 2
    BY <1>2n, <1>4
  <2> QED BY <1>2, <1>8, <1>16, <2>1
<1>18. \A k \in 1 .. Len(name) : whole[k + 2] = name[k]
  <2> SUFFICES ASSUME NEW k \in 1 .. Len(name) PROVE whole[k + 2] = name[k]
    OBVIOUS
  <2>1. k + 2 \in 1 .. Len(name) + 2 /\ Len(front) + k = k + 2
    BY <1>2n, <1>4
  <2> QED BY <1>9, <1>16, <2>1
<1>19. whole[Len(name) + 3] = "}" /\ whole[Len(name) + 4] = "}"
  <2>1. Len(most) + 1 = Len(name) + 3 /\ Len(most) + 2 = Len(name) + 4
        /\ 1 \in 1 .. Len(back) /\ 2 \in 1 .. Len(back)
    BY <1>2n, <1>4, <1>7
  <2> QED BY <1>2, <1>10, <1>14, <2>1
<1> QED BY <1>3, <1>4, <1>15, <1>17, <1>18, <1>19
\* A reference behind what is done is what the next round replaces.
LEMMA ReferenceTaken ==
  ASSUME NEW text \in Texts, NEW at, NEW n \in Nat, NEW became \in Texts,
         Done(text, at, n, became), NEW name, IsName(name), Behind(text, n, Reference(name))
  PROVE  Done(text, Round(text, Environ, at), n + Len(Reference(name)), became \o Becomes(name))
<1> DEFINE c == at.cursor
           i == n + 1
           j == n + (Len(name) + 4)
           end == n + Len(Reference(name))
<1>1. /\ name \in Texts /\ Len(name) \in Nat /\ Len(name) # 0
      /\ \A k \in 1 .. Len(name) : name[k] \notin Stops
  <2>1. name \in Texts /\ name # <<>> /\ \A k \in DOMAIN name : name[k] \notin Stops
    BY DEF IsName
  <2>2. Len(name) \in Nat /\ DOMAIN name = 1 .. Len(name) /\ Len(name) # 0
    BY <2>1, EmptySeq DEF Texts
  <2> QED BY <2>1, <2>2
<1>2. /\ Len(Reference(name)) = Len(name) + 4
      /\ Reference(name)[1] = "{" /\ Reference(name)[2] = "{"
      /\ \A k \in 1 .. Len(name) : Reference(name)[k + 2] = name[k]
      /\ Reference(name)[Len(name) + 3] = "}" /\ Reference(name)[Len(name) + 4] = "}"
  BY <1>1, ReferenceAt
<1>2l. end = j
  BY <1>2
<1>3. /\ j <= Len(text) /\ Len(text) \in Nat
      /\ \A m \in 1 .. Len(name) + 4 : text[n + m] = Reference(name)[m]
  <2>1. n + Len(Reference(name)) <= Len(text)
        /\ \A m \in 1 .. Len(Reference(name)) : text[n + m] = Reference(name)[m]
    BY DEF Behind
  <2>2. Len(text) \in Nat
    BY DEF Texts
  <2>3. \A m \in 1 .. Len(name) + 4 : text[n + m] = Reference(name)[m]
    BY <1>2, <2>1
  <2> QED BY <1>2l, <2>1, <2>2, <2>3
<1>4. /\ c \in 1 .. Len(text) + 1 /\ Going(text, at) /\ c <= n + 1
      /\ at.output.text \o SubSeq(text, c, n) = became
      /\ \A k \in c .. n : ~ Begins(text, k)
  BY DEF Done, Going
<1>5. i \in c .. Len(text) /\ j \in i + 4 .. Len(text) /\ i \in Nat /\ j \in Nat
  BY <1>1, <1>3, <1>4
<1>6. \A k \in i + 2 .. j - 2 : text[k] = name[k - n - 2] /\ text[k] \notin Stops
  <2> SUFFICES ASSUME NEW k \in i + 2 .. j - 2
               PROVE  text[k] = name[k - n - 2] /\ text[k] \notin Stops
    OBVIOUS
  <2> DEFINE m == k - n - 2
  <2>1. m \in 1 .. Len(name) /\ m + 2 \in 1 .. Len(name) + 4 /\ n + (m + 2) = k
    BY <1>1, <1>5
  <2> HIDE DEF m
  <2>2. text[k] = name[m]
    BY <1>2, <1>3, <2>1
  <2> QED BY <1>1, <2>1, <2>2 DEF m
<1>7. Matches(text, i, j)
  <2>1. /\ 1 \in 1 .. Len(name) + 4 /\ 2 \in 1 .. Len(name) + 4
        /\ Len(name) + 3 \in 1 .. Len(name) + 4 /\ Len(name) + 4 \in 1 .. Len(name) + 4
        /\ n + 2 = i + 1 /\ n + (Len(name) + 3) = j - 1
    BY <1>1
  <2>2. text[i] = "{" /\ text[i + 1] = "{" /\ text[j - 1] = "}" /\ text[j] = "}"
    BY <1>2, <1>3, <2>1
  <2> QED BY <1>6, <2>2 DEF Matches, Stops
<1>8. Begins(text, i)
  BY <1>5, <1>7 DEF Begins
<1> HIDE DEF j, i
<1>9. Match(text, c) = [so |-> i, eo |-> j + 1]
  <2>1. ~ \A k \in c .. Len(text) : ~ Begins(text, k)
    BY <1>5, <1>8
  <2>2. PICK x \in c .. Len(text) : \E y \in x + 4 .. Len(text) :
              /\ Matches(text, x, y) /\ Match(text, c) = [so |-> x, eo |-> y + 1]
              /\ \A k \in c .. x - 1 : ~ Begins(text, k)
    BY <1>4, <2>1, MatchIs
  <2>3. PICK y \in x + 4 .. Len(text) :
              /\ Matches(text, x, y) /\ Match(text, c) = [so |-> x, eo |-> y + 1]
              /\ \A k \in c .. x - 1 : ~ Begins(text, k)
    BY <2>2
  <2>4. Begins(text, x) /\ x \in Nat /\ y \in Nat /\ x + 4 <= y
    BY <1>3, <1>4, <2>3 DEF Begins
  <2>5. ~ (x < i)
    <3> SUFFICES ASSUME x < i PROVE FALSE
      OBVIOUS
    <3>1. x \in c .. n
      BY <1>4, <2>4 DEF i
    <3> QED BY <1>4, <2>4, <3>1
  <2>6. ~ (i < x)
    <3> SUFFICES ASSUME i < x PROVE FALSE
      OBVIOUS
    <3>1. i \in c .. x - 1
      BY <1>5, <2>4
    <3> QED BY <1>8, <2>3, <3>1
  <2>7. x = i
    BY <1>5, <2>4, <2>5, <2>6
  <2>8. y = j
    BY <1>5, <1>7, <2>3, <2>4, <2>7, OneEnd
  <2> QED BY <2>3, <2>7, <2>8
<1> DEFINE front == SubSeq(text, c, i - 1)
           inner == SubSeq(text, i + 2, j - 2)
           next == Round(text, Environ, at)
           written == (at.output.text \o front) \o Becomes(inner)
<1>10. /\ next = [cursor |-> j + 1, output |-> Fit(written)]
       /\ front \in Texts /\ inner \in Texts /\ Going(text, next)
  BY <1>4, <1>5, <1>9, RoundReplaces
<1>11. inner = name
  <2> DEFINE l == i + 2
             r == j - 2
  <2>1. l \in 1 .. Len(text) + 1 /\ r \in Nat /\ l - 1 <= r /\ r <= Len(text)
        /\ r - l + 1 = Len(name)
        /\ \A k \in 1 .. Len(name) : l + k - 1 \in l .. r /\ l + k - 1 - n - 2 = k
    BY <1>1, <1>3, <1>5 DEF i, j
  <2> HIDE DEF l, r
  <2>2. Len(SubSeq(text, l, r)) = r - l + 1
        /\ \A k \in 1 .. r - l + 1 : SubSeq(text, l, r)[k] = text[l + k - 1]
    BY <2>1, TextPart
  <2>3. inner = SubSeq(text, l, r)
    BY DEF l, r
  <2>4a. \A x \in l .. r : text[x] = name[x - n - 2]
    BY <1>6 DEF l, r
  <2>5. ASSUME NEW k \in 1 .. Len(name) PROVE inner[k] = name[k]
    <3> DEFINE x == l + k - 1
    <3>1. x \in l .. r /\ x - n - 2 = k
      BY <2>1
    <3>2. inner[k] = text[x]
      BY <2>1, <2>2, <2>3
    <3> HIDE DEF x
    <3> QED BY <2>4a, <3>1, <3>2
  <2>6. Len(inner) = Len(name)
    BY <2>1, <2>2, <2>3
  <2> HIDE DEF inner
  <2> QED BY <1>1, <1>10, <2>5, <2>6, SeqEqual DEF Texts
<1>12. i - 1 = n
  BY DEF i
<1>13. written = became \o Becomes(name)
  BY <1>4, <1>11, <1>12
<1> HIDE DEF front, inner, next, written
<1>14. written \in Texts
  BY <1>1, <1>13, BecomesText, TextsJoin
<1>15. next.cursor = j + 1 /\ next.output.text = written
  BY <1>10 DEF Fit
<1>16. SubSeq(text, j + 1, j) = <<>>
  BY <1>5, SubSeqEmpty
<1>17. written \o <<>> = written
  BY <1>14, ConcatEmptySeq DEF Texts
<1>18. next.output.text \o SubSeq(text, next.cursor, j) = became \o Becomes(name)
  BY <1>13, <1>15, <1>16, <1>17
<1>19. next.cursor <= j + 1 /\ \A k \in next.cursor .. j : ~ Begins(text, k)
  BY <1>5, <1>15
<1>20. Done(text, next, j, became \o Becomes(name))
  BY <1>10, <1>18, <1>19 DEF Done
<1> QED BY <1>2l, <1>20 DEF next

\* A match that begins nowhere behind the cursor ends the loop.
LEMMA DoneStays ==
  ASSUME NEW text \in Texts, NEW at, NEW became, Done(text, at, Len(text), became)
  PROVE  Round(text, Environ, at) = at
<1>1. at.cursor \in 1 .. Len(text) + 1 /\ \A i \in at.cursor .. Len(text) : ~ Begins(text, i)
  BY DEF Done, Going
<1>2. Match(text, at.cursor) = [so |-> Len(text) + 1, eo |-> Len(text) + 1]
  <2>1. SUFFICES ASSUME NEW i \in at.cursor .. Len(text), NEW j \in i + 4 .. Len(text),
                        Matches(text, i, j)
                 PROVE  FALSE
    BY <1>1, MatchIs
  <2> QED BY <1>1, <2>1 DEF Begins
<1> QED BY <1>2, RoundEnds
\* The texts of pieces, and what each of them becomes.
LEMMA PieceIs ==
  ASSUME NEW piece \in Pieces
  PROVE  /\ piece.from \in Texts /\ piece.to \in Texts
         /\ \/ IsPlain(piece.from) /\ piece.to = piece.from
            \/ \E name : /\ IsName(name) /\ piece.from = Reference(name)
                         /\ piece.to = Becomes(name)
<1>1. CASE \E p \in PlainTexts : piece = [from |-> p, to |-> p]
  <2>1. PICK p \in PlainTexts : piece = [from |-> p, to |-> p]
    BY <1>1
  <2>2. p \in Texts /\ IsPlain(p)
    BY ReplaceAssumed DEF ReplaceAssumption
  <2>3. piece.from = p /\ piece.to = p
    BY <2>1
  <2> QED BY <2>2, <2>3
<1>2. ASSUME NEW name \in Referred,
             piece = [from |-> Reference(name),
                      to |-> IF name \in DOMAIN Environ THEN Environ[name] ELSE Reference(name)]
      PROVE  /\ IsName(name) /\ piece.from = Reference(name) /\ piece.to = Becomes(name)
             /\ piece.from \in Texts /\ piece.to \in Texts
  <2>1. IsName(name)
    BY ReplaceAssumed DEF ReplaceAssumption, IsName
  <2>2. name \in Texts
    BY <2>1 DEF IsName
  <2>3. Reference(name) = Unset(name)
    BY DEF Reference, Unset
  <2>4. piece.from = Reference(name)
    BY <1>2
  <2>5. piece.to = Becomes(name)
    BY <1>2, <2>3 DEF Becomes
  <2> QED BY <2>1, <2>2, <2>3, <2>4, <2>5, BecomesText
<1>3. \/ \E p \in PlainTexts : piece = [from |-> p, to |-> p]
      \/ \E name \in Referred :
            piece = [from |-> Reference(name),
                     to |-> IF name \in DOMAIN Environ THEN Environ[name] ELSE Reference(name)]
  BY DEF Pieces
<1> QED
  <2>1. CASE \E name \in Referred :
            piece = [from |-> Reference(name),
                     to |-> IF name \in DOMAIN Environ THEN Environ[name] ELSE Reference(name)]
    BY <1>2, <2>1
  <2>2. CASE \E p \in PlainTexts : piece = [from |-> p, to |-> p]
    <3>1. PICK p \in PlainTexts : piece = [from |-> p, to |-> p]
      BY <2>2
    <3>2. p \in Texts /\ IsPlain(p)
      BY ReplaceAssumed DEF ReplaceAssumption
    <3>3. piece.from = p /\ piece.to = p
      BY <3>1
    <3> QED BY <3>2, <3>3
  <2> QED BY <1>3, <2>1, <2>2

\* s is the front of t.
FrontOf(s, t) == Len(s) <= Len(t) /\ \A m \in 1 .. Len(s) : t[m] = s[m]

\* What has been joined is the front of what is joined in the end.
LEMMA JoinsFront ==
  ASSUME NEW k \in Nat, NEW e \in [1 .. k -> Texts], NEW f \in [0 .. k -> Texts], Joins(f, e, k)
  PROVE  \A i \in 0 .. k : FrontOf(f[i], f[k])
<1> DEFINE P == {d \in Nat : \A i \in 0 .. k : i + d <= k => FrontOf(f[i], f[i + d])}
<1>1. 0 \in P
  <2> SUFFICES ASSUME NEW i \in 0 .. k PROVE FrontOf(f[i], f[i + 0])
    OBVIOUS
  <2>1. i + 0 = i /\ f[i] \in Texts /\ Len(f[i]) \in Nat
    BY DEF Texts
  <2> QED BY <2>1 DEF FrontOf
<1>2. ASSUME NEW d \in Nat, d \in P PROVE d + 1 \in P
  <2> SUFFICES ASSUME NEW i \in 0 .. k, i + (d + 1) <= k PROVE FrontOf(f[i], f[i + (d + 1)])
    OBVIOUS
  <2> DEFINE j == i + d
  <2>1. j \in 0 .. k - 1 /\ j \in 0 .. k /\ j + 1 \in 1 .. k /\ i + (d + 1) = j + 1
        /\ j + 1 \in 0 .. k
    OBVIOUS
  <2>2. FrontOf(f[i], f[j])
    BY <1>2, <2>1
  <2> HIDE DEF j
  <2>3. f[j + 1] = f[j] \o e[j + 1]
    BY <2>1 DEF Joins
  <2> DEFINE s == f[i]
             t == f[j]
             u == e[j + 1]
             w == f[j + 1]
  <2>4. s \in Texts /\ t \in Texts /\ u \in Texts /\ w \in Texts /\ FrontOf(s, t) /\ w = t \o u
    BY <2>1, <2>2, <2>3
  <2> HIDE DEF s, t, u, w
  <2>5. Len(s) \in Nat /\ Len(t) \in Nat /\ Len(u) \in Nat
    BY <2>4 DEF Texts
  <2>6. Len(t \o u) = Len(t) + Len(u)
    BY <2>4, TextsJoin
  <2>7. \A m \in 1 .. Len(t) : (t \o u)[m] = t[m]
    BY <2>4, TextsAt
  <2>8. FrontOf(s, w)
    BY <2>4, <2>5, <2>6, <2>7 DEF FrontOf
  <2> QED BY <2>1, <2>8 DEF s, w
<1> HIDE DEF P
<1>3. Nat \subseteq P
  BY <1>1, <1>2, AllNumbers
<1> SUFFICES ASSUME NEW i \in 0 .. k PROVE FrontOf(f[i], f[k])
  OBVIOUS
<1>4. k - i \in Nat /\ i + (k - i) = k
  OBVIOUS
<1>5. \A d \in P : \A x \in 0 .. k : x + d <= k => FrontOf(f[x], f[x + d])
  BY DEF P
<1>6. k - i \in P
  BY <1>3, <1>4
<1>7. i + (k - i) <= k => FrontOf(f[i], f[i + (k - i)])
  BY <1>5, <1>6
<1> QED BY <1>4, <1>7

\* Whatever the pieces of a text are: each name in it that is set is replaced, all
\* other text stays, and everything is written where there is room.
LEMMA PiecesReplaced ==
  ASSUME NEW k \in Nat, NEW pieces \in [1 .. k -> Pieces]
  PROVE  replace_system_props(Before(pieces), Environ) = [text |-> After(pieces), fits |-> TRUE]
<1> DEFINE e == [i \in 1 .. k |-> pieces[i].from]
           d == [i \in 1 .. k |-> pieces[i].to]
<1>1. e \in [1 .. k -> Texts] /\ d \in [1 .. k -> Texts]
  BY PieceIs
<1>2. Before(pieces) = FlattenSeq(e) /\ After(pieces) = FlattenSeq(d)
  BY DEF Before, After
<1>2a. \A i \in 1 .. k : e[i] = pieces[i].from /\ d[i] = pieces[i].to
  OBVIOUS
<1> HIDE DEF e, d
<1>3. PICK f \in [0 .. k -> Texts] : Joins(f, e, k) /\ FlattenSeq(e) = f[k]
  BY <1>1, FlattenSeqIs DEF Texts
<1>4. PICK g \in [0 .. k -> Texts] : Joins(g, d, k) /\ FlattenSeq(d) = g[k]
  BY <1>1, FlattenSeqIs DEF Texts
<1> DEFINE text == f[k]
<1>5. text \in Texts /\ text \in Seq(Characters) /\ Len(text) \in Nat
  BY DEF Texts
<1>6. \A i \in 0 .. k : FrontOf(f[i], text)
  BY <1>1, <1>3, JoinsFront
<1> HIDE DEF text
<1>7. PICK at : /\ at[0] = Start
                /\ \A i \in 0 .. Len(text) - 1 : at[i + 1] = Round(text, Environ, at[i])
                /\ Rounds(text, Environ) = at[Len(text)]
  BY <1>5, LoopIs
<1>8. f[0] = <<>> /\ \A i \in 0 .. k - 1 : f[i + 1] = f[i] \o e[i + 1]
  BY <1>3 DEF Joins
<1>9. g[0] = <<>> /\ \A i \in 0 .. k - 1 : g[i + 1] = g[i] \o d[i + 1]
  BY <1>4 DEF Joins
<1> DEFINE P == {i \in Nat : i <= k => \E r \in 0 .. Len(f[i]) : Done(text, at[r], Len(f[i]), g[i])}
<1>10. 0 \in P
  <2>1. Len(f[0]) = 0 /\ 0 \in 0 .. Len(f[0])
    BY <1>8
  <2>2. <<>> \in Texts
    BY EmptySeq DEF Texts
  <2>3. Fit(<<>>) \in Output
    BY <2>2 DEF Output
  <2>4. Going(text, Start)
    BY <1>5, <2>3 DEF Going, Start, Fit
  <2>5. Start.cursor = 1 /\ Start.output.text = <<>>
    BY DEF Start
  <2>6. SubSeq(text, 1, 0) = <<>>
    BY SubSeqEmpty
  <2>7. <<>> \o <<>> = <<>>
    BY <2>2, ConcatEmptySeq DEF Texts
  <2>8. Start.output.text \o SubSeq(text, Start.cursor, 0) = <<>>
    BY <2>5, <2>6, <2>7
  <2>9. Start.cursor <= 0 + 1 /\ \A i \in Start.cursor .. 0 : ~ Begins(text, i)
    BY <2>5
  <2> DEFINE none == <<>>
  <2> HIDE DEF none
  <2>10. Done(text, Start, 0, none)
    BY <2>4, <2>8, <2>9 DEF Done, none
  <2> QED BY <1>7, <1>9, <2>1, <2>10 DEF none
<1>11. ASSUME NEW i \in Nat, i \in P PROVE i + 1 \in P
  <2> SUFFICES ASSUME i + 1 <= k
               PROVE  \E r \in 0 .. Len(f[i + 1]) : Done(text, at[r], Len(f[i + 1]), g[i + 1])
    OBVIOUS
  <2>1. i \in 0 .. k - 1 /\ i \in 0 .. k /\ i + 1 \in 1 .. k /\ i + 1 \in 0 .. k
    OBVIOUS
  <2>2. PICK r \in 0 .. Len(f[i]) : Done(text, at[r], Len(f[i]), g[i])
    BY <1>11, <2>1
  <2> DEFINE piece == pieces[i + 1]
             s == f[i]
             p == e[i + 1]
             w == f[i + 1]
             n == Len(s)
             became == g[i]
  <2>3a. s \in Texts /\ p \in Texts /\ w \in Texts /\ became \in Texts
    BY <1>1, <2>1
  <2>3b. piece \in Pieces /\ p = piece.from /\ d[i + 1] = piece.to
    BY <1>2a, <2>1
  <2>3c. w = s \o p
    BY <1>8, <2>1
  <2>3d. n \in Nat /\ Len(p) \in Nat
    <3> HIDE DEF s, p
    <3> QED BY <2>3a DEF Texts
  <2>3. /\ s \in Texts /\ p \in Texts /\ w \in Texts /\ n \in Nat /\ became \in Texts
        /\ Len(p) \in Nat /\ w = s \o p
        /\ piece \in Pieces /\ p = piece.from /\ d[i + 1] = piece.to
    BY <2>3a, <2>3b, <2>3c, <2>3d
  <2>4. FrontOf(w, text) /\ f[i + 1] = w /\ g[i + 1] = became \o piece.to
    BY <1>6, <1>9, <2>1, <2>3
  <2>2a. r \in 0 .. n /\ Done(text, at[r], n, became)
    BY <2>2
  <2> HIDE DEF piece, s, p, w, became
  <2>5. Len(s \o p) = Len(s) + Len(p)
    BY <2>3, TextsJoin
  <2>6. Len(w) = n + Len(p)
    BY <2>3, <2>5
  <2>7. Behind(text, n, p)
    <3>1. \A m \in 1 .. Len(p) : (s \o p)[Len(s) + m] = p[m]
      BY <2>3, TextsAt
    <3>2. \A m \in 1 .. Len(p) : n + m \in 1 .. Len(w)
      BY <2>3, <2>6
    <3>3. Len(w) <= Len(text) /\ \A m \in 1 .. Len(w) : text[m] = w[m]
      BY <2>4 DEF FrontOf
    <3>4. \A m \in 1 .. Len(p) : text[n + m] = p[m]
      BY <2>3, <3>1, <3>2, <3>3
    <3> QED BY <2>6, <3>3, <3>4 DEF Behind
  <2>8. n + Len(p) <= Len(text)
    BY <2>7 DEF Behind
  <2>9. CASE IsPlain(p) /\ piece.to = p
    <3>1. Done(text, at[r], n + Len(p), became \o p)
      BY <1>5, <2>2a, <2>3, <2>7, <2>9, PlainTaken
    <3>2. r \in 0 .. n + Len(p)
      BY <2>2a, <2>3
    <3> QED BY <2>4, <2>6, <2>9, <3>1, <3>2
  <2>10. CASE \E name : IsName(name) /\ p = Reference(name) /\ piece.to = Becomes(name)
    <3>1. PICK name : IsName(name) /\ p = Reference(name) /\ piece.to = Becomes(name)
      BY <2>10
    <3>2. Behind(text, n, Reference(name))
      BY <2>7, <3>1
    <3>3. Done(text, Round(text, Environ, at[r]), n + Len(Reference(name)), became \o Becomes(name))
      BY <1>5, <2>2a, <2>3, <3>1, <3>2, ReferenceTaken
    <3>4. Len(p) > 0
      <4>1. name \in Texts
        BY <3>1 DEF IsName
      <4>2. Len(name) \in Nat /\ Len(Reference(name)) = Len(name) + 4
        BY <4>1, ReferenceAt
      <4> QED BY <3>1, <4>2
    <3>5. r \in 0 .. Len(text) - 1 /\ r + 1 \in 0 .. n + Len(p)
      BY <1>5, <2>2a, <2>3, <2>8, <3>4
    <3>6. at[r + 1] = Round(text, Environ, at[r])
      BY <1>7, <3>5
    <3>7. Done(text, at[r + 1], n + Len(p), g[i + 1])
      BY <2>4, <3>1, <3>3, <3>6
    <3> QED BY <2>4, <2>6, <3>5, <3>7
  <2>11. \/ IsPlain(p) /\ piece.to = p
         \/ \E name : IsName(name) /\ p = Reference(name) /\ piece.to = Becomes(name)
    BY <2>3, PieceIs
  <2> QED BY <2>9, <2>10, <2>11
<1> HIDE DEF P
<1>12. Nat \subseteq P
  BY <1>10, <1>11, AllNumbers
<1>13. PICK r \in 0 .. Len(text) : Done(text, at[r], Len(text), g[k])
  BY <1>12 DEF P, text
<1> DEFINE Q == {m \in Nat : r + m <= Len(text) => at[r + m] = at[r]}
<1>14. 0 \in Q
  BY <1>5
<1>15. ASSUME NEW m \in Nat, m \in Q PROVE m + 1 \in Q
  <2> SUFFICES ASSUME r + (m + 1) <= Len(text) PROVE at[r + (m + 1)] = at[r]
    OBVIOUS
  <2> DEFINE j == r + m
  <2>1. j \in 0 .. Len(text) - 1 /\ r + (m + 1) = j + 1 /\ j <= Len(text)
    BY <1>5
  <2>2. at[j] = at[r]
    BY <1>15, <2>1
  <2> HIDE DEF j
  <2>3. at[j + 1] = Round(text, Environ, at[r])
    BY <1>7, <2>1, <2>2
  <2> QED BY <1>5, <1>13, <2>1, <2>3, DoneStays
<1> HIDE DEF Q
<1>16. Nat \subseteq Q
  BY <1>14, <1>15, AllNumbers
<1>17. at[Len(text)] = at[r]
  <2>1. Len(text) - r \in Nat /\ r + (Len(text) - r) = Len(text)
    BY <1>5
  <2>2. \A m \in Q : r + m <= Len(text) => at[r + m] = at[r]
    BY DEF Q
  <2>3. r + (Len(text) - r) <= Len(text) => at[r + (Len(text) - r)] = at[r]
    BY <1>16, <2>1, <2>2
  <2> QED BY <2>1, <2>3
<1>18. Done(text, Rounds(text, Environ), Len(text), g[k])
  BY <1>7, <1>13, <1>17
<1> DEFINE end == Rounds(text, Environ)
<1>19. Going(text, end) /\ end.output.text \o SubSeq(text, end.cursor, Len(text)) = g[k]
  BY <1>18 DEF Done
<1>20. replace_system_props(text, Environ) = Fit(g[k])
  BY <1>5, <1>19, ReplacedIs
<1> QED BY <1>2, <1>3, <1>4, <1>20 DEF Fit, text

\* A text is replaced in piece by piece, in every state and for any number of pieces.
THEOREM ReplacesNames == Spec => []NamesReplaced
<1>1. NamesReplaced
  <2> SUFFICES ASSUME NEW k \in 0 .. MaxPieces, NEW pieces \in [1 .. k -> Pieces]
               PROVE  replace_system_props(Before(pieces), Environ)
                        = [text |-> After(pieces), fits |-> TRUE]
    BY DEF NamesReplaced
  <2>1. MaxPieces \in Nat
    BY ReplaceAssumed DEF ReplaceAssumption
  <2>2. k \in Nat
    BY <2>1
  <2> QED BY <2>2, PiecesReplaced
<1> QED BY <1>1, PTL

=============================================================================
