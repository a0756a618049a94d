--------------------------- MODULE KfsEvalProofs ----------------------------
(***************************************************************************)
(* What KfsEvalSafety states of the stacks of the interpreter, proved for  *)
(* all scripts, all operations on values and both drivers.                 *)
(***************************************************************************)
EXTENDS KfsEvalSafety, KfsGrammar, SequenceTheorems, WellFoundedInduction, TLAPS

-----------------------------------------------------------------------------
(* Sequences of anything                                                   *)

\* The numbers up to n are a set that determines n (the domain of a list).
LEMMA IntervalLength ==
  ASSUME NEW m \in Nat, NEW n \in Nat, 1 .. m = 1 .. n
  PROVE  m = n
<1>1. CASE m < n
  <2>1. n \in 1 .. n /\ n \notin 1 .. m
    BY <1>1
  <2> QED BY <2>1
<1>2. CASE n < m
  <2>1. m \in 1 .. m /\ m \notin 1 .. n
    BY <1>2
  <2> QED BY <2>1
<1> QED
  BY <1>1, <1>2

\* The length and the domain of a list; only the empty one has no last entry.
LEMMA IsSeqFacts ==
  ASSUME NEW s, IsSeq(s)
  PROVE  /\ Len(s) \in Nat
         /\ DOMAIN s = 1 .. Len(s)
         /\ s # <<>> <=> Len(s) \in DOMAIN s
<1> DEFINE S == {s[k] : k \in DOMAIN s}
<1>1. s \in Seq(S)
  BY DEF IsSeq
<1>2. Len(s) \in Nat /\ DOMAIN s = 1 .. Len(s)
  BY <1>1, LenProperties
<1>3. s # <<>> => Len(s) \in Nat \ {0}
  BY <1>1, EmptySeq
<1>4. s = <<>> => Len(s) = 0
  BY EmptySeq
<1> QED
  BY <1>2, <1>3, <1>4

\* A member of any Seq(S) is one.
LEMMA SeqIsSeq ==
  ASSUME NEW S, NEW s \in Seq(S)
  PROVE  IsSeq(s)
<1> DEFINE T == {s[k] : k \in DOMAIN s}
<1>1. s \in [1 .. Len(s) -> S] /\ Len(s) \in Nat
  BY LenProperties
<1>2. s \in [1 .. Len(s) -> T]
  BY <1>1
<1>3. s \in Seq(T)
  BY <1>1, <1>2, SeqDef
<1> QED
  BY <1>3 DEF IsSeq

\* The empty list is a sequence without entries.
LEMMA EmptyIsSeq == IsSeq(<<>>) /\ DOMAIN <<>> = {}
<1>1. <<>> \in Seq({}) /\ Len(<<>>) = 0
  BY EmptySeq
<1>2. IsSeq(<<>>)
  BY <1>1, SeqIsSeq
<1> QED
  BY <1>1, <1>2, IsSeqFacts

\* Appending (entering a call, a block or a frame) keeps what was there.
LEMMA AppendFacts ==
  ASSUME NEW s, NEW x, IsSeq(s)
  PROVE  /\ IsSeq(Append(s, x)) /\ Append(s, x) # <<>>
         /\ Len(Append(s, x)) = Len(s) + 1
         /\ DOMAIN Append(s, x) = 1 .. Len(s) + 1
         /\ \A k \in DOMAIN s : Append(s, x)[k] = s[k]
         /\ Append(s, x)[Len(s) + 1] = x
<1> DEFINE S == {s[k] : k \in DOMAIN s} \cup {x}
<1>1. s \in Seq(S)
  BY SeqMonotonic DEF IsSeq
<1>2. /\ Append(s, x) \in Seq(S) /\ Append(s, x) # <<>>
      /\ Len(Append(s, x)) = Len(s) + 1
      /\ \A k \in 1 .. Len(s) : Append(s, x)[k] = s[k]
      /\ Append(s, x)[Len(s) + 1] = x
  BY <1>1, AppendProperties
<1>3. IsSeq(Append(s, x))
  BY <1>2, SeqIsSeq
<1> QED
  BY <1>2, <1>3, IsSeqFacts

\* Removing the last entry (leaving one) keeps all others.
LEMMA FrontFacts ==
  ASSUME NEW s, IsSeq(s), s # <<>>
  PROVE  /\ IsSeq(Front(s))
         /\ Len(Front(s)) = Len(s) - 1
         /\ DOMAIN Front(s) = 1 .. Len(s) - 1
         /\ \A k \in DOMAIN Front(s) : Front(s)[k] = s[k]
<1> DEFINE S == {s[k] : k \in DOMAIN s}
<1>1. Len(s) \in Nat \ {0} /\ DOMAIN s = 1 .. Len(s)
  BY IsSeqFacts
<1>2. \A k \in 1 .. Len(s) - 1 : s[k] \in S
  BY <1>1
<1>3. /\ SubSeq(s, 1, Len(s) - 1) \in Seq(S)
      /\ Len(SubSeq(s, 1, Len(s) - 1)) =
           IF 1 <= Len(s) - 1 THEN (Len(s) - 1) - 1 + 1 ELSE 0
      /\ \A k \in 1 .. (Len(s) - 1) - 1 + 1 :
           SubSeq(s, 1, Len(s) - 1)[k] = s[1 + k - 1]
  <2> HIDE DEF S
  <2> QED BY <1>1, <1>2, SubSeqProperties
<1>4. IsSeq(Front(s)) /\ Len(Front(s)) = Len(s) - 1
  <2> HIDE DEF S
  <2>1. IsSeq(SubSeq(s, 1, Len(s) - 1))
    BY <1>3, SeqIsSeq
  <2>2. Len(SubSeq(s, 1, Len(s) - 1)) = Len(s) - 1
    BY <1>1, <1>3
  <2> QED BY <2>1, <2>2 DEF Front
<1>5. DOMAIN Front(s) = 1 .. Len(s) - 1
  BY <1>4, IsSeqFacts
<1>6. \A k \in 1 .. Len(s) - 1 : Front(s)[k] = s[k]
  BY <1>1, <1>3 DEF Front
<1> QED
  BY <1>4, <1>5, <1>6

\* Overwriting an entry, if there is one, keeps the length.
LEMMA ExceptFacts ==
  ASSUME NEW s, NEW i, NEW x, IsSeq(s)
  PROVE  /\ IsSeq([s EXCEPT ![i] = x])
         /\ Len([s EXCEPT ![i] = x]) = Len(s)
         /\ DOMAIN [s EXCEPT ![i] = x] = DOMAIN s
         /\ \A k \in DOMAIN s : [s EXCEPT ![i] = x][k] = IF k = i THEN x ELSE s[k]
<1> DEFINE S == {s[k] : k \in DOMAIN s} \cup {x}
           t == [s EXCEPT ![i] = x]
<1>1. Len(s) \in Nat /\ DOMAIN s = 1 .. Len(s)
  BY IsSeqFacts
<1>2. DOMAIN t = 1 .. Len(s)
  BY <1>1
<1>3. t \in [1 .. Len(s) -> S]
  BY <1>1
<1>4. t \in Seq(S)
  <2> HIDE DEF S, t
  <2> QED BY <1>1, <1>3, SeqDef
<1>5. IsSeq(t)
  <2> HIDE DEF S, t
  <2> QED BY <1>4, SeqIsSeq
<1>6. Len(t) = Len(s)
  <2> HIDE DEF S, t
  <2>1. Len(t) \in Nat /\ DOMAIN t = 1 .. Len(t)
    BY <1>5, IsSeqFacts
  <2> QED BY <2>1, <1>1, <1>2, IntervalLength
<1> QED
  BY <1>1, <1>2, <1>5, <1>6

-----------------------------------------------------------------------------
(* A stack of frames c that fits the spaces sp: the parts of the inductive *)
(* invariant.  Nested is what makes the rest inductive: an assignment goes *)
(* to the last space, which is never one that an active call found.        *)

Typed(c, sp) ==
  /\ IsSeq(c) /\ IsSpaces(sp)
  /\ \A i \in DOMAIN c : IsFrame(c[i]) /\ IsSpaces(c[i].at)
Shapes(c, sp) ==
  /\ \A i \in DOMAIN c :
       Shape(c[i].at) = IF i = 1 THEN Ground ELSE Inside(c[i - 1])
  /\ Shape(sp) = IF c = <<>> THEN Ground ELSE Inside(c[Len(c)])
Callers(c, sp) ==
  \A i \in DOMAIN c :
    InCall(c[i]) => /\ Len(c[i].at) < Len(sp)
                    /\ \A k \in DOMAIN c[i].at : sp[k] = c[i].at[k]
Nested(c) ==
  \A i, j \in DOMAIN c : i < j /\ InCall(c[i]) => Len(c[i].at) < Len(c[j].at)

Stacks(c, sp) == Typed(c, sp) /\ Shapes(c, sp) /\ Callers(c, sp) /\ Nested(c)

\* Stacks of variables of one shape have as many spaces, with as many levels.
LEMMA SameShape ==
  ASSUME NEW a, NEW b, IsSeq(a), IsSeq(b), Shape(a) = Shape(b)
  PROVE  /\ Len(a) = Len(b) /\ DOMAIN a = DOMAIN b
         /\ \A k \in DOMAIN a : Len(a[k]) = Len(b[k])
<1>1. DOMAIN a = DOMAIN Shape(a) /\ DOMAIN b = DOMAIN Shape(b)
  BY DEF Shape
<1>2. DOMAIN a = DOMAIN b
  BY <1>1
<1>3. Len(a) = Len(b)
  BY <1>2, IsSeqFacts, IntervalLength
<1>4. ASSUME NEW k \in DOMAIN a PROVE Len(a[k]) = Len(b[k])
  <2>1. Shape(a)[k] = Len(a[k]) /\ Shape(b)[k] = Len(b[k])
    BY <1>2 DEF Shape
  <2> QED BY <2>1
<1> QED
  BY <1>2, <1>3, <1>4

\* A call returns: the frame below fits what it is left with.
LEMMA PopStacks ==
  ASSUME NEW c, NEW sp, NEW sp2, Stacks(c, sp), c # <<>>, IsSpaces(sp2),
         Shape(sp2) = Shape(c[Len(c)].at),
         \A k \in DOMAIN sp2 : k < Len(sp2) => sp2[k] = sp[k]
  PROVE  Stacks(Front(c), sp2)
<1> DEFINE d == Front(c)
           n == Len(c)
<1>1. /\ n \in Nat \ {0} /\ DOMAIN c = 1 .. n /\ n \in DOMAIN c
      /\ IsSeq(d) /\ Len(d) = n - 1 /\ DOMAIN d = 1 .. n - 1
      /\ \A i \in 1 .. n - 1 : d[i] = c[i]
  BY IsSeqFacts, FrontFacts DEF Stacks, Typed
<1>2. /\ \A i \in 1 .. n : IsFrame(c[i]) /\ IsSpaces(c[i].at)
      /\ Shape(c[n].at) = IF n = 1 THEN Ground ELSE Inside(c[n - 1])
      /\ \A i \in 1 .. n - 1 : InCall(c[i]) => Len(c[i].at) < Len(c[n].at)
  <2> HIDE DEF n
  <2>1. \A i \in 1 .. n : IsFrame(c[i]) /\ IsSpaces(c[i].at)
    BY <1>1 DEF Stacks, Typed
  <2>2. Shape(c[n].at) = IF n = 1 THEN Ground ELSE Inside(c[n - 1])
    BY <1>1 DEF Stacks, Shapes
  <2>3. ASSUME NEW i \in 1 .. n - 1, InCall(c[i]) PROVE Len(c[i].at) < Len(c[n].at)
    <3>1. i \in DOMAIN c /\ i < n
      BY <1>1
    <3> QED BY <1>1, <2>3, <3>1 DEF Stacks, Nested
  <2> QED
    BY <2>1, <2>2, <2>3
<1>3. Len(sp2) = Len(c[n].at) /\ Len(sp2) \in Nat /\ DOMAIN sp2 = 1 .. Len(sp2)
  BY <1>1, <1>2, SameShape, IsSeqFacts DEF IsSpaces
<1>4. Typed(d, sp2)
  BY <1>1, <1>2 DEF Typed
<1>5. Shapes(d, sp2)
  <2>1. d = <<>> <=> n = 1
    BY <1>1, IsSeqFacts, EmptyIsSeq
  <2>2. \A i \in DOMAIN d :
          Shape(d[i].at) = IF i = 1 THEN Ground ELSE Inside(d[i - 1])
    BY <1>1 DEF Stacks, Shapes
  <2> QED
    BY <1>1, <1>2, <2>1, <2>2 DEF Shapes
<1>6. Callers(d, sp2)
  <2> SUFFICES ASSUME NEW i \in 1 .. n - 1, InCall(c[i])
               PROVE  /\ Len(c[i].at) < Len(sp2)
                      /\ \A k \in DOMAIN c[i].at : sp2[k] = c[i].at[k]
    BY <1>1 DEF Callers
  <2>1. Len(c[i].at) < Len(sp2)
    BY <1>2, <1>3
  <2>2. DOMAIN c[i].at = 1 .. Len(c[i].at) /\ Len(c[i].at) \in Nat
    BY <1>1, <1>2, IsSeqFacts DEF IsSpaces
  <2>3. \A k \in DOMAIN c[i].at : sp[k] = c[i].at[k]
    BY <1>1 DEF Stacks, Callers
  <2> QED
    BY <1>3, <2>1, <2>2, <2>3
<1>7. Nested(d)
  BY <1>1 DEF Stacks, Nested
<1> QED
  BY <1>4, <1>5, <1>6, <1>7 DEF Stacks

\* A call calls itself: the new frame f fits the spaces that it leaves to
\* the nested call.
LEMMA PushStacks ==
  ASSUME NEW c, NEW sp, NEW sp2, NEW f, Stacks(c, sp),
         IsFrame(f), IsSpaces(f.at), Shape(f.at) = Shape(sp),
         IsSpaces(sp2), Shape(sp2) = Inside(f), Len(sp) <= Len(sp2),
         \A k \in DOMAIN sp : k < Len(sp) => sp2[k] = sp[k],
         InCall(f) => /\ Len(sp) < Len(sp2)
                      /\ \A k \in DOMAIN sp : f.at[k] = sp[k] /\ sp2[k] = sp[k]
  PROVE  Stacks(Append(c, f), sp2)
<1> DEFINE d == Append(c, f)
           n == Len(c)
<1>1. /\ n \in Nat /\ DOMAIN c = 1 .. n /\ (c # <<>> <=> n # 0)
      /\ IsSeq(d) /\ d # <<>> /\ Len(d) = n + 1 /\ DOMAIN d = 1 .. n + 1
      /\ \A i \in 1 .. n : d[i] = c[i]
      /\ d[n + 1] = f
  <2>1. IsSeq(c)
    BY DEF Stacks, Typed
  <2>2. n \in Nat /\ DOMAIN c = 1 .. n /\ (c # <<>> <=> n \in DOMAIN c)
    BY <2>1, IsSeqFacts
  <2> QED BY <2>1, <2>2, AppendFacts
<1>2. /\ Len(f.at) = Len(sp) /\ DOMAIN f.at = DOMAIN sp
      /\ Len(sp) \in Nat /\ DOMAIN sp = 1 .. Len(sp)
      /\ Len(sp2) \in Nat /\ DOMAIN sp2 = 1 .. Len(sp2)
  BY SameShape, IsSeqFacts DEF Stacks, Typed, IsSpaces
<1>3. Typed(d, sp2)
  BY <1>1 DEF Stacks, Typed
<1>4. Shapes(d, sp2)
  <2>1. ASSUME NEW i \in 1 .. n
        PROVE  Shape(d[i].at) = IF i = 1 THEN Ground ELSE Inside(d[i - 1])
    BY <1>1 DEF Stacks, Shapes
  <2>2. Shape(f.at) = IF n = 0 THEN Ground ELSE Inside(c[n])
    BY <1>1 DEF Stacks, Shapes
  <2> HIDE DEF n, d
  <2>3. (n + 1 = 1 <=> n = 0) /\ (n # 0 => d[n] = c[n])
    BY <1>1
  <2>4. \A i \in DOMAIN d :
          Shape(d[i].at) = IF i = 1 THEN Ground ELSE Inside(d[i - 1])
    <3> TAKE i \in DOMAIN d
    <3>1. CASE i \in 1 .. n
      BY <2>1, <3>1
    <3>2. CASE i = n + 1
      <4>1. d[i] = f /\ i - 1 = n
        BY <1>1, <3>2
      <4>2. CASE n = 0
        BY <2>2, <3>2, <4>1, <4>2
      <4>3. CASE n # 0
        BY <2>2, <2>3, <4>1, <4>3
      <4> QED BY <4>2, <4>3
    <3> QED BY <1>1, <3>1, <3>2
  <2>5. Shape(sp2) = IF d = <<>> THEN Ground ELSE Inside(d[Len(d)])
    BY <1>1
  <2> QED
    BY <2>4, <2>5 DEF Shapes
<1>5. Callers(d, sp2)
  <2>1. ASSUME NEW i \in 1 .. n, InCall(c[i])
        PROVE  /\ Len(c[i].at) < Len(sp2)
               /\ \A k \in DOMAIN c[i].at : sp2[k] = c[i].at[k]
    <3>1. /\ Len(c[i].at) < Len(sp)
          /\ \A k \in DOMAIN c[i].at : sp[k] = c[i].at[k]
      BY <1>1, <2>1 DEF Stacks, Callers
    <3>2. DOMAIN c[i].at = 1 .. Len(c[i].at) /\ Len(c[i].at) \in Nat
      BY <1>1, IsSeqFacts DEF Stacks, Typed, IsSpaces
    <3> QED
      BY <1>2, <3>1, <3>2
  <2>2. InCall(f) => /\ Len(f.at) < Len(sp2)
                     /\ \A k \in DOMAIN f.at : sp2[k] = f.at[k]
    BY <1>2
  <2> QED
    BY <1>1, <2>1, <2>2 DEF Callers
<1>6. Nested(d)
  <2>1. ASSUME NEW i \in 1 .. n, InCall(c[i]) PROVE Len(c[i].at) < Len(f.at)
    BY <1>1, <1>2, <2>1 DEF Stacks, Callers
  <2> QED
    BY <1>1, <2>1 DEF Stacks, Nested
<1> QED
  BY <1>3, <1>4, <1>5, <1>6 DEF Stacks

-----------------------------------------------------------------------------
(* What the operations of KfsEnv do to the spaces                          *)

\* A space with one level is no empty list of levels (var_stack_new).
LEMMA OneLevel ==
  ASSUME NEW x
  PROVE  IsSeq(<<x>>) /\ <<x>> # <<>> /\ Len(<<x>>) = 1 /\ <<x>>[1] = x
<1>1. <<x>> \in Seq({x}) /\ Len(<<x>>) = 1
  OBVIOUS
<1>2. IsSeq(<<x>>)
  BY <1>1, SeqIsSeq
<1> QED
  BY <1>1, <1>2

\* Entering a function: add_space adds one space with one level.
LEMMA AddSpace ==
  ASSUME NEW sp, NEW v, IsSeq(sp), \A k \in DOMAIN sp : IsSeq(sp[k]) /\ sp[k] # <<>>
  PROVE  LET sp2 == kfs_lang_env_add_space(sp, v)
         IN  /\ IsSpaces(sp2) /\ Len(sp2) = Len(sp) + 1
             /\ \A k \in DOMAIN sp : sp2[k] = sp[k]
             /\ Len(sp2[Len(sp) + 1]) = 1
<1> DEFINE level == <<variables_new(v)>>
           sp2 == Append(sp, level)
<1>1. IsSeq(level) /\ level # <<>> /\ Len(level) = 1
  BY OneLevel
<1>2. Len(sp) \in Nat /\ DOMAIN sp = 1 .. Len(sp)
  BY IsSeqFacts
<1> HIDE DEF level
<1>3. /\ IsSeq(sp2) /\ sp2 # <<>>
      /\ Len(sp2) = Len(sp) + 1
      /\ DOMAIN sp2 = 1 .. Len(sp) + 1
      /\ \A k \in DOMAIN sp : sp2[k] = sp[k]
      /\ sp2[Len(sp) + 1] = level
  BY AppendFacts
<1> HIDE DEF sp2
<1>4. \A k \in DOMAIN sp2 : IsSeq(sp2[k]) /\ sp2[k] # <<>>
  BY <1>1, <1>2, <1>3
<1>5. sp2 = kfs_lang_env_add_space(sp, v)
  BY DEF sp2, level, kfs_lang_env_add_space
<1> QED
  BY <1>1, <1>3, <1>4, <1>5 DEF IsSpaces

\* The environment starts with one space that has one level.
LEMMA NewSpaces ==
  LET sp == kfs_lang_env_add_space(<<>>, Null)
  IN  IsSpaces(sp) /\ Shape(sp) = Ground
<1> DEFINE sp == kfs_lang_env_add_space(<<>>, Null)
<1>1. IsSpaces(sp) /\ Len(sp) = 0 + 1 /\ Len(sp[0 + 1]) = 1
  BY EmptyIsSeq, AddSpace, EmptySeq
<1> HIDE DEF sp
<1>2. DOMAIN sp = 1 .. 1 /\ Len(sp[1]) = 1
  BY <1>1, IsSeqFacts DEF IsSpaces
<1>3. Shape(sp) = Ground
  BY <1>2 DEF Shape, Ground
<1> QED
  BY <1>1, <1>3 DEF sp

\* Leaving a function: what add_space added is removed.
LEMMA RemoveSpace ==
  ASSUME NEW sp, NEW f, IsSpaces(sp), IsSpaces(f.at), InCall(f), Shape(sp) = Inside(f)
  PROVE  LET sp2 == kfs_lang_env_remove_space(sp)
         IN  /\ IsSpaces(sp2) /\ Shape(sp2) = Shape(f.at)
             /\ \A k \in DOMAIN sp2 : sp2[k] = sp[k]
<1> DEFINE sp2 == Front(sp)
           n == Len(f.at)
<1>1. /\ n \in Nat \ {0} /\ DOMAIN f.at = 1 .. n
      /\ Len(sp) \in Nat /\ DOMAIN sp = 1 .. Len(sp)
  BY IsSeqFacts DEF IsSpaces
<1>2. Shape(sp) = [k \in 1 .. n + 1 |-> IF k = n + 1 THEN 1 ELSE Len(f.at[k])]
  BY DEF Inside, InCall, InBlock
<1>3. Len(sp) = n + 1 /\ \A k \in 1 .. n : Len(sp[k]) = Len(f.at[k])
  <2>1. DOMAIN sp = 1 .. n + 1
    BY <1>2 DEF Shape
  <2>2. Len(sp) = n + 1
    <3>1. n + 1 \in Nat
      BY <1>1
    <3> HIDE DEF n
    <3> QED BY <1>1, <2>1, <3>1, IntervalLength
  <2>3. ASSUME NEW k \in 1 .. n PROVE Len(sp[k]) = Len(f.at[k])
    <3>1. Shape(sp)[k] = Len(sp[k])
      BY <1>1, <2>1 DEF Shape
    <3> QED BY <1>1, <1>2, <3>1
  <2> QED BY <2>2, <2>3
<1>4. /\ IsSeq(sp2) /\ Len(sp2) = n /\ DOMAIN sp2 = 1 .. n
      /\ \A k \in DOMAIN sp2 : sp2[k] = sp[k]
  BY <1>1, <1>3, FrontFacts DEF IsSpaces
<1> HIDE DEF sp2
<1>5. IsSpaces(sp2)
  <2>1. sp2 # <<>>
    BY <1>1, <1>4, IsSeqFacts
  <2> QED BY <1>1, <1>3, <1>4, <2>1 DEF IsSpaces
<1>6. Shape(sp2) = Shape(f.at)
  BY <1>1, <1>3, <1>4 DEF Shape
<1>7. sp2 = kfs_lang_env_remove_space(sp)
  BY DEF sp2, kfs_lang_env_remove_space, IsSpaces
<1> QED
  BY <1>4, <1>5, <1>6, <1>7

\* Replacing the space of the running function by another that is not empty.
LEMMA ReplaceLast ==
  ASSUME NEW sp, NEW vs, IsSpaces(sp), IsSeq(vs), vs # <<>>
  PROVE  LET sp2 == [sp EXCEPT ![Len(sp)] = vs]
         IN  /\ IsSpaces(sp2) /\ Len(sp2) = Len(sp) /\ DOMAIN sp2 = DOMAIN sp
             /\ \A k \in DOMAIN sp : k < Len(sp) => sp2[k] = sp[k]
             /\ sp2[Len(sp)] = vs
<1> DEFINE sp2 == [sp EXCEPT ![Len(sp)] = vs]
<1>1. Len(sp) \in Nat /\ DOMAIN sp = 1 .. Len(sp) /\ Len(sp) \in DOMAIN sp
  BY IsSeqFacts DEF IsSpaces
<1>2. /\ IsSeq(sp2) /\ Len(sp2) = Len(sp) /\ DOMAIN sp2 = DOMAIN sp
      /\ \A k \in DOMAIN sp : sp2[k] = IF k = Len(sp) THEN vs ELSE sp[k]
  BY ExceptFacts DEF IsSpaces
<1> HIDE DEF sp2
<1>3. sp2 # <<>>
  BY <1>1, <1>2, IsSeqFacts
<1>4. \A k \in DOMAIN sp2 : IsSeq(sp2[k]) /\ sp2[k] # <<>>
  BY <1>2 DEF IsSpaces
<1>5. \A k \in DOMAIN sp : k < Len(sp) => sp2[k] = sp[k]
  BY <1>1, <1>2
<1>6. sp2[Len(sp)] = vs
  BY <1>1, <1>2
<1> QED
  BY <1>2, <1>3, <1>4, <1>5, <1>6 DEF IsSpaces, sp2

\* There is a space of the running function (list_first_entry).
LEMMA LastSpace ==
  ASSUME NEW sp, IsSpaces(sp)
  PROVE  /\ Len(sp) \in Nat \ {0} /\ DOMAIN sp = 1 .. Len(sp)
         /\ IsSeq(sp[Len(sp)]) /\ sp[Len(sp)] # <<>>
         /\ Len(sp[Len(sp)]) \in Nat \ {0}
<1>1. Len(sp) \in Nat \ {0} /\ DOMAIN sp = 1 .. Len(sp) /\ Len(sp) \in DOMAIN sp
  BY IsSeqFacts DEF IsSpaces
<1>2. IsSeq(sp[Len(sp)]) /\ sp[Len(sp)] # <<>>
  BY <1>1 DEF IsSpaces
<1>3. Len(sp[Len(sp)]) \in Nat \ {0}
  BY <1>2, IsSeqFacts
<1> QED
  BY <1>1, <1>2, <1>3

\* What a block starts its command with: one more level in the same space.
LEMMA InsideBlock ==
  ASSUME NEW f, InBlock(f)
  PROVE  Inside(f) = [Shape(f.at) EXCEPT ![Len(f.at)] = @ + 1]
<1>1. ~InCall(f)
  BY DEF InBlock, InCall
<1> QED
  BY <1>1, Zenon DEF Inside

\* Entering a block adds a level to the space of the running function.
LEMMA AddVars ==
  ASSUME NEW sp, NEW f, IsSpaces(sp), f.at = sp, InBlock(f)
  PROVE  LET sp2 == kfs_lang_env_space_add_vars(sp)
         IN  /\ IsSpaces(sp2) /\ Len(sp2) = Len(sp) /\ Shape(sp2) = Inside(f)
             /\ \A k \in DOMAIN sp : k < Len(sp) => sp2[k] = sp[k]
<1> DEFINE n == Len(sp)
           vs == Append(sp[n], EmptyDict)
           sp2 == [sp EXCEPT ![n] = vs]
<1>1. n \in Nat \ {0} /\ DOMAIN sp = 1 .. n /\ IsSeq(sp[n])
  BY LastSpace
<1>2. IsSeq(vs) /\ vs # <<>> /\ Len(vs) = Len(sp[n]) + 1
  BY <1>1, AppendFacts
<1> HIDE DEF vs
<1>3. /\ IsSpaces(sp2) /\ Len(sp2) = Len(sp) /\ DOMAIN sp2 = DOMAIN sp
      /\ \A k \in DOMAIN sp : k < Len(sp) => sp2[k] = sp[k]
      /\ sp2[n] = vs
  BY <1>2, ReplaceLast
<1>4. sp2 = kfs_lang_env_space_add_vars(sp)
  BY DEF vs, kfs_lang_env_space_add_vars
<1> HIDE DEF sp2
<1>5. Shape(sp2) = [Shape(sp) EXCEPT ![n] = @ + 1]
  <2>1. \A k \in DOMAIN sp : Len(sp2[k]) = IF k = n THEN Len(sp[k]) + 1 ELSE Len(sp[k])
    BY <1>1, <1>2, <1>3
  <2> QED
    BY <1>1, <1>3, <2>1 DEF Shape
<1>6. Inside(f) = [Shape(sp) EXCEPT ![n] = @ + 1]
  BY InsideBlock
<1> QED
  BY <1>3, <1>4, <1>5, <1>6

\* Leaving it removes the level again.
LEMMA DelVars ==
  ASSUME NEW sp, NEW f, IsSpaces(sp), IsSpaces(f.at), InBlock(f), Shape(sp) = Inside(f)
  PROVE  LET sp2 == kfs_lang_env_space_del_vars(sp)
         IN  /\ IsSpaces(sp2) /\ Shape(sp2) = Shape(f.at)
             /\ \A k \in DOMAIN sp2 : k < Len(sp2) => sp2[k] = sp[k]
<1> DEFINE n == Len(f.at)
           vs == Front(sp[n])
           sp2 == [sp EXCEPT ![n] = vs]
<1>1. /\ n \in Nat \ {0} /\ DOMAIN f.at = 1 .. n /\ Len(f.at[n]) \in Nat \ {0}
      /\ Len(sp) \in Nat \ {0} /\ DOMAIN sp = 1 .. Len(sp) /\ IsSeq(sp[Len(sp)])
      /\ sp[Len(sp)] # <<>>
  BY LastSpace
<1>2. Shape(sp) = [Shape(f.at) EXCEPT ![n] = @ + 1]
  BY InsideBlock
<1>3. DOMAIN sp = 1 .. n
  BY <1>1, <1>2 DEF Shape
<1>4. Len(sp) = n
  BY <1>1, <1>3, IntervalLength
<1>5. \A k \in 1 .. n : Len(sp[k]) = IF k = n THEN Len(f.at[k]) + 1 ELSE Len(f.at[k])
  <2> TAKE k \in 1 .. n
  <2>1. Shape(sp)[k] = Len(sp[k]) /\ Shape(f.at)[k] = Len(f.at[k])
    BY <1>1, <1>3 DEF Shape
  <2>2. Shape(sp)[k] = IF k = n THEN Shape(f.at)[k] + 1 ELSE Shape(f.at)[k]
    BY <1>1, <1>2 DEF Shape
  <2> QED BY <2>1, <2>2
<1>6. IsSeq(vs) /\ Len(vs) = Len(sp[n]) - 1
  BY <1>1, <1>4, FrontFacts
<1> HIDE DEF vs
<1>7. Len(vs) = Len(f.at[n]) /\ vs # <<>>
  <2>1. Len(vs) = Len(f.at[n])
    BY <1>1, <1>5, <1>6
  <2> QED BY <1>1, <2>1, EmptySeq
<1>8. /\ IsSpaces(sp2) /\ Len(sp2) = Len(sp) /\ DOMAIN sp2 = DOMAIN sp
      /\ \A k \in DOMAIN sp : k < Len(sp) => sp2[k] = sp[k]
      /\ sp2[n] = vs
  BY <1>4, <1>6, <1>7, ReplaceLast
<1>9. sp2 = kfs_lang_env_space_del_vars(sp)
  BY <1>1, <1>4 DEF vs, kfs_lang_env_space_del_vars
<1> HIDE DEF sp2
<1>10. Shape(sp2) = Shape(f.at)
  <2>1. \A k \in 1 .. n : Len(sp2[k]) = Len(f.at[k])
    BY <1>1, <1>3, <1>4, <1>5, <1>7, <1>8
  <2> QED
    BY <1>1, <1>3, <1>8, <2>1 DEF Shape
<1> QED
  BY <1>8, <1>9, <1>10

\* An assignment changes values in the space of the running function only.
LEMMA SetVar ==
  ASSUME NEW sp, NEW name, NEW v, IsSpaces(sp)
  PROVE  LET sp2 == kfs_lang_set_var(sp, name, v)
         IN  /\ IsSpaces(sp2) /\ Len(sp2) = Len(sp) /\ Shape(sp2) = Shape(sp)
             /\ \A k \in DOMAIN sp : k < Len(sp) => sp2[k] = sp[k]
<1> DEFINE n == Len(sp)
           vs == var_stack_set(sp[n], name, v)
           sp2 == [sp EXCEPT ![n] = vs]
<1>1. n \in Nat \ {0} /\ DOMAIN sp = 1 .. n /\ IsSeq(sp[n]) /\ Len(sp[n]) \in Nat \ {0}
  BY LastSpace
<1>2. IsSeq(vs) /\ Len(vs) = Len(sp[n])
  <2> DEFINE top == sp[n]
             i == AssignedLevel(top, name)
             x == dict_set(top[i], name, v)
  <2>1. vs = [top EXCEPT ![i] = x]
    BY DEF var_stack_set
  <2> HIDE DEF top, i, x, vs
  <2>2. IsSeq(top)
    BY <1>1 DEF top
  <2>3. IsSeq(vs) /\ Len(vs) = Len(top)
    BY <2>1, <2>2, ExceptFacts
  <2> QED BY <2>3 DEF top
<1> HIDE DEF vs
<1>3. vs # <<>>
  BY <1>1, <1>2, EmptySeq
<1>4. /\ IsSpaces(sp2) /\ Len(sp2) = Len(sp) /\ DOMAIN sp2 = DOMAIN sp
      /\ \A k \in DOMAIN sp : k < Len(sp) => sp2[k] = sp[k]
      /\ sp2[n] = vs
  BY <1>2, <1>3, ReplaceLast
<1>5. sp2 = kfs_lang_set_var(sp, name, v)
  BY DEF vs, kfs_lang_set_var
<1> HIDE DEF sp2
<1>6. \A k \in DOMAIN sp : Len(sp2[k]) = Len(sp[k])
  BY <1>1, <1>2, <1>4
<1>7. Shape(sp2) = Shape(sp)
  BY <1>4, <1>6 DEF Shape
<1> QED
  BY <1>4, <1>5, <1>7

-----------------------------------------------------------------------------
(* The inductive invariant, and the ways a step moves the two stacks       *)

Rest ==
  /\ phase \in {"idle", "eval", "return", "done", "crashed"}
  /\ IsSeq(scripts) /\ inx \in Nat /\ IsSeq(results)
  /\ cut \in [LiteralIds -> Nat]
  /\ phase \in {"idle", "done"} => ctl = <<>>

IInv == Rest /\ (phase # "done" => Stacks(ctl, spaces))

Plain(f) == ~InBlock(f) /\ ~InCall(f)

\* Frames other than blocks and calls leave the variables as they are.
LEMMA PlainInside ==
  ASSUME NEW f, Plain(f)
  PROVE  Inside(f) = Shape(f.at)
BY DEF Inside, Plain

\* What the invariant says of the frame that a nested call returns to.
LEMMA TopFacts ==
  ASSUME IInv, phase = "return", ctl # <<>>
  PROVE  /\ Stacks(ctl, spaces) /\ IsSpaces(spaces) /\ IsFrame(Top)
         /\ IsSpaces(Top.at) /\ Shape(spaces) = Inside(Top)
<1>1. Stacks(ctl, spaces)
  BY DEF IInv
<1>2. Len(ctl) \in DOMAIN ctl
  BY <1>1, IsSeqFacts DEF Stacks, Typed
<1> QED
  BY <1>1, <1>2 DEF Stacks, Typed, Shapes, Top

\* Nothing but the running call is concerned.
LEMMA StayStep ==
  ASSUME IInv, phase \in {"eval", "return"}, phase' \in {"eval", "return", "crashed"},
         ctl' = ctl, UNCHANGED <<spaces, driver>>, cut' \in [LiteralIds -> Nat]
  PROVE  IInv'
BY DEF IInv, Rest, driver

\* A step that enters a nested call keeps the invariant.
LEMMA PushStep ==
  ASSUME IInv, phase = "eval", NEW f, IsFrame(f), f.at = spaces, Plain(f),
         NEW child, Push(f, child), UNCHANGED <<env, driver>>
  PROVE  IInv'
<1>1. Stacks(ctl, spaces) /\ IsSpaces(spaces)
  BY DEF IInv, Stacks, Typed
<1>2. Len(spaces) \in Nat
  BY <1>1, IsSeqFacts DEF IsSpaces
<1>3. Stacks(Append(ctl, f), spaces)
  BY <1>1, <1>2, PlainInside, PushStacks DEF Plain
<1> QED
  BY <1>3 DEF IInv, Rest, Push, Descend, env, driver

\* A step that returns from a call keeps the invariant.
LEMMA PopStep ==
  ASSUME IInv, phase = "return", ctl # <<>>, Plain(Top),
         NEW sp2, IsSpaces(sp2), Shape(sp2) = Shape(spaces),
         \A k \in DOMAIN sp2 : k < Len(sp2) => sp2[k] = spaces[k],
         ctl' = Front(ctl), phase' \in {"eval", "return"}, spaces' = sp2,
         cut' = cut, UNCHANGED driver
  PROVE  IInv'
<1>1. Stacks(Front(ctl), sp2)
  BY TopFacts, PlainInside, PopStacks DEF Top
<1> QED
  BY <1>1 DEF IInv, Rest, driver

\* The usual case: the variables are as they were.
LEMMA ReturnStep ==
  ASSUME IInv, phase = "return", ctl # <<>>, Plain(Top),
         ctl' = Front(ctl), phase' \in {"eval", "return"}, UNCHANGED <<env, driver>>
  PROVE  IInv'
BY TopFacts, PopStep DEF env

\* A step from one nested call to the next keeps the invariant.
LEMMA SwitchStep ==
  ASSUME IInv, phase = "return", ctl # <<>>, Plain(Top),
         NEW f, IsFrame(f), f.at = Top.at, Plain(f),
         NEW child, Switch(f, child), UNCHANGED <<env, driver>>
  PROVE  IInv'
<1>1. /\ Stacks(ctl, spaces) /\ IsSpaces(spaces) /\ IsSpaces(f.at)
      /\ Shape(f.at) = Shape(spaces)
  BY TopFacts, PlainInside
<1>2. Stacks(Front(ctl), spaces)
  BY <1>1, PopStacks DEF Top
<1>3. Len(spaces) \in Nat
  BY <1>1, IsSeqFacts DEF IsSpaces
<1>4. Stacks(Append(Front(ctl), f), spaces)
  BY <1>1, <1>2, <1>3, PlainInside, PushStacks DEF Plain
<1> QED
  BY <1>4 DEF IInv, Rest, Switch, Descend, env, driver

\* An operation ends the call, or the process.
LEMMA CrashOrReturnStep ==
  ASSUME IInv, phase = "return", ctl # <<>>, Plain(Top),
         Crash \/ \E v : Pop(v), UNCHANGED <<env, driver>>
  PROVE  IInv'
<1>1. CASE Crash
  BY <1>1, StayStep DEF Crash, env, IInv, Rest
<1>2. CASE \E v : Pop(v)
  BY <1>2, ReturnStep DEF Pop
<1> QED
  BY <1>1, <1>2

\* The frame of a call that has just been entered.
LEMMA NewFrame ==
  ASSUME NEW pc \in Pcs
  PROVE  /\ IsFrame(Frame(pc)) /\ Frame(pc).at = spaces /\ Frame(pc).pc = pc
         /\ Frame(pc).e = cur
BY DEF IsFrame, Frame

\* A frame that is not about to leave is none of a block or a running call.
LEMMA PlainFrame ==
  ASSUME NEW f, f.pc # "leave"
  PROVE  Plain(f)
BY DEF Plain, InBlock, InCall

-----------------------------------------------------------------------------
(* One step per action                                                     *)

\* Expressions without operands.
LEMMA LeavesKeepIInv ==
  ASSUME IInv, Leaves
  PROVE  IInv'
<1> USE DEF Evaluating, Yield, env, Rest
<1>1. cut \in [LiteralIds -> Nat]
  BY DEF IInv
<1>2. CASE EvalNull
  BY <1>1, <1>2, StayStep DEF EvalNull
<1>3. CASE EvalLeaf
  BY <1>1, <1>3, StayStep DEF EvalLeaf
<1>4. CASE EvalString
  <2>1. cut' \in [LiteralIds -> Nat]
    <3> DEFINE more == cut[cur.id] < Len(cur.str)
               next == IF more THEN cut[cur.id] + 1 ELSE cut[cur.id]
    <3>1. cut' = [cut EXCEPT ![cur.id] = next]
      BY <1>4 DEF EvalString
    <3> HIDE DEF more
    <3>2. cur.id \in LiteralIds => next \in Nat
      BY <1>1
    <3> HIDE DEF next
    <3> QED
      BY <1>1, <3>1, <3>2
  <2>2. /\ phase \in {"eval", "return"} /\ phase' \in {"eval", "return", "crashed"}
        /\ ctl' = ctl /\ UNCHANGED <<spaces, driver>>
    BY <1>4 DEF EvalString
  <2> QED
    BY <2>1, <2>2, StayStep
<1>5. CASE EvalNothing
  BY <1>1, <1>5, StayStep DEF EvalNothing
<1>6. CASE EvalVar
  BY <1>1, <1>6, StayStep DEF EvalVar
<1>7. CASE EvalIsEmpty
  BY <1>1, <1>7, StayStep DEF EvalIsEmpty
<1>8. CASE EvalFunctionDef
  BY <1>1, <1>8, StayStep DEF EvalFunctionDef
<1> QED
  BY <1>2, <1>3, <1>4, <1>5, <1>6, <1>7, <1>8 DEF Leaves

\* Lists and objects, cut short by flow control or not.
LEMMA CollectionsKeepIInv ==
  ASSUME IInv, Collections
  PROVE  IInv'
<1> USE DEF Evaluating, Returned, env
<1>1. cut \in [LiteralIds -> Nat]
  BY DEF IInv, Rest
<1>2. CASE EvalEmptyList
  BY <1>1, <1>2, StayStep DEF EvalEmptyList, Yield
<1>3. CASE ListEnter \/ ObjectEnter
  <2> DEFINE f == [Frame("item") EXCEPT !.n = 1]
  <2>1. IsFrame(f) /\ f.at = spaces /\ f.pc = "item"
    BY NewFrame DEF IsFrame, Pcs
  <2>2. Plain(f)
    BY <2>1, PlainFrame
  <2> HIDE DEF f
  <2>3. \E child : Push(f, child)
    BY <1>3 DEF ListEnter, ObjectEnter, f
  <2> QED
    BY <1>3, <2>1, <2>2, <2>3, PushStep DEF ListEnter, ObjectEnter
<1>4. CASE ListStop \/ ListDone \/ ObjectDone
  <2>1. Top.pc = "item" /\ phase = "return" /\ ctl # <<>>
    BY <1>4 DEF ListStop, ListDone, ObjectDone
  <2> QED
    BY <1>4, <2>1, PlainFrame, ReturnStep DEF ListStop, ListDone, ObjectDone, Pop
<1>5. CASE ListNext
  <2> DEFINE f == [Top EXCEPT !.n = @ + 1, !.held = value_list_add(@, ret)]
  <2>1. Top.pc = "item" /\ phase = "return" /\ ctl # <<>> /\ IsFrame(Top)
    BY <1>5, TopFacts DEF ListNext
  <2>2. IsFrame(f) /\ f.at = Top.at /\ f.pc = "item"
    BY <2>1 DEF IsFrame
  <2>3. Plain(f) /\ Plain(Top)
    BY <2>1, <2>2, PlainFrame
  <2> HIDE DEF f
  <2>4. \E child : Switch(f, child)
    BY <1>5 DEF ListNext, f
  <2> QED
    BY <1>5, <2>1, <2>2, <2>3, <2>4, SwitchStep DEF ListNext
<1>6. CASE EvalEmptyObject
  BY <1>1, <1>6, StayStep DEF EvalEmptyObject, Yield
<1>7. CASE ObjectNext
  <2> DEFINE f == [Top EXCEPT !.n = @ + 1, !.held = Append(@, ret)]
  <2>1. Top.pc = "item" /\ phase = "return" /\ ctl # <<>> /\ IsFrame(Top)
    BY <1>7, TopFacts DEF ObjectNext
  <2>2. IsFrame(f) /\ f.at = Top.at /\ f.pc = "item"
    BY <2>1 DEF IsFrame
  <2>3. Plain(f) /\ Plain(Top)
    BY <2>1, <2>2, PlainFrame
  <2> HIDE DEF f
  <2>4. \E child : Switch(f, child)
    BY <1>7 DEF ObjectNext, f
  <2> QED
    BY <1>7, <2>1, <2>2, <2>3, <2>4, SwitchStep DEF ObjectNext
<1> QED
  BY <1>2, <1>3, <1>4, <1>5, <1>6, <1>7 DEF Collections

\* Operators with two operands, in either order.
LEMMA BinaryKeepsIInv ==
  ASSUME IInv, BinaryEnter \/ BinarySecond \/ BinaryApply
  PROVE  IInv'
<1>1. CASE BinaryEnter
  <2>1. PICK pc \in {"left first", "right first"} : \E child : Push(Frame(pc), child)
    BY <1>1 DEF BinaryEnter
  <2>2. IsFrame(Frame(pc)) /\ Frame(pc).at = spaces /\ Plain(Frame(pc))
    BY NewFrame, PlainFrame DEF Pcs
  <2>3. phase = "eval" /\ UNCHANGED <<env, driver>>
    BY <1>1 DEF BinaryEnter, Evaluating
  <2> QED
    BY <2>1, <2>2, <2>3, PushStep
<1>2. CASE BinarySecond
  <2>1. /\ phase = "return" /\ ctl # <<>> /\ UNCHANGED <<env, driver>>
        /\ Top.pc \in {"left first", "right first"}
    BY <1>2 DEF BinarySecond, Returned
  <2>2. PICK pc \in {"left held", "right held"} :
          \E child : Switch([Top EXCEPT !.pc = pc, !.held = <<ret>>], child)
    BY <1>2 DEF BinarySecond
  <2> DEFINE f == [Top EXCEPT !.pc = pc, !.held = <<ret>>]
  <2>3. IsFrame(f) /\ f.at = Top.at /\ f.pc = pc
    BY <2>1, TopFacts DEF IsFrame, Pcs
  <2>4. Plain(f) /\ Plain(Top)
    BY <2>1, <2>3, PlainFrame
  <2>5. \E child : Switch(f, child)
    BY <2>2
  <2> HIDE DEF f
  <2> QED
    BY <2>1, <2>3, <2>4, <2>5, SwitchStep
<1>3. CASE BinaryApply
  <2>1. /\ phase = "return" /\ ctl # <<>> /\ UNCHANGED <<env, driver>>
        /\ Top.pc \in {"left held", "right held"}
        /\ Crash \/ \E v : Pop(v)
    BY <1>3 DEF BinaryApply, Returned, Outcome
  <2> QED
    BY <2>1, PlainFrame, CrashOrReturnStep
<1> QED
  BY <1>1, <1>2, <1>3

\* All operators, the assignment among them.
LEMMA OperatorsKeepIInv ==
  ASSUME IInv, Operators
  PROVE  IInv'
<1>1. CASE BinaryEnter \/ BinarySecond \/ BinaryApply
  BY <1>1, BinaryKeepsIInv
<1>2. CASE UnaryEnter \/ ArrayEnter
  <2>1. PICK pc \in {"apply", "index"} : \E child : Push(Frame(pc), child)
    BY <1>2 DEF UnaryEnter, ArrayEnter
  <2>2. IsFrame(Frame(pc)) /\ Frame(pc).at = spaces /\ Plain(Frame(pc))
    BY NewFrame, PlainFrame DEF Pcs
  <2>3. phase = "eval" /\ UNCHANGED <<env, driver>>
    BY <1>2 DEF UnaryEnter, ArrayEnter, Evaluating
  <2> QED
    BY <2>1, <2>2, <2>3, PushStep
<1>3. CASE NotApply \/ MinusApply \/ DotApply \/ IntApply \/ PrintApply
             \/ ReadApply \/ ReturnApply \/ ArrayApply
  <2>1. /\ phase = "return" /\ ctl # <<>> /\ UNCHANGED <<env, driver>>
        /\ Top.pc = "apply"
    BY <1>3 DEF NotApply, MinusApply, DotApply, IntApply, PrintApply, ReadApply,
                ReturnApply, ArrayApply, Returned
  <2>2. Crash \/ \E v : Pop(v)
    BY <1>3 DEF NotApply, MinusApply, DotApply, IntApply, PrintApply, ReadApply,
                ReturnApply, ArrayApply, Outcome
  <2> QED
    BY <2>1, <2>2, PlainFrame, CrashOrReturnStep
<1>4. CASE AssignApply
  <2>1. /\ phase = "return" /\ ctl # <<>> /\ UNCHANGED <<functions, cut, driver>>
        /\ Top.pc = "apply" /\ ctl' = Front(ctl) /\ phase' = "return"
        /\ \/ spaces' = spaces
           \/ spaces' = kfs_lang_set_var(spaces, Top.e.str, Copy(ret))
    BY <1>4 DEF AssignApply, Returned, Pop
  <2>2. Plain(Top) /\ IsSpaces(spaces)
    BY <2>1, PlainFrame, TopFacts
  <2>3. /\ IsSpaces(spaces') /\ Shape(spaces') = Shape(spaces)
        /\ \A k \in DOMAIN spaces' : k < Len(spaces') => spaces'[k] = spaces[k]
    <3>1. CASE spaces' = spaces
      BY <2>2, <3>1
    <3>2. CASE spaces' = kfs_lang_set_var(spaces, Top.e.str, Copy(ret))
      <4>1. /\ IsSpaces(spaces') /\ Len(spaces') = Len(spaces)
            /\ Shape(spaces') = Shape(spaces)
            /\ \A k \in DOMAIN spaces : k < Len(spaces) => spaces'[k] = spaces[k]
        BY <2>2, <3>2, SetVar
      <4>2. DOMAIN spaces' = DOMAIN spaces
        BY <2>2, <4>1, SameShape DEF IsSpaces
      <4> QED BY <4>1, <4>2
    <3> QED BY <2>1, <3>1, <3>2
  <2> QED
    BY <2>1, <2>2, <2>3, PopStep
<1>5. CASE ArrayIndex
  <2>1. /\ phase = "return" /\ ctl # <<>> /\ UNCHANGED <<env, driver>>
        /\ Top.pc = "index" /\ Plain(Top)
    BY <1>5, PlainFrame DEF ArrayIndex, Returned
  <2> DEFINE f == [Top EXCEPT !.pc = "apply", !.n = ret.i]
  <2>2. IsFrame(f) /\ f.at = Top.at /\ f.pc = "apply"
    BY <2>1, TopFacts DEF IsFrame, Pcs
  <2>3. Plain(f)
    BY <2>2, PlainFrame
  <2>4. Crash \/ (\E child : Switch(f, child)) \/ (\E v : Pop(v))
    BY <1>5 DEF ArrayIndex
  <2> HIDE DEF f
  <2>5. CASE \E child : Switch(f, child)
    BY <2>1, <2>2, <2>3, <2>5, SwitchStep
  <2> QED
    BY <2>1, <2>4, <2>5, CrashOrReturnStep
<1> QED
  BY <1>1, <1>2, <1>3, <1>4, <1>5 DEF Operators

\* Blocks, if and while: a block removes the level it added.
LEMMA ControlKeepsIInv ==
  ASSUME IInv, Control
  PROVE  IInv'
<1>1. CASE BlockEnter
  <2> DEFINE f == Frame("leave")
             sp2 == kfs_lang_env_space_add_vars(spaces)
  <2>1. Stacks(ctl, spaces) /\ IsSpaces(spaces)
    BY <1>1 DEF BlockEnter, Evaluating, IInv, Stacks, Typed
  <2>2. IsFrame(f) /\ f.at = spaces /\ InBlock(f) /\ ~InCall(f)
    BY <1>1, NewFrame DEF Pcs, InBlock, InCall, BlockEnter, Evaluating
  <2>3. /\ Push(f, cur.left) /\ spaces' = sp2
        /\ UNCHANGED <<cut, driver>> /\ phase = "eval"
    BY <1>1 DEF BlockEnter, Evaluating
  <2> HIDE DEF f
  <2>4. /\ IsSpaces(sp2) /\ Len(sp2) = Len(spaces) /\ Shape(sp2) = Inside(f)
        /\ \A k \in DOMAIN spaces : k < Len(spaces) => sp2[k] = spaces[k]
    BY <2>1, <2>2, AddVars
  <2> HIDE DEF sp2
  <2>5. Len(spaces) \in Nat
    BY <2>1, IsSeqFacts DEF IsSpaces
  <2>6. Stacks(Append(ctl, f), sp2)
    BY <2>1, <2>2, <2>4, <2>5, PushStacks
  <2> QED
    BY <2>3, <2>6 DEF IInv, Rest, Push, Descend, driver
<1>2. CASE BlockLeave
  <2> DEFINE sp2 == kfs_lang_env_space_del_vars(spaces)
  <2>1. /\ phase = "return" /\ ctl # <<>> /\ InBlock(Top)
        /\ ctl' = Front(ctl) /\ phase' = "return"
        /\ spaces' = sp2 /\ UNCHANGED <<cut, driver>>
    BY <1>2 DEF BlockLeave, Returned, Pop, InBlock
  <2>2. /\ Stacks(ctl, spaces) /\ IsSpaces(spaces) /\ IsSpaces(Top.at)
        /\ Shape(spaces) = Inside(Top)
    BY <2>1, TopFacts
  <2>3. /\ IsSpaces(sp2) /\ Shape(sp2) = Shape(Top.at)
        /\ \A k \in DOMAIN sp2 : k < Len(sp2) => sp2[k] = spaces[k]
    BY <2>1, <2>2, DelVars
  <2> HIDE DEF sp2
  <2>4. Stacks(Front(ctl), sp2)
    BY <2>1, <2>2, <2>3, PopStacks DEF Top
  <2> QED
    BY <2>1, <2>4 DEF IInv, Rest, driver
<1>3. CASE IfEnter \/ WhileEnter
  <2>1. PICK pc \in {"choose", "first"} : \E child : Push(Frame(pc), child)
    BY <1>3 DEF IfEnter, WhileEnter
  <2>2. IsFrame(Frame(pc)) /\ Frame(pc).at = spaces /\ Plain(Frame(pc))
    BY NewFrame, PlainFrame DEF Pcs
  <2>3. phase = "eval" /\ UNCHANGED <<env, driver>>
    BY <1>3 DEF IfEnter, WhileEnter, Evaluating
  <2> QED
    BY <2>1, <2>2, <2>3, PushStep
<1>4. CASE IfChoose
  <2>1. /\ phase = "return" /\ ctl # <<>> /\ UNCHANGED <<env, driver>>
        /\ Top.pc = "choose" /\ Plain(Top)
        /\ ctl' = Front(ctl) /\ phase' = "eval"
    BY <1>4, PlainFrame DEF IfChoose, Returned, Descend
  <2> QED
    BY <2>1, ReturnStep
<1>5. CASE WhileFirst \/ WhileBody \/ WhileAgain
  <2>1. /\ phase = "return" /\ ctl # <<>> /\ UNCHANGED <<env, driver>>
        /\ Top.pc \in {"first", "body", "again"}
    BY <1>5 DEF WhileFirst, WhileBody, WhileAgain, Returned
  <2>2. Plain(Top)
    BY <2>1, PlainFrame
  <2>3. \/ \E pc \in {"body", "again"} : \E child : Switch([Top EXCEPT !.pc = pc], child)
        \/ Crash
        \/ \E v : Pop(v)
    BY <1>5 DEF WhileFirst, WhileBody, WhileAgain
  <2>4. CASE \E pc \in {"body", "again"} : \E child : Switch([Top EXCEPT !.pc = pc], child)
    <3>1. PICK pc \in {"body", "again"} :
            \E child : Switch([Top EXCEPT !.pc = pc], child)
      BY <2>4
    <3> DEFINE f == [Top EXCEPT !.pc = pc]
    <3>2. IsFrame(f) /\ f.at = Top.at /\ f.pc = pc
      BY <2>1, TopFacts DEF IsFrame, Pcs
    <3>3. Plain(f)
      BY <3>2, PlainFrame
    <3>4. \E child : Switch(f, child)
      BY <3>1
    <3> HIDE DEF f
    <3> QED
      BY <2>1, <2>2, <3>2, <3>3, <3>4, SwitchStep
  <2> QED
    BY <2>1, <2>2, <2>3, <2>4, CrashOrReturnStep
<1> QED
  BY <1>1, <1>2, <1>3, <1>4, <1>5 DEF Control

\* What a call starts its body with: one more space, of one level.
LEMMA InsideCall ==
  ASSUME NEW f, InCall(f)
  PROVE  Inside(f) = [k \in 1 .. Len(f.at) + 1 |->
                        IF k = Len(f.at) + 1 THEN 1 ELSE Len(f.at[k])]
<1>1. ~InBlock(f)
  BY DEF InBlock, InCall
<1> QED
  BY <1>1, Zenon DEF Inside

\* Calls: a call removes the space it added, and no other.
LEMMA CallsKeepIInv ==
  ASSUME IInv, Calls
  PROVE  IInv'
<1>1. CASE CallEnter
  <2>1. phase = "eval" /\ UNCHANGED <<env, driver>>
    BY <1>1 DEF CallEnter, Evaluating
  <2>2. PICK body : \/ Crash
                    \/ Push([Frame("args") EXCEPT !.fn = body], cur.left)
                    \/ Push(Frame("args"), cur.left)
    BY <1>1 DEF CallEnter
  <2> DEFINE f == [Frame("args") EXCEPT !.fn = body]
  <2>3. /\ IsFrame(f) /\ f.at = spaces /\ f.pc = "args"
        /\ IsFrame(Frame("args")) /\ Frame("args").at = spaces
        /\ Frame("args").pc = "args"
    BY NewFrame DEF IsFrame, Pcs
  <2>4. Plain(f) /\ Plain(Frame("args"))
    BY <2>3, PlainFrame
  <2>5. CASE Crash
    BY <2>1, <2>5, StayStep DEF Crash, env, IInv, Rest
  <2>6. CASE Push(f, cur.left)
    <3> HIDE DEF f
    <3> QED BY <2>1, <2>3, <2>4, <2>6, PushStep
  <2>7. CASE Push(Frame("args"), cur.left)
    BY <2>1, <2>3, <2>4, <2>7, PushStep
  <2> QED
    BY <2>2, <2>5, <2>6, <2>7
<1>2. CASE CallBody
  <2> DEFINE f == [Top EXCEPT !.pc = "leave", !.at = spaces]
             sp2 == kfs_lang_env_add_space(spaces, ret)
  <2>1. /\ phase = "return" /\ ctl # <<>> /\ Top.pc = "args"
        /\ Top.e.type = "eFUNCTION_CALL"
        /\ Switch(f, Top.fn) /\ spaces' = sp2 /\ UNCHANGED <<cut, driver>>
    BY <1>2 DEF CallBody, Returned
  <2>2. /\ Stacks(ctl, spaces) /\ IsSpaces(spaces) /\ IsFrame(Top)
        /\ Shape(spaces) = Shape(Top.at)
    BY <2>1, TopFacts, PlainFrame, PlainInside
  <2>3. /\ IsFrame(f) /\ f.at = spaces /\ f.pc = "leave"
        /\ f.e.type = "eFUNCTION_CALL"
    BY <2>1, <2>2 DEF IsFrame, Pcs
  <2>4. InCall(f)
    BY <2>3 DEF InCall
  <2> HIDE DEF f
  <2>5. /\ Len(spaces) \in Nat /\ DOMAIN spaces = 1 .. Len(spaces)
    BY <2>2, IsSeqFacts DEF IsSpaces
  <2>6. /\ IsSpaces(sp2) /\ Len(sp2) = Len(spaces) + 1
        /\ \A k \in DOMAIN spaces : sp2[k] = spaces[k]
        /\ Len(sp2[Len(spaces) + 1]) = 1
    BY <2>2, AddSpace DEF IsSpaces
  <2> HIDE DEF sp2
  <2>7. Shape(sp2) = Inside(f)
    <3>1. DOMAIN sp2 = 1 .. Len(spaces) + 1
      BY <2>6, IsSeqFacts DEF IsSpaces
    <3>2. \A k \in 1 .. Len(spaces) + 1 :
            Len(sp2[k]) = IF k = Len(spaces) + 1 THEN 1 ELSE Len(spaces[k])
      BY <2>5, <2>6
    <3>3. Inside(f) = [k \in 1 .. Len(spaces) + 1 |->
                         IF k = Len(spaces) + 1 THEN 1 ELSE Len(spaces[k])]
      BY <2>3, <2>4, InsideCall
    <3> QED BY <3>1, <3>2, <3>3 DEF Shape
  <2>8. Stacks(Front(ctl), spaces)
    BY <2>1, <2>2, PopStacks DEF Top
  <2>9. Stacks(Append(Front(ctl), f), sp2)
    BY <2>2, <2>3, <2>5, <2>6, <2>7, <2>8, PushStacks
  <2> QED
    BY <2>1, <2>9 DEF IInv, Rest, Switch, Descend, driver
<1>3. CASE CallLeave
  <2> DEFINE sp2 == kfs_lang_env_remove_space(spaces)
  <2>1. /\ phase = "return" /\ ctl # <<>> /\ InCall(Top)
        /\ ctl' = Front(ctl) /\ phase' = "return"
        /\ spaces' = sp2 /\ UNCHANGED <<cut, driver>>
    BY <1>3 DEF CallLeave, Returned, Pop, InCall
  <2>2. /\ Stacks(ctl, spaces) /\ IsSpaces(spaces) /\ IsSpaces(Top.at)
        /\ Shape(spaces) = Inside(Top)
    BY <2>1, TopFacts
  <2>3. /\ IsSpaces(sp2) /\ Shape(sp2) = Shape(Top.at)
        /\ \A k \in DOMAIN sp2 : sp2[k] = spaces[k]
    BY <2>1, <2>2, RemoveSpace
  <2> HIDE DEF sp2
  <2>4. Stacks(Front(ctl), sp2)
    BY <2>1, <2>2, <2>3, PopStacks DEF Top
  <2> QED
    BY <2>1, <2>4 DEF IInv, Rest, driver
<1> QED
  BY <1>1, <1>2, <1>3 DEF Calls

\* Between two scripts no call is active.
LEMMA NoStacks ==
  ASSUME NEW sp
  PROVE  Stacks(<<>>, sp) <=> IsSpaces(sp) /\ Shape(sp) = Ground
BY EmptyIsSeq DEF Stacks, Typed, Shapes, Callers, Nested

\* The drivers: between scripts there are one space and one level.
LEMMA DriveKeepsIInv ==
  ASSUME IInv, Drive
  PROVE  IInv'
<1>1. CASE StartScript \/ ParseFails
  <2>1. phase = "idle" /\ ctl = <<>> /\ IsSpaces(spaces) /\ Shape(spaces) = Ground
    BY <1>1, NoStacks DEF StartScript, ParseFails, IInv, Rest
  <2>2. Stacks(<<>>, Prepared)
    BY <2>1, NewSpaces, NoStacks DEF Prepared
  <2>3. ctl' = <<>> /\ spaces' = Prepared /\ phase' \in {"idle", "eval"}
    BY <1>1, <2>1 DEF StartScript, ParseFails, Descend, machine
  <2>4. cut' \in [LiteralIds -> Nat] /\ inx' \in Nat /\ scripts' = scripts
    BY <1>1 DEF StartScript, ParseFails, NoCut, IInv, Rest
  <2>5. IsSeq(results')
    BY <1>1, AppendFacts DEF StartScript, ParseFails, IInv, Rest
  <2> QED
    BY <2>2, <2>3, <2>4, <2>5 DEF IInv, Rest
<1>2. CASE FinishScript
  <2>1. /\ phase = "return" /\ ctl = <<>> /\ ctl' = ctl
        /\ phase' \in {"idle", "crashed"} /\ UNCHANGED <<spaces, cut, scripts, inx>>
    BY <1>2 DEF FinishScript, Crash
  <2>2. IsSeq(results')
    BY <1>2, AppendFacts DEF FinishScript, Crash, IInv, Rest
  <2> QED
    BY <2>1, <2>2 DEF IInv, Rest
<1>3. CASE kfs_lang_env_delete
  BY <1>3 DEF kfs_lang_env_delete, IInv, Rest, driver
<1> QED
  BY <1>1, <1>2, <1>3 DEF Drive

-----------------------------------------------------------------------------
(* Names that a block adds.  An assignment adds a name only to the          *)
(* innermost level there is, so it has to be known that every active block  *)
(* still has a level of its own above the levels it found.                 *)

\* In the spaces b there is a level above those that a block found in a.
Deeper(a, b) == Len(a) <= Len(b) /\ Len(a[Len(a)]) < Len(b[Len(a)])
SameNames(a, b) ==
  \A k \in DOMAIN a[Len(a)] : DOMAIN b[Len(a)][k] = DOMAIN a[Len(a)][k]

BlocksNested(c) ==
  \A i, j \in DOMAIN c : i < j /\ InBlock(c[i]) => Deeper(c[i].at, c[j].at)
BlocksBelow(c, sp) ==
  \A i \in DOMAIN c :
    InBlock(c[i]) => Deeper(c[i].at, sp) /\ SameNames(c[i].at, sp)

BInv == phase # "done" => BlocksNested(ctl) /\ BlocksBelow(ctl, spaces)

\* How deep spaces are is a matter of their shape.
LEMMA DeeperByShape ==
  ASSUME NEW a, NEW b, NEW d, IsSpaces(a), IsSpaces(b), IsSpaces(d),
         Shape(b) = Shape(d), Deeper(a, b)
  PROVE  Deeper(a, d)
<1>1. /\ Len(b) = Len(d) /\ DOMAIN b = DOMAIN d
      /\ \A k \in DOMAIN b : Len(b[k]) = Len(d[k])
  BY SameShape DEF IsSpaces
<1>2. Len(a) \in Nat \ {0} /\ Len(b) \in Nat /\ DOMAIN b = 1 .. Len(b)
  BY LastSpace
<1>3. Len(a) \in DOMAIN b
  BY <1>2 DEF Deeper
<1> QED
  BY <1>1, <1>3 DEF Deeper

\* A call returns and leaves the spaces it found, in which only the innermost
\* level may have got new names.
LEMMA PopBlocks ==
  ASSUME NEW c, NEW sp, NEW sp2, Stacks(c, sp), c # <<>>,
         BlocksNested(c), BlocksBelow(c, sp),
         IsSpaces(sp2), Shape(sp2) = Shape(c[Len(c)].at),
         \A k \in DOMAIN sp2 : \A l \in DOMAIN sp2[k] :
           k < Len(sp2) \/ l < Len(sp2[k]) => DOMAIN sp2[k][l] = DOMAIN sp[k][l]
  PROVE  BlocksNested(Front(c)) /\ BlocksBelow(Front(c), sp2)
<1> DEFINE d == Front(c)
           n == Len(c)
<1>1. /\ n \in Nat \ {0} /\ DOMAIN c = 1 .. n /\ n \in DOMAIN c
      /\ DOMAIN d = 1 .. n - 1
      /\ \A i \in 1 .. n - 1 : d[i] = c[i]
  BY IsSeqFacts, FrontFacts DEF Stacks, Typed
<1>2. \A i \in 1 .. n : IsSpaces(c[i].at)
  BY <1>1 DEF Stacks, Typed
<1>3. BlocksNested(d)
  BY <1>1 DEF BlocksNested
<1>4. BlocksBelow(d, sp2)
  <2> SUFFICES ASSUME NEW i \in 1 .. n - 1, InBlock(c[i])
               PROVE  Deeper(c[i].at, sp2) /\ SameNames(c[i].at, sp2)
    BY <1>1 DEF BlocksBelow
  <2> DEFINE a == c[i].at
             here == Len(a)
  <2>1. i \in DOMAIN c /\ i < n /\ IsSpaces(a)
    BY <1>1, <1>2
  <2>2. Deeper(a, c[n].at)
    BY <1>1, <2>1 DEF BlocksNested
  <2> HIDE DEF a
  <2>3. Deeper(a, sp2)
    BY <1>1, <1>2, <2>1, <2>2, DeeperByShape
  <2>4. SameNames(a, sp)
    BY <1>1, <2>1 DEF BlocksBelow, a
  <2>5. /\ here \in Nat \ {0} /\ Len(a[here]) \in Nat /\ DOMAIN a[here] = 1 .. Len(a[here])
        /\ Len(sp2) \in Nat /\ DOMAIN sp2 = 1 .. Len(sp2)
    BY <2>1, LastSpace, IsSeqFacts
  <2>6. here \in DOMAIN sp2 /\ Len(a[here]) < Len(sp2[here])
    BY <2>3, <2>5 DEF Deeper
  <2>7. Len(sp2[here]) \in Nat /\ DOMAIN sp2[here] = 1 .. Len(sp2[here])
    BY <2>6, IsSeqFacts DEF IsSpaces
  <2>8. ASSUME NEW k \in DOMAIN a[here] PROVE DOMAIN sp2[here][k] = DOMAIN a[here][k]
    <3>1. k \in DOMAIN sp2[here] /\ k < Len(sp2[here])
      BY <2>5, <2>6, <2>7
    <3>2. DOMAIN sp2[here][k] = DOMAIN sp[here][k]
      BY <2>6, <3>1
    <3> QED BY <2>4, <3>2 DEF SameNames
  <2> QED
    BY <2>3, <2>8 DEF SameNames, a
<1> QED
  BY <1>3, <1>4

\* A call calls itself and adds a level or a space, or neither.
LEMMA PushBlocks ==
  ASSUME NEW c, NEW sp, NEW sp2, NEW f, Stacks(c, sp),
         BlocksNested(c), BlocksBelow(c, sp),
         IsSpaces(f.at), Shape(f.at) = Shape(sp),
         IsSpaces(sp2), Len(sp) <= Len(sp2),
         \A k \in DOMAIN sp : /\ Len(sp[k]) <= Len(sp2[k])
                              /\ \A l \in DOMAIN sp[k] : sp2[k][l] = sp[k][l],
         InBlock(f) => Deeper(f.at, sp2) /\ SameNames(f.at, sp2)
  PROVE  BlocksNested(Append(c, f)) /\ BlocksBelow(Append(c, f), sp2)
<1> DEFINE d == Append(c, f)
           n == Len(c)
<1>1. /\ n \in Nat /\ DOMAIN c = 1 .. n /\ DOMAIN d = 1 .. n + 1
      /\ \A i \in 1 .. n : d[i] = c[i]
      /\ d[n + 1] = f
  BY IsSeqFacts, AppendFacts DEF Stacks, Typed
<1>2. IsSpaces(sp) /\ \A i \in 1 .. n : IsSpaces(c[i].at)
  BY <1>1 DEF Stacks, Typed
<1>3. ASSUME NEW i \in 1 .. n, InBlock(c[i])
      PROVE  Deeper(c[i].at, f.at) /\ Deeper(c[i].at, sp2) /\ SameNames(c[i].at, sp2)
  <2> DEFINE a == c[i].at
             here == Len(a)
  <2>1. IsSpaces(a) /\ Deeper(a, sp) /\ SameNames(a, sp)
    BY <1>1, <1>2, <1>3 DEF BlocksBelow
  <2> HIDE DEF a
  <2>2. Deeper(a, f.at)
    BY <1>2, <2>1, DeeperByShape
  <2>3. /\ here \in Nat \ {0} /\ Len(a[here]) \in Nat /\ DOMAIN a[here] = 1 .. Len(a[here])
        /\ Len(sp) \in Nat /\ DOMAIN sp = 1 .. Len(sp) /\ Len(sp2) \in Nat
        /\ DOMAIN sp2 = 1 .. Len(sp2)
    BY <1>2, <2>1, LastSpace, IsSeqFacts
  <2>4. here \in DOMAIN sp /\ here \in DOMAIN sp2 /\ Len(a[here]) < Len(sp[here])
    BY <2>1, <2>3 DEF Deeper
  <2>5. /\ Len(sp[here]) \in Nat /\ DOMAIN sp[here] = 1 .. Len(sp[here])
        /\ Len(sp2[here]) \in Nat
    BY <1>2, <2>4, IsSeqFacts DEF IsSpaces
  <2>6. Deeper(a, sp2)
    BY <2>3, <2>4, <2>5 DEF Deeper
  <2>7. \A k \in DOMAIN a[here] : sp2[here][k] = sp[here][k]
    BY <2>3, <2>4, <2>5
  <2>8. SameNames(a, sp2)
    BY <2>1, <2>7 DEF SameNames
  <2> QED BY <2>2, <2>6, <2>8 DEF a
<1>4. BlocksNested(d)
  BY <1>1, <1>3 DEF BlocksNested
<1>5. BlocksBelow(d, sp2)
  BY <1>1, <1>3 DEF BlocksBelow
<1> QED
  BY <1>4, <1>5

\* A set of numbers that is bounded and not empty has a greatest.
Less == {p \in Nat \X Nat : p[1] < p[2]}

LEMMA GreatestExists ==
  ASSUME NEW n \in Nat, NEW S, S \subseteq 1 .. n, S # {}
  PROVE  Max(S) \in S
<1> DEFINE T == {n - x : x \in S}
<1>1. T \subseteq Nat /\ T # {}
  OBVIOUS
<1>2. IsWellFoundedOn(Less, Nat)
  BY NatLessThanWellFounded, Zenon DEF OpToRel, Less
<1>3. PICK t \in T : \A u \in T : ~ <<u, t>> \in Less
  BY <1>1, <1>2, WFMin
<1>4. PICK x \in S : t = n - x
  OBVIOUS
<1>5. ASSUME NEW y \in S PROVE x >= y
  <2>1. n - y \in T /\ n - y \in Nat /\ n - x \in Nat /\ x \in Nat /\ y \in Nat
    BY <1>1
  <2>2. ~(n - y < n - x)
    BY <1>3, <1>4, <2>1 DEF Less
  <2> QED BY <2>1, <2>2
<1>6. \E z \in S : \A y \in S : z >= y
  BY <1>5
<1> QED BY <1>6 DEF Max

\* An assignment adds a name to no level but the innermost one.
LEMMA SetVarNames ==
  ASSUME NEW sp, NEW name, NEW v, IsSpaces(sp), NEW sp2, sp2 = kfs_lang_set_var(sp, name, v),
         NEW k \in DOMAIN sp, NEW l \in DOMAIN sp[k], k < Len(sp) \/ l < Len(sp[k])
  PROVE  DOMAIN sp2[k][l] = DOMAIN sp[k][l]
<1> DEFINE n == Len(sp)
           top == sp[n]
           i == AssignedLevel(top, name)
           x == dict_set(top[i], name, v)
           vs == [top EXCEPT ![i] = x]
<1>1. n \in Nat \ {0} /\ DOMAIN sp = 1 .. n /\ IsSeq(top) /\ Len(top) \in Nat \ {0}
  BY LastSpace
<1>2. DOMAIN top = 1 .. Len(top)
  BY <1>1, IsSeqFacts
<1>3. sp2 = [sp EXCEPT ![n] = vs]
  BY DEF kfs_lang_set_var, var_stack_set
<1>4. CASE k < n
  <2>1. sp2[k] = sp[k]
    BY <1>1, <1>3, <1>4
  <2> QED BY <2>1
<1>5. CASE k = n
  <2>1. sp2[k] = vs /\ l \in 1 .. Len(top) /\ l < Len(top)
    <3> HIDE DEF vs
    <3> QED BY <1>1, <1>2, <1>3, <1>5
  <2>2. CASE l # i
    <3>1. vs[l] = top[l]
      BY <1>2, <2>1, <2>2
    <3> QED BY <1>5, <2>1, <3>1
  <2>3. CASE l = i
    <3> DEFINE holders == {h \in DOMAIN top : name \in DOMAIN top[h]}
    <3>1. i = IF holders = {} THEN Len(top) ELSE Max(holders)
      BY DEF AssignedLevel
    <3>2. holders # {} /\ i = Max(holders)
      <4> HIDE DEF holders, i, top
      <4> QED BY <1>1, <2>1, <2>3, <3>1
    <3>3. holders \subseteq 1 .. Len(top)
      BY <1>2
    <3>4. i \in holders
      <4> HIDE DEF holders, i, top
      <4> QED BY <1>1, <3>2, <3>3, GreatestExists
    <3>5. name \in DOMAIN top[i]
      BY <3>4
    <3>6. DOMAIN x = DOMAIN top[i]
      <4> HIDE DEF i, top
      <4> QED BY <3>5 DEF dict_set
    <3>7. vs[i] = x
      <4> HIDE DEF i, x, top
      <4> QED BY <1>2, <2>1, <2>3
    <3> HIDE DEF i, x, vs
    <3> QED BY <1>5, <2>1, <2>3, <3>6, <3>7
  <2> QED BY <2>2, <2>3
<1> QED BY <1>1, <1>4, <1>5

\* A step in which no frame enters or leaves.
LEMMA StayBlocksStep ==
  ASSUME BInv, phase # "done", UNCHANGED <<ctl, spaces>>
  PROVE  BInv'
BY DEF BInv, BlocksNested, BlocksBelow

\* A step that returns from a call.
LEMMA PopBlocksStep ==
  ASSUME IInv, BInv, phase = "return", ctl # <<>>,
         NEW sp2, spaces' = sp2, IsSpaces(sp2), Shape(sp2) = Shape(Top.at),
         \A k \in DOMAIN sp2 : \A l \in DOMAIN sp2[k] :
           k < Len(sp2) \/ l < Len(sp2[k]) => DOMAIN sp2[k][l] = DOMAIN spaces[k][l],
         ctl' = Front(ctl)
  PROVE  BInv'
<1>1. Stacks(ctl, spaces) /\ BlocksNested(ctl) /\ BlocksBelow(ctl, spaces)
  BY DEF IInv, BInv
<1>2. BlocksNested(Front(ctl)) /\ BlocksBelow(Front(ctl), sp2)
  BY <1>1, PopBlocks DEF Top
<1>3. ctl' = Front(ctl) /\ spaces' = sp2
  OBVIOUS
<1> QED
  BY <1>2, <1>3 DEF BInv

\* A step that enters a call for which the spaces are not changed.
LEMMA PushBlocksStep ==
  ASSUME IInv, BInv, phase # "done", NEW f, f.at = spaces, f.pc # "leave",
         ctl' = Append(ctl, f), UNCHANGED spaces
  PROVE  BInv'
<1>1. Stacks(ctl, spaces) /\ BlocksNested(ctl) /\ BlocksBelow(ctl, spaces)
  BY DEF IInv, BInv
<1>2. IsSpaces(spaces) /\ Len(spaces) \in Nat
  BY <1>1, LastSpace DEF Stacks, Typed
<1>3. \A k \in DOMAIN spaces : Len(spaces[k]) \in Nat
  BY <1>2, IsSeqFacts DEF IsSpaces
<1>4. ~InBlock(f)
  BY DEF InBlock
<1>5. BlocksNested(Append(ctl, f)) /\ BlocksBelow(Append(ctl, f), spaces)
  BY <1>1, <1>2, <1>3, <1>4, PushBlocks
<1> QED
  BY <1>5 DEF BInv

\* A step from one nested call to the next, the spaces as they are.
LEMMA SwitchBlocksStep ==
  ASSUME IInv, BInv, phase = "return", ctl # <<>>, Plain(Top),
         NEW f, f.at = Top.at, f.pc # "leave",
         ctl' = Append(Front(ctl), f), UNCHANGED spaces
  PROVE  BInv'
<1> DEFINE d == Front(ctl)
<1>1. Stacks(ctl, spaces) /\ BlocksNested(ctl) /\ BlocksBelow(ctl, spaces)
  BY DEF IInv, BInv
<1>2. /\ IsSpaces(spaces) /\ Len(spaces) \in Nat /\ IsSpaces(f.at)
      /\ Shape(f.at) = Shape(spaces)
  BY TopFacts, PlainInside, LastSpace
<1>3. \A k \in DOMAIN spaces : Len(spaces[k]) \in Nat
  BY <1>2, IsSeqFacts DEF IsSpaces
<1>4. Stacks(d, spaces)
  BY <1>1, <1>2, PopStacks DEF Top
<1>5. BlocksNested(d) /\ BlocksBelow(d, spaces)
  BY <1>1, <1>2, PopBlocks DEF Top
<1> HIDE DEF d
<1>6. ~InBlock(f)
  BY DEF InBlock
<1>7. BlocksNested(Append(d, f)) /\ BlocksBelow(Append(d, f), spaces)
  <2>1. /\ Len(spaces) <= Len(spaces)
        /\ \A k \in DOMAIN spaces :
             Len(spaces[k]) <= Len(spaces[k])
             /\ \A l \in DOMAIN spaces[k] : spaces[k][l] = spaces[k][l]
    BY <1>2, <1>3
  <2> QED
    BY ONLY <1>2, <1>4, <1>5, <1>6, <2>1, PushBlocks
<1> QED
  BY <1>7 DEF BInv, d

\* The steps of everything but blocks and running calls: none, into a nested
\* call, from one to the next, or out of one.
Enters == \E f : f.at = spaces /\ f.pc # "leave" /\ ctl' = Append(ctl, f)
GoesOn == \E f : f.at = Top.at /\ f.pc # "leave" /\ ctl' = Append(Front(ctl), f)
Moves ==
  /\ phase \in {"eval", "return"}
  /\ \/ ctl' = ctl /\ spaces' = spaces
     \/ Enters /\ spaces' = spaces
     \/ /\ phase = "return" /\ ctl # <<>> /\ Top.pc # "leave"
        /\ \/ GoesOn /\ spaces' = spaces
           \/ ctl' = Front(ctl) /\ spaces' = spaces
           \/ /\ ctl' = Front(ctl)
              /\ \E name, v : spaces' = kfs_lang_set_var(spaces, name, v)

\* A frame that has just been made, however its other fields are set.
LEMMA FrameEnters ==
  ASSUME NEW pc \in Pcs, pc # "leave", NEW n, NEW fn, NEW child,
         \/ Push(Frame(pc), child)
         \/ Push([Frame(pc) EXCEPT !.n = n], child)
         \/ Push([Frame(pc) EXCEPT !.fn = fn], child)
  PROVE  Enters
<1> DEFINE f == Frame(pc)
<1>1. f.at = spaces /\ f.pc # "leave" /\ IsFrame(f)
  BY NewFrame
<1> HIDE DEF f
<1>2. /\ [f EXCEPT !.n = n].at = spaces /\ [f EXCEPT !.n = n].pc # "leave"
      /\ [f EXCEPT !.fn = fn].at = spaces /\ [f EXCEPT !.fn = fn].pc # "leave"
  BY <1>1 DEF IsFrame
<1>3. \/ ctl' = Append(ctl, f)
      \/ ctl' = Append(ctl, [f EXCEPT !.n = n])
      \/ ctl' = Append(ctl, [f EXCEPT !.fn = fn])
  BY DEF Push, Descend, f
<1> QED BY <1>1, <1>2, <1>3 DEF Enters

\* The frame on top goes on with other locals.
LEMMA FrameGoesOn ==
  ASSUME IsFrame(Top), Top.pc # "leave", NEW pc, pc # "leave", NEW n, NEW held, NEW child,
         \/ Switch([Top EXCEPT !.n = n, !.held = held], child)
         \/ Switch([Top EXCEPT !.pc = pc, !.held = held], child)
         \/ Switch([Top EXCEPT !.pc = pc, !.n = n], child)
         \/ Switch([Top EXCEPT !.pc = pc], child)
  PROVE  GoesOn
<1> DEFINE a == [Top EXCEPT !.n = n, !.held = held]
           b == [Top EXCEPT !.pc = pc, !.held = held]
           c == [Top EXCEPT !.pc = pc, !.n = n]
           d == [Top EXCEPT !.pc = pc]
<1>1. \A f \in {a, b, c, d} : f.at = Top.at /\ f.pc # "leave"
  BY DEF IsFrame
<1>2. \E f \in {a, b, c, d} : ctl' = Append(Front(ctl), f)
  BY DEF Switch, Descend
<1> HIDE DEF a, b, c, d
<1> QED BY <1>1, <1>2 DEF GoesOn

\* Expressions without operands concern no stack.
LEMMA LeavesMove ==
  ASSUME Leaves
  PROVE  Moves
BY DEF Leaves, EvalNull, EvalLeaf, EvalString, EvalNothing, EvalVar, EvalIsEmpty,
       EvalFunctionDef, Evaluating, Yield, env, Moves

\* Lists and objects.
LEMMA CollectionsMove ==
  ASSUME IInv, Collections
  PROVE  Moves
<1>1. CASE ListEnter \/ ObjectEnter
  <2>1. phase = "eval" /\ spaces' = spaces
    BY <1>1 DEF ListEnter, ObjectEnter, Evaluating, env
  <2>2. \E child : Push([Frame("item") EXCEPT !.n = 1], child)
    BY <1>1 DEF ListEnter, ObjectEnter
  <2> QED
    BY <2>1, <2>2, FrameEnters DEF Pcs, Moves
<1>2. CASE ListNext \/ ObjectNext
  <2>1. phase = "return" /\ ctl # <<>> /\ Top.pc = "item" /\ spaces' = spaces
    BY <1>2 DEF ListNext, ObjectNext, Returned, env
  <2>2. \E held, child : Switch([Top EXCEPT !.n = Top.n + 1, !.held = held], child)
    BY <1>2, <2>1, TopFacts DEF ListNext, ObjectNext, IsFrame
  <2> QED
    BY <2>1, <2>2, FrameGoesOn, TopFacts DEF Moves
<1>3. CASE ListStop \/ ListDone \/ ObjectDone
  BY <1>3 DEF ListStop, ListDone, ObjectDone, Returned, Pop, env, Moves
<1>4. CASE EvalEmptyList \/ EvalEmptyObject
  BY <1>4 DEF EvalEmptyList, EvalEmptyObject, Evaluating, Yield, env, Moves
<1> QED
  BY <1>1, <1>2, <1>3, <1>4 DEF Collections

\* Operators, of which only an assignment changes a variable.
LEMMA OperatorsMove ==
  ASSUME IInv, Operators
  PROVE  Moves
<1>1. CASE BinaryEnter \/ UnaryEnter \/ ArrayEnter
  <2>1. phase = "eval" /\ spaces' = spaces
    BY <1>1 DEF BinaryEnter, UnaryEnter, ArrayEnter, Evaluating, env
  <2>2. PICK pc \in {"left first", "right first", "apply", "index"} :
          \E child : Push(Frame(pc), child)
    BY <1>1 DEF BinaryEnter, UnaryEnter, ArrayEnter
  <2> QED
    BY <2>1, <2>2, FrameEnters DEF Pcs, Moves
<1>2. CASE BinarySecond
  <2>1. /\ phase = "return" /\ ctl # <<>> /\ spaces' = spaces
        /\ Top.pc \in {"left first", "right first"}
    BY <1>2 DEF BinarySecond, Returned, env
  <2>2. PICK pc \in {"left held", "right held"} :
          \E child : Switch([Top EXCEPT !.pc = pc, !.held = <<ret>>], child)
    BY <1>2 DEF BinarySecond
  <2> QED
    BY <2>1, <2>2, FrameGoesOn, TopFacts DEF Moves
<1>3. CASE BinaryApply \/ NotApply \/ MinusApply \/ DotApply \/ IntApply
             \/ PrintApply \/ ReadApply \/ ReturnApply \/ ArrayApply
  <2>1. /\ phase = "return" /\ ctl # <<>> /\ spaces' = spaces
        /\ Top.pc \in {"left held", "right held", "apply"}
    BY <1>3 DEF BinaryApply, NotApply, MinusApply, DotApply, IntApply, PrintApply,
                ReadApply, ReturnApply, ArrayApply, Returned, env
  <2>2. Crash \/ \E v : Pop(v)
    BY <1>3 DEF BinaryApply, NotApply, MinusApply, DotApply, IntApply, PrintApply,
                ReadApply, ReturnApply, ArrayApply, Outcome
  <2> QED
    BY <2>1, <2>2 DEF Crash, Pop, Moves
<1>4. CASE AssignApply
  BY <1>4 DEF AssignApply, Returned, Pop, Moves
<1>5. CASE ArrayIndex
  <2>1. /\ phase = "return" /\ ctl # <<>> /\ spaces' = spaces
        /\ Top.pc = "index" /\ IsFrame(Top)
    BY <1>5, TopFacts DEF ArrayIndex, Returned, env
  <2>2. \/ Crash \/ \E v : Pop(v)
        \/ \E child : Switch([Top EXCEPT !.pc = "apply", !.n = ret.i], child)
    BY <1>5 DEF ArrayIndex
  <2>3. (\E child : Switch([Top EXCEPT !.pc = "apply", !.n = ret.i], child)) => GoesOn
    BY <2>1, FrameGoesOn
  <2> QED
    BY <2>1, <2>2, <2>3 DEF Crash, Pop, Moves
<1> QED
  BY <1>1, <1>2, <1>3, <1>4, <1>5 DEF Operators

\* If, while and the arguments of a call.
LEMMA ControlMoves ==
  ASSUME IInv, Control \/ Calls
  PROVE  Moves \/ BlockEnter \/ BlockLeave \/ CallBody \/ CallLeave
<1>1. CASE IfEnter \/ WhileEnter
  <2>1. phase = "eval" /\ spaces' = spaces
    BY <1>1 DEF IfEnter, WhileEnter, Evaluating, env
  <2>2. PICK pc \in {"choose", "first"} : \E child : Push(Frame(pc), child)
    BY <1>1 DEF IfEnter, WhileEnter
  <2> QED
    BY <2>1, <2>2, FrameEnters DEF Pcs, Moves
<1>2. CASE CallEnter
  <2>1. phase = "eval" /\ spaces' = spaces
    BY <1>2 DEF CallEnter, Evaluating, env
  <2>2. \/ Crash \/ \E child : Push(Frame("args"), child)
        \/ \E fn, child : Push([Frame("args") EXCEPT !.fn = fn], child)
    BY <1>2 DEF CallEnter
  <2>3. Crash \/ Enters
    BY <2>2, FrameEnters DEF Pcs
  <2> QED
    BY <2>1, <2>3 DEF Crash, Moves
<1>3. CASE IfChoose
  BY <1>3 DEF IfChoose, Returned, Descend, env, Moves
<1>4. CASE WhileFirst \/ WhileBody \/ WhileAgain
  <2>1. /\ phase = "return" /\ ctl # <<>> /\ spaces' = spaces /\ IsFrame(Top)
        /\ Top.pc \in {"first", "body", "again"}
    BY <1>4, TopFacts DEF WhileFirst, WhileBody, WhileAgain, Returned, env
  <2>2. \/ Crash \/ \E v : Pop(v)
        \/ \E pc \in {"body", "again"} : \E child : Switch([Top EXCEPT !.pc = pc], child)
    BY <1>4 DEF WhileFirst, WhileBody, WhileAgain
  <2>3. (\E pc \in {"body", "again"} : \E child : Switch([Top EXCEPT !.pc = pc], child))
          => GoesOn
    BY <2>1, FrameGoesOn
  <2> QED
    BY <2>1, <2>2, <2>3 DEF Crash, Pop, Moves
<1> QED
  BY <1>1, <1>2, <1>3, <1>4 DEF Control, Calls

\* None of these steps adds a name outside the innermost level.
LEMMA MovesKeepBInv ==
  ASSUME IInv, BInv, Moves
  PROVE  BInv'
<1>1. CASE UNCHANGED <<ctl, spaces>>
  BY <1>1, StayBlocksStep DEF Moves
<1>2. CASE Enters /\ spaces' = spaces
  BY <1>2, PushBlocksStep DEF Enters, Moves
<1>3. CASE phase = "return" /\ ctl # <<>> /\ Top.pc # "leave" /\ GoesOn /\ spaces' = spaces
  BY <1>3, SwitchBlocksStep, PlainFrame DEF GoesOn
<1>4. CASE /\ phase = "return" /\ ctl # <<>> /\ Top.pc # "leave"
           /\ ctl' = Front(ctl) /\ spaces' = spaces
  BY <1>4, PopBlocksStep, PlainFrame, PlainInside, TopFacts
<1>5. CASE /\ phase = "return" /\ ctl # <<>> /\ Top.pc # "leave" /\ ctl' = Front(ctl)
           /\ \E name, v : spaces' = kfs_lang_set_var(spaces, name, v)
  <2>1. PICK name, v : spaces' = kfs_lang_set_var(spaces, name, v)
    BY <1>5
  <2> DEFINE sp2 == kfs_lang_set_var(spaces, name, v)
  <2>2. IsSpaces(spaces) /\ Shape(spaces) = Shape(Top.at)
    BY <1>5, PlainFrame, PlainInside, TopFacts
  <2>3. IsSpaces(sp2) /\ Shape(sp2) = Shape(spaces)
    BY <2>2, SetVar
  <2>4. \A k \in DOMAIN spaces : \A l \in DOMAIN spaces[k] :
          k < Len(spaces) \/ l < Len(spaces[k])
            => DOMAIN sp2[k][l] = DOMAIN spaces[k][l]
    BY <2>2, SetVarNames
  <2> HIDE DEF sp2
  <2>5. /\ Len(sp2) = Len(spaces) /\ DOMAIN sp2 = DOMAIN spaces
        /\ \A k \in DOMAIN sp2 : Len(sp2[k]) = Len(spaces[k])
    BY <2>2, <2>3, SameShape DEF IsSpaces
  <2>6. \A k \in DOMAIN sp2 : DOMAIN sp2[k] = DOMAIN spaces[k]
    BY <2>2, <2>3, <2>5, IsSeqFacts DEF IsSpaces
  <2>7. \A k \in DOMAIN sp2 : \A l \in DOMAIN sp2[k] :
          k < Len(sp2) \/ l < Len(sp2[k]) => DOMAIN sp2[k][l] = DOMAIN spaces[k][l]
    BY <2>4, <2>5, <2>6
  <2> QED
    BY <1>5, <2>1, <2>2, <2>3, <2>7, PopBlocksStep DEF sp2
<1> QED
  BY <1>1, <1>2, <1>3, <1>4, <1>5 DEF Moves

\* A block enters with a level more, which is the innermost, and leaves with
\* that one gone; a call does the same with spaces.
LEMMA BlockEnterKeepsBInv ==
  ASSUME IInv, BInv, BlockEnter
  PROVE  BInv'
<1> DEFINE f == Frame("leave")
           sp == spaces
           n == Len(sp)
           sp2 == kfs_lang_env_space_add_vars(sp)
<1>1. /\ f.at = sp /\ InBlock(f) /\ ctl' = Append(ctl, f) /\ spaces' = sp2
      /\ phase # "done"
  BY NewFrame DEF Pcs, InBlock, BlockEnter, Evaluating, Push, Descend
<1>2. Stacks(ctl, sp) /\ BlocksNested(ctl) /\ BlocksBelow(ctl, sp) /\ IsSpaces(sp)
  BY <1>1 DEF IInv, BInv, Stacks, Typed
<1> HIDE DEF f
<1>3. /\ IsSpaces(sp2) /\ Len(sp2) = n
      /\ \A k \in DOMAIN sp : k < n => sp2[k] = sp[k]
  BY <1>1, <1>2, AddVars
<1>4. n \in Nat \ {0} /\ DOMAIN sp = 1 .. n /\ IsSeq(sp[n])
  BY <1>2, LastSpace
<1>5. sp2[n] = Append(sp[n], EmptyDict)
  BY <1>4 DEF kfs_lang_env_space_add_vars
<1> HIDE DEF sp2
<1>6. /\ Len(sp2[n]) = Len(sp[n]) + 1
      /\ \A l \in DOMAIN sp[n] : sp2[n][l] = sp[n][l]
  BY <1>4, <1>5, AppendFacts
<1>7. \A k \in DOMAIN sp : Len(sp[k]) \in Nat
  BY <1>2, IsSeqFacts DEF IsSpaces
<1>8. \A k \in DOMAIN sp : /\ Len(sp[k]) <= Len(sp2[k])
                           /\ \A l \in DOMAIN sp[k] : sp2[k][l] = sp[k][l]
  <2> TAKE k \in DOMAIN sp
  <2>1. CASE k < n
    BY <1>3, <1>7, <2>1
  <2>2. CASE k = n
    BY <1>6, <1>7, <2>2
  <2> QED BY <1>4, <2>1, <2>2
<1>9. Deeper(f.at, sp2) /\ SameNames(f.at, sp2)
  BY <1>1, <1>3, <1>4, <1>6, <1>7 DEF Deeper, SameNames
<1>10. n <= Len(sp2)
  BY <1>3, <1>4
<1>11. BlocksNested(Append(ctl, f)) /\ BlocksBelow(Append(ctl, f), sp2)
  BY <1>1, <1>2, <1>3, <1>8, <1>9, <1>10, PushBlocks
<1> QED
  BY <1>1, <1>11 DEF BInv

\* Leaving a block.
LEMMA BlockLeaveKeepsBInv ==
  ASSUME IInv, BInv, BlockLeave
  PROVE  BInv'
<1> DEFINE sp == spaces
           n == Len(sp)
           sp2 == kfs_lang_env_space_del_vars(sp)
<1>1. /\ phase = "return" /\ ctl # <<>> /\ InBlock(Top)
      /\ ctl' = Front(ctl) /\ spaces' = sp2
  BY DEF BlockLeave, Returned, Pop, InBlock
<1>2. IsSpaces(sp) /\ IsSpaces(Top.at) /\ Shape(sp) = Inside(Top)
  BY <1>1, TopFacts
<1>3. /\ IsSpaces(sp2) /\ Shape(sp2) = Shape(Top.at)
      /\ \A k \in DOMAIN sp2 : k < Len(sp2) => sp2[k] = sp[k]
  BY <1>1, <1>2, DelVars
<1>4. n \in Nat \ {0} /\ DOMAIN sp = 1 .. n /\ IsSeq(sp[n]) /\ sp[n] # <<>>
  BY <1>2, LastSpace
<1>5. sp2 = [sp EXCEPT ![n] = Front(sp[n])]
  BY <1>4 DEF kfs_lang_env_space_del_vars
<1>6. sp2[n] = Front(sp[n]) /\ Len(sp2) = n /\ DOMAIN sp2 = 1 .. n
  BY <1>2, <1>4, <1>5, ExceptFacts DEF IsSpaces
<1> HIDE DEF sp2
<1>7. \A l \in DOMAIN sp2[n] : sp2[n][l] = sp[n][l]
  BY <1>4, <1>6, FrontFacts
<1>8. ASSUME NEW k \in DOMAIN sp2, NEW l, l \in DOMAIN sp2[k]
      PROVE  sp2[k][l] = sp[k][l]
  <2>1. CASE k < n
    BY <1>3, <1>6, <2>1
  <2>2. CASE k = n
    BY <1>7, <1>8, <2>2
  <2> QED BY <1>4, <1>6, <2>1, <2>2
<1> QED
  BY <1>1, <1>3, <1>8, PopBlocksStep

\* Starting on the body of a function.
LEMMA CallBodyKeepsBInv ==
  ASSUME IInv, BInv, CallBody
  PROVE  BInv'
<1> DEFINE f == [Top EXCEPT !.pc = "leave", !.at = spaces]
           d == Front(ctl)
           sp == spaces
           sp2 == kfs_lang_env_add_space(sp, ret)
<1>1. /\ phase = "return" /\ ctl # <<>> /\ Top.pc = "args"
      /\ Top.e.type = "eFUNCTION_CALL"
      /\ ctl' = Append(d, f) /\ spaces' = sp2
  BY DEF CallBody, Returned, Switch, Descend
<1>2. /\ Stacks(ctl, sp) /\ IsSpaces(sp) /\ IsFrame(Top) /\ Shape(sp) = Shape(Top.at)
      /\ BlocksNested(ctl) /\ BlocksBelow(ctl, sp)
  BY <1>1, TopFacts, PlainFrame, PlainInside DEF BInv
<1>3. f.at = sp /\ f.e.type = "eFUNCTION_CALL"
  BY <1>1, <1>2 DEF IsFrame
<1>4. ~InBlock(f)
  BY <1>3 DEF InBlock
<1> HIDE DEF f
<1>5. Stacks(d, sp) /\ BlocksNested(d) /\ BlocksBelow(d, sp)
  BY <1>1, <1>2, PopStacks, PopBlocks DEF Top
<1> HIDE DEF d
<1>6. /\ IsSpaces(sp2) /\ Len(sp2) = Len(sp) + 1
      /\ \A k \in DOMAIN sp : sp2[k] = sp[k]
  BY <1>2, AddSpace DEF IsSpaces
<1> HIDE DEF sp2
<1>7. Len(sp) \in Nat /\ \A k \in DOMAIN sp : Len(sp[k]) \in Nat
  BY <1>2, IsSeqFacts DEF IsSpaces
<1>8. /\ Len(sp) <= Len(sp2)
      /\ \A k \in DOMAIN sp : /\ Len(sp[k]) <= Len(sp2[k])
                              /\ \A l \in DOMAIN sp[k] : sp2[k][l] = sp[k][l]
  BY <1>6, <1>7
<1>9. BlocksNested(Append(d, f)) /\ BlocksBelow(Append(d, f), sp2)
  BY ONLY <1>2, <1>3, <1>4, <1>5, <1>6, <1>8, PushBlocks
<1> QED
  BY <1>1, <1>9 DEF BInv

\* Returning from it.
LEMMA CallLeaveKeepsBInv ==
  ASSUME IInv, BInv, CallLeave
  PROVE  BInv'
<1> DEFINE sp2 == kfs_lang_env_remove_space(spaces)
<1>1. /\ phase = "return" /\ ctl # <<>> /\ InCall(Top)
      /\ ctl' = Front(ctl) /\ spaces' = sp2
  BY DEF CallLeave, Returned, Pop, InCall
<1>2. IsSpaces(spaces) /\ IsSpaces(Top.at) /\ Shape(spaces) = Inside(Top)
  BY <1>1, TopFacts
<1>3. /\ IsSpaces(sp2) /\ Shape(sp2) = Shape(Top.at)
      /\ \A k \in DOMAIN sp2 : sp2[k] = spaces[k]
  BY <1>1, <1>2, RemoveSpace
<1> HIDE DEF sp2
<1> QED
  BY <1>1, <1>3, PopBlocksStep

\* Every step of the program keeps what is known of the blocks.
LEMMA NextKeepsBInv ==
  ASSUME IInv, BInv, [Next]_vars
  PROVE  BInv'
<1>1. CASE UNCHANGED vars
  <2>1. UNCHANGED <<phase, ctl, spaces>>
    BY <1>1 DEF vars, machine, env
  <2> QED BY <2>1 DEF BInv, BlocksNested, BlocksBelow
<1>2. CASE Stopped
  <2>1. UNCHANGED <<phase, ctl, spaces>>
    BY <1>2 DEF Stopped, vars, machine, env
  <2> QED BY <2>1 DEF BInv, BlocksNested, BlocksBelow
<1>3. CASE Leaves \/ Collections \/ Operators \/ Control \/ Calls
  BY <1>3, LeavesMove, CollectionsMove, OperatorsMove, ControlMoves, MovesKeepBInv,
     BlockEnterKeepsBInv, BlockLeaveKeepsBInv, CallBodyKeepsBInv, CallLeaveKeepsBInv
<1>4. CASE Drive
  <2>1. ctl = <<>> /\ ctl' = <<>>
    BY <1>4 DEF Drive, StartScript, ParseFails, FinishScript, kfs_lang_env_delete,
                Descend, Crash, machine, IInv, Rest
  <2> QED BY <2>1, EmptyIsSeq DEF BInv, BlocksNested, BlocksBelow
<1> QED
  BY <1>1, <1>2, <1>3, <1>4 DEF Next, Step

-----------------------------------------------------------------------------
(* Operands.  X are the trees of expr and C all trees of the grammar; what  *)
(* follows holds for any such sets.                                        *)

\* Where frame f evaluates a command, and where an operand.
CommandPlace(X, f) ==
  \/ InBlock(f) \/ InCall(f)
  \/ f.e.type = "eWHILE" /\ f.pc = "body"
  \/ f.e.type = "eListVALUE" /\ f.pc = "item" /\ f.e \notin X

\* Where it does not, and has not done so before, as a loop has when it
\* comes back to its condition.
PurePlace(X, f) == ~CommandPlace(X, f) /\ ~(f.e.type = "eWHILE" /\ f.pc = "again")

\* What the grammar says of the trees below a node that the interpreter
\* evaluates.
LEMMA TreeFacts ==
  ASSUME NEW X, NEW C, Parsed(X, C), NEW e \in C
  PROVE  /\ e.type = "eListVALUE" =>
              /\ IsSeq(e.list)
              /\ \A k \in DOMAIN e.list : e.list[k] \in C /\ (e \in X => e.list[k] \in X)
         /\ e.type = "eObjectVALUE" =>
              IsSeq(e.object) /\ \A k \in DOMAIN e.object : e.object[k].data \in X
         /\ e.type \in BinaryTypes \cup {"eARRAY_ACCESS"} => e.left \in X /\ e.right \in X
         /\ e.type \in UnaryTypes \cup {"eFUNCTION_CALL"} => e.left \in X
         /\ e.type \in {"eIF", "eWHILE"} => e.next \in X /\ e.right \in C /\ e \notin X
         /\ e.type = "eIF" => e.left \in C
         /\ e.type = "eFUNCTION_DEF" => e.left \in C
         /\ e.type = "eBLOCK" => e.left \in C /\ e \notin X
         /\ e.type = "eASSIGN_VAR" => e \notin X
<1> USE DEF BinaryTypes, UnaryTypes
<1>1. e \in X => ExprNode(e, X)
  BY DEF Parsed
<1>2. \/ e \in X
      \/ e.type \in {"eBREAK", "eCONTI"}
      \/ InputNode(e, X, C, C, C)
  BY DEF Parsed
<1>0. X \subseteq C
  BY DEF Parsed
<1>3. CASE e \in X
  BY <1>0, <1>1, <1>3 DEF ExprNode
<1>4. CASE e \notin X
  BY <1>2, <1>4 DEF InputNode
<1> QED
  BY <1>3, <1>4

\* What frame f may evaluate next.
ChildOf(X, C, f) == IF CommandPlace(X, f) THEN C ELSE X

\* Every active call stands where the grammar allows its expression; a command
\* below an operand is there because of a call, which has added a space; and
\* an operand has not changed what it found.
Trees(X, C, c) ==
  \A i \in DOMAIN c :
    /\ c[i].e \in C /\ c[i].fn \in C /\ (c[i].pc = "item" => c[i].n \in Nat)
    /\ i - 1 \in DOMAIN c => c[i].e \in ChildOf(X, C, c[i - 1])
Separate(X, c) ==
  \A i, j \in DOMAIN c : i < j =>
    /\ Len(c[i].at) <= Len(c[j].at)
    /\ ~CommandPlace(X, c[i]) /\ c[j].e \notin X => Len(c[i].at) < Len(c[j].at)
Kept(X, c, sp) ==
  \A i \in DOMAIN c :
    /\ Len(c[i].at) <= Len(sp)
    /\ PurePlace(X, c[i]) => \A k \in DOMAIN c[i].at : sp[k] = c[i].at[k]

Pure(X, C, c, sp) == Trees(X, C, c) /\ Separate(X, c) /\ Kept(X, c, sp)

\* The expression e can start where it stands.
Starts(X, C, c, sp, e) ==
  /\ e \in C
  /\ Len(c) \in DOMAIN c => e \in ChildOf(X, C, c[Len(c)])
  /\ e \notin X => \A i \in DOMAIN c :
                     ~CommandPlace(X, c[i]) => Len(c[i].at) < Len(sp)

PInv(X, C) ==
  /\ \A name \in DOMAIN functions : functions[name] \in C
  /\ phase # "done" => Pure(X, C, ctl, spaces)
  /\ phase = "eval" => Starts(X, C, ctl, spaces, cur)

\* A call returns: its frame is gone, and could start again.
LEMMA PopPure ==
  ASSUME NEW X, NEW C, NEW c, NEW sp, NEW sp2, Stacks(c, sp), c # <<>>, Pure(X, C, c, sp),
         IsSpaces(sp2), Len(sp2) = Len(c[Len(c)].at),
         \A k \in DOMAIN sp2 : k < Len(sp2) => sp2[k] = sp[k],
         c[Len(c)].e \in X => \A k \in DOMAIN sp2 : sp2[k] = sp[k]
  PROVE  Pure(X, C, Front(c), sp2) /\ Starts(X, C, Front(c), sp2, c[Len(c)].e)
<1> DEFINE d == Front(c)
           n == Len(c)
<1>1. /\ n \in Nat \ {0} /\ DOMAIN c = 1 .. n /\ n \in DOMAIN c
      /\ Len(d) = n - 1 /\ DOMAIN d = 1 .. n - 1
      /\ \A i \in 1 .. n - 1 : d[i] = c[i]
  BY IsSeqFacts, FrontFacts DEF Stacks, Typed
<1>2. \A i \in 1 .. n : IsSpaces(c[i].at)
  BY <1>1 DEF Stacks, Typed
<1>3. Len(sp2) \in Nat /\ DOMAIN sp2 = 1 .. Len(sp2)
  BY IsSeqFacts DEF IsSpaces
<1>4. \A i \in 1 .. n : Len(c[i].at) \in Nat /\ DOMAIN c[i].at = 1 .. Len(c[i].at)
  BY <1>2, IsSeqFacts DEF IsSpaces
<1> HIDE DEF d, n
<1>5. ASSUME NEW i \in 1 .. n - 1
      PROVE  /\ Len(c[i].at) <= Len(sp2)
             /\ ~CommandPlace(X, c[i]) /\ c[n].e \notin X => Len(c[i].at) < Len(sp2)
             /\ PurePlace(X, c[i]) => \A k \in DOMAIN c[i].at : sp2[k] = c[i].at[k]
  <2>1. i \in DOMAIN c /\ i < n
    BY <1>1
  <2>2. /\ Len(c[i].at) <= Len(sp2)
        /\ ~CommandPlace(X, c[i]) /\ c[n].e \notin X => Len(c[i].at) < Len(sp2)
    BY <1>1, <2>1 DEF Pure, Separate, n
  <2>3. ASSUME PurePlace(X, c[i]), NEW k \in DOMAIN c[i].at
        PROVE  sp2[k] = c[i].at[k]
    <3>1. sp[k] = c[i].at[k]
      BY <2>1, <2>3 DEF Pure, Kept
    <3>2. CASE c[n].e \in X
      <4>1. k \in DOMAIN sp2
        BY <1>1, <1>3, <1>4, <2>2
      <4> QED BY <3>1, <3>2, <4>1 DEF n
    <3>3. CASE c[n].e \notin X
      <4>1. k \in DOMAIN sp2 /\ k < Len(sp2)
        BY <1>1, <1>3, <1>4, <2>2, <2>3, <3>3 DEF PurePlace
      <4> QED BY <3>1, <4>1
    <3> QED BY <3>2, <3>3
  <2> QED BY <2>2, <2>3
<1>6. Trees(X, C, d)
  BY <1>1 DEF Pure, Trees
<1>7. Separate(X, d)
  BY <1>1 DEF Pure, Separate
<1>8. Kept(X, d, sp2)
  BY <1>1, <1>5 DEF Kept
<1>9. Starts(X, C, d, sp2, c[n].e)
  <2>1. c[n].e \in C /\ (n - 1 \in DOMAIN c => c[n].e \in ChildOf(X, C, c[n - 1]))
    BY <1>1 DEF Pure, Trees
  <2> QED BY <1>1, <1>5, <2>1 DEF Starts
<1> QED
  BY <1>6, <1>7, <1>8, <1>9 DEF Pure, d, n

\* A call calls itself for the expression child.
LEMMA PushPure ==
  ASSUME NEW X, NEW C, Parsed(X, C), NEW c, NEW sp, NEW sp2, NEW f, NEW child,
         Stacks(c, sp), Pure(X, C, c, sp), Starts(X, C, c, sp, f.e), f.fn \in C,
         f.pc = "item" => f.n \in Nat,
         IsSpaces(f.at), Len(f.at) = Len(sp), IsSpaces(sp2), Len(sp) <= Len(sp2),
         \A k \in DOMAIN sp : k < Len(sp) => sp2[k] = sp[k],
         f.e \in X => \A k \in DOMAIN sp : sp2[k] = sp[k],
         PurePlace(X, f) => \A k \in DOMAIN f.at : sp2[k] = f.at[k],
         InCall(f) => Len(sp) < Len(sp2),
         child \in ChildOf(X, C, f)
  PROVE  Pure(X, C, Append(c, f), sp2) /\ Starts(X, C, Append(c, f), sp2, child)
<1> DEFINE d == Append(c, f)
           n == Len(c)
<1>1. /\ n \in Nat /\ DOMAIN c = 1 .. n /\ DOMAIN d = 1 .. n + 1 /\ Len(d) = n + 1
      /\ \A i \in 1 .. n : d[i] = c[i]
      /\ d[n + 1] = f
  BY IsSeqFacts, AppendFacts DEF Stacks, Typed
<1>2. IsSpaces(sp) /\ \A i \in 1 .. n : IsSpaces(c[i].at)
  BY <1>1 DEF Stacks, Typed
<1>3. /\ Len(sp) \in Nat /\ DOMAIN sp = 1 .. Len(sp) /\ Len(sp2) \in Nat
      /\ \A i \in 1 .. n : Len(c[i].at) \in Nat /\ DOMAIN c[i].at = 1 .. Len(c[i].at)
  BY <1>2, IsSeqFacts DEF IsSpaces
<1> HIDE DEF d, n
<1>4. ASSUME NEW i \in 1 .. n
      PROVE  /\ Len(c[i].at) <= Len(sp)
             /\ ~CommandPlace(X, c[i]) /\ f.e \notin X => Len(c[i].at) < Len(sp)
             /\ PurePlace(X, c[i]) => \A k \in DOMAIN c[i].at : sp2[k] = c[i].at[k]
  <2>1. Len(c[i].at) <= Len(sp)
    BY <1>1 DEF Pure, Kept
  <2>2. ~CommandPlace(X, c[i]) /\ f.e \notin X => Len(c[i].at) < Len(sp)
    BY <1>1 DEF Starts
  <2>3. ASSUME PurePlace(X, c[i]), NEW k \in DOMAIN c[i].at
        PROVE  sp2[k] = c[i].at[k]
    <3>0. sp[k] = c[i].at[k]
      BY <1>1, <2>3 DEF Pure, Kept
    <3>1. sp[k] = c[i].at[k] /\ k \in DOMAIN sp
      BY <1>3, <2>1, <3>0
    <3>2. CASE f.e \in X
      BY <3>1, <3>2
    <3>3. CASE f.e \notin X
      <4>1. k < Len(sp)
        BY <1>3, <2>2, <2>3, <3>3 DEF PurePlace
      <4> QED BY <3>1, <4>1
    <3> QED BY <3>2, <3>3
  <2> QED BY <2>1, <2>2, <2>3
<1>5. Trees(X, C, d)
  <2>1. ASSUME NEW i \in 1 .. n
        PROVE  /\ d[i].e \in C /\ d[i].fn \in C /\ (d[i].pc = "item" => d[i].n \in Nat)
               /\ i - 1 \in DOMAIN d => d[i].e \in ChildOf(X, C, d[i - 1])
    <3>1. i - 1 \in DOMAIN d => i - 1 \in 1 .. n
      BY <1>1
    <3> QED BY <1>1, <3>1 DEF Pure, Trees
  <2>2. /\ f.e \in C /\ f.fn \in C
        /\ n \in DOMAIN d => n \in DOMAIN c /\ f.e \in ChildOf(X, C, d[n])
    BY <1>1 DEF Starts, n
  <2> QED BY <1>1, <2>1, <2>2 DEF Trees
<1>6. Separate(X, d)
  BY <1>1, <1>4 DEF Pure, Separate
<1>7. Kept(X, d, sp2)
  <2>1. \A i \in 1 .. n : Len(c[i].at) <= Len(sp2)
    BY <1>3, <1>4
  <2> QED BY <1>1, <1>4, <2>1 DEF Kept
<1>8. Starts(X, C, d, sp2, child)
  <2>1. child \in C
    BY DEF ChildOf, Parsed
  <2>2. ASSUME child \notin X
        PROVE  /\ CommandPlace(X, f)
               /\ \A i \in 1 .. n : ~CommandPlace(X, c[i]) => Len(c[i].at) < Len(sp2)
    <3>1. CommandPlace(X, f)
      BY <2>2 DEF ChildOf
    <3>2. CASE InCall(f)
      BY <1>3, <1>4, <3>1, <3>2
    <3>3. CASE ~InCall(f)
      <4>1. f.e \in C
        BY DEF Starts
      <4>2. f.e \notin X
        BY <3>1, <3>3, <4>1, TreeFacts DEF CommandPlace, InBlock
      <4> QED BY <1>3, <1>4, <3>1, <4>2
    <3> QED BY <3>2, <3>3
  <2> QED BY <1>1, <2>1, <2>2 DEF Starts
<1> QED
  BY <1>5, <1>6, <1>7, <1>8 DEF Pure, d

\* A step that ends in a value, or the process, and changes no variable.
LEMMA StayPureStep ==
  ASSUME NEW X, NEW C, PInv(X, C), phase # "done", phase' # "eval",
         UNCHANGED <<ctl, spaces, functions>>
  PROVE  PInv(X, C)'
BY DEF PInv, Pure, Trees, Separate, Kept, ChildOf

\* A step that enters a nested call for an operand or a command.
LEMMA EnterPureStep ==
  ASSUME NEW X, NEW C, Parsed(X, C), IInv, PInv(X, C), phase = "eval", phase' = "eval",
         NEW f, f.e = cur, f.at = spaces, f.fn \in C, f.pc # "leave",
         f.pc = "item" => f.n \in Nat,
         NEW child, child \in ChildOf(X, C, f), cur' = child,
         ctl' = Append(ctl, f), UNCHANGED <<spaces, functions>>
  PROVE  PInv(X, C)'
<1>1. /\ Stacks(ctl, spaces) /\ Pure(X, C, ctl, spaces)
      /\ Starts(X, C, ctl, spaces, cur)
  BY DEF IInv, PInv
<1>2. IsSpaces(spaces) /\ Len(spaces) \in Nat
  BY <1>1, LastSpace DEF Stacks, Typed
<1>3. ~InCall(f)
  BY DEF InCall
<1>4. Len(spaces) <= Len(spaces)
  BY <1>2
<1>5. Pure(X, C, Append(ctl, f), spaces) /\ Starts(X, C, Append(ctl, f), spaces, child)
  BY <1>1, <1>2, <1>3, <1>4, PushPure
<1> QED
  BY <1>5 DEF PInv

\* A step that returns from a call.
LEMMA PopPureStep ==
  ASSUME NEW X, NEW C, IInv, PInv(X, C), phase = "return", ctl # <<>>, phase' # "eval",
         NEW sp2, spaces' = sp2, IsSpaces(sp2), Shape(sp2) = Shape(Top.at),
         \A k \in DOMAIN sp2 : k < Len(sp2) => sp2[k] = spaces[k],
         Top.e \in X => \A k \in DOMAIN sp2 : sp2[k] = spaces[k],
         ctl' = Front(ctl), UNCHANGED functions
  PROVE  PInv(X, C)'
<1>1. Stacks(ctl, spaces) /\ Pure(X, C, ctl, spaces) /\ IsSpaces(Top.at)
  BY TopFacts DEF PInv
<1>2. Len(sp2) = Len(Top.at)
  BY <1>1, SameShape DEF IsSpaces
<1>3. Pure(X, C, Front(ctl), sp2)
  BY <1>1, <1>2, PopPure DEF Top
<1>4. ctl' = Front(ctl) /\ spaces' = sp2
  OBVIOUS
<1> QED
  BY <1>3, <1>4 DEF PInv

\* A call whose spaces are as it found them, seen from the one below.
LEMMA PlainPure ==
  ASSUME NEW X, NEW C, IInv, PInv(X, C), phase = "return", ctl # <<>>, Plain(Top)
  PROVE  /\ Stacks(Front(ctl), spaces) /\ IsSpaces(spaces) /\ IsSpaces(Top.at)
         /\ Len(spaces) = Len(Top.at) /\ DOMAIN spaces = DOMAIN Top.at
         /\ Pure(X, C, Front(ctl), spaces) /\ Starts(X, C, Front(ctl), spaces, Top.e)
         /\ Top.e \in C /\ Top.fn \in C /\ (Top.pc = "item" => Top.n \in Nat)
         /\ PurePlace(X, Top) => \A k \in DOMAIN Top.at : spaces[k] = Top.at[k]
<1>1. /\ Stacks(ctl, spaces) /\ Pure(X, C, ctl, spaces) /\ IsSpaces(spaces)
      /\ IsSpaces(Top.at) /\ Shape(spaces) = Shape(Top.at)
  BY TopFacts, PlainInside DEF PInv
<1>2. Len(spaces) = Len(Top.at) /\ DOMAIN spaces = DOMAIN Top.at
  BY <1>1, SameShape DEF IsSpaces
<1>3. Stacks(Front(ctl), spaces)
  BY <1>1, PopStacks DEF Top
<1>4. Pure(X, C, Front(ctl), spaces) /\ Starts(X, C, Front(ctl), spaces, Top.e)
  BY <1>1, <1>2, PopPure DEF Top
<1>5. Len(ctl) \in DOMAIN ctl
  BY <1>1, IsSeqFacts DEF Stacks, Typed
<1>6. Top.e \in C /\ Top.fn \in C /\ (Top.pc = "item" => Top.n \in Nat)
  BY <1>1, <1>5 DEF Pure, Trees, Top
<1>7. PurePlace(X, Top) => \A k \in DOMAIN Top.at : spaces[k] = Top.at[k]
  BY <1>1, <1>5 DEF Pure, Kept, Top
<1> QED
  BY <1>1, <1>2, <1>3, <1>4, <1>6, <1>7

\* A step from one nested call to the next.
LEMMA GoOnPureStep ==
  ASSUME NEW X, NEW C, Parsed(X, C), IInv, PInv(X, C), phase = "return", ctl # <<>>,
         Plain(Top), phase' = "eval",
         NEW f, f.e = Top.e, f.at = Top.at, f.fn = Top.fn, f.pc # "leave",
         f.pc = "item" => f.n \in Nat,
         PurePlace(X, f) => PurePlace(X, Top),
         NEW child, child \in ChildOf(X, C, f), cur' = child,
         ctl' = Append(Front(ctl), f), UNCHANGED <<spaces, functions>>
  PROVE  PInv(X, C)'
<1> DEFINE d == Front(ctl)
<1>1. /\ Stacks(d, spaces) /\ IsSpaces(spaces) /\ IsSpaces(f.at)
      /\ Len(f.at) = Len(spaces) /\ Len(spaces) \in Nat
      /\ Pure(X, C, d, spaces) /\ Starts(X, C, d, spaces, f.e) /\ f.fn \in C
  BY PlainPure, LastSpace
<1>2. PurePlace(X, f) => \A k \in DOMAIN f.at : spaces[k] = f.at[k]
  BY PlainPure
<1>3. ~InCall(f)
  BY DEF InCall
<1>4. Len(spaces) <= Len(spaces)
  BY <1>1
<1> HIDE DEF d
<1>5. Pure(X, C, Append(d, f), spaces) /\ Starts(X, C, Append(d, f), spaces, child)
  BY <1>1, <1>2, <1>3, <1>4, PushPure
<1> QED
  BY <1>5 DEF PInv, d

\* A frame that has just been made, with what it needs of the tree.
LEMMA FrameEntersPure ==
  ASSUME NEW X, NEW C, Parsed(X, C), IInv, PInv(X, C), phase = "eval",
         NEW pc \in Pcs, pc \notin {"leave", "body"}, NEW n \in Nat, NEW fn \in C, NEW child,
         child \in X \/ (cur.type = "eListVALUE" /\ pc = "item" /\ cur \notin X /\ child \in C),
         \/ Push(Frame(pc), child)
         \/ Push([Frame(pc) EXCEPT !.n = n], child)
         \/ Push([Frame(pc) EXCEPT !.fn = fn], child),
         UNCHANGED env
  PROVE  PInv(X, C)'
<1> DEFINE a == Frame(pc)
           b == [Frame(pc) EXCEPT !.n = n]
           c == [Frame(pc) EXCEPT !.fn = fn]
<1>1. NoExpr \in C /\ X \subseteq C
  BY DEF Parsed
<1>2. \A f \in {a, b, c} :
        f.e = cur /\ f.at = spaces /\ f.fn \in C /\ f.pc = pc /\ f.n \in Nat
  BY <1>1 DEF Frame
<1>3. PICK f \in {a, b, c} : Push(f, child)
  OBVIOUS
<1>4. f.e = cur /\ f.at = spaces /\ f.fn \in C /\ f.pc = pc /\ f.n \in Nat
  BY <1>2
<1> HIDE DEF a, b, c
<1>5. child \in ChildOf(X, C, f)
  BY <1>1, <1>4 DEF ChildOf, CommandPlace
<1>6. /\ phase' = "eval" /\ cur' = child /\ ctl' = Append(ctl, f)
      /\ spaces' = spaces /\ functions' = functions
  BY <1>3 DEF Push, Descend, env
<1> QED
  BY <1>4, <1>5, <1>6, EnterPureStep

\* The frame on top goes on with other locals.
LEMMA FrameGoesOnPure ==
  ASSUME NEW X, NEW C, Parsed(X, C), IInv, PInv(X, C), phase = "return", ctl # <<>>,
         Top.pc # "leave", NEW pc, pc # "leave", NEW n, NEW held, NEW child,
         \/ Switch([Top EXCEPT !.n = n, !.held = held], child) /\ pc = Top.pc /\ n \in Nat
         \/ Switch([Top EXCEPT !.pc = pc, !.held = held], child)
         \/ Switch([Top EXCEPT !.pc = pc, !.n = n], child) /\ pc # "item"
         \/ Switch([Top EXCEPT !.pc = pc], child),
         \/ pc = "body" /\ Top.e.type = "eWHILE" /\ child \in C
         \/ pc = "again" /\ Top.e.type = "eWHILE" /\ child \in X
         \/ /\ pc = "item" /\ Top.pc = "item" /\ Top.e.type \in {"eListVALUE", "eObjectVALUE"}
            /\ child \in C /\ ((Top.e.type = "eListVALUE" /\ Top.e \notin X) \/ child \in X)
         \/ /\ pc # "item" /\ Top.pc \notin {"item", "again", "body"} /\ child \in X,
         UNCHANGED env
  PROVE  PInv(X, C)'
<1> DEFINE a == [Top EXCEPT !.n = n, !.held = held]
           b == [Top EXCEPT !.pc = pc, !.held = held]
           c == [Top EXCEPT !.pc = pc, !.n = n]
           d == [Top EXCEPT !.pc = pc]
           fs == {f \in {a, b, c, d} : f.pc = pc}
<1>1. IsFrame(Top)
  BY TopFacts
<1>2. \A f \in {a, b, c, d} : f.e = Top.e /\ f.at = Top.at /\ f.fn = Top.fn
  BY <1>1 DEF IsFrame
<1>3. a.pc = Top.pc /\ b.pc = pc /\ c.pc = pc /\ d.pc = pc
  BY <1>1 DEF IsFrame
<1> HIDE DEF a, b, c, d
<1>0. /\ Top.pc = "item" => Top.n \in Nat
      /\ a.n = n /\ b.n = Top.n /\ c.n = n /\ d.n = Top.n
  BY <1>1, PlainPure, PlainFrame DEF IsFrame, a, b, c, d
<1>4. PICK f \in {a, b, c, d} :
        Switch(f, child) /\ f.pc = pc /\ (pc = "item" => f.n \in Nat)
  BY <1>0, <1>3 DEF a, b, c, d
<1>5. f.e = Top.e /\ f.at = Top.at /\ f.fn = Top.fn
  BY <1>2
<1>6. Plain(Top) /\ X \subseteq C
  BY PlainFrame DEF Parsed
<1>7. child \in ChildOf(X, C, f)
  BY <1>4, <1>5, <1>6 DEF ChildOf, CommandPlace
<1>8. PurePlace(X, f) => PurePlace(X, Top)
  BY <1>4, <1>5, <1>6 DEF PurePlace, CommandPlace, InBlock, InCall
<1>9. /\ phase' = "eval" /\ cur' = child /\ ctl' = Append(Front(ctl), f)
      /\ spaces' = spaces /\ functions' = functions
  BY <1>4 DEF Switch, Descend, env
<1> QED
  BY <1>4, <1>5, <1>6, <1>7, <1>8, <1>9, GoOnPureStep

\* An operation ends the call, or the process.
LEMMA CrashOrReturnPure ==
  ASSUME NEW X, NEW C, IInv, PInv(X, C), phase = "return", ctl # <<>>, Plain(Top),
         Crash \/ \E v : Pop(v), UNCHANGED env
  PROVE  PInv(X, C)'
<1>1. CASE Crash
  BY <1>1, StayPureStep DEF Crash, env
<1>2. CASE \E v : Pop(v)
  <2>1. IsSpaces(spaces) /\ Shape(spaces) = Shape(Top.at)
    BY TopFacts, PlainInside
  <2>2. phase' = "return" /\ ctl' = Front(ctl) /\ spaces' = spaces /\ functions' = functions
    BY <1>2 DEF Pop, env
  <2> QED
    BY <2>1, <2>2, PopPureStep
<1> QED
  BY <1>1, <1>2

\* Expressions without operands; a function that is defined has a body of
\* the grammar.
LEMMA LeavesKeepPure ==
  ASSUME NEW X, NEW C, Parsed(X, C), IInv, PInv(X, C), Leaves
  PROVE  PInv(X, C)'
<1> USE DEF Evaluating, Yield, env
<1>1. CASE EvalFunctionDef
  <2>1. cur \in C /\ cur.type = "eFUNCTION_DEF"
    BY <1>1 DEF EvalFunctionDef, PInv, Starts
  <2>2. cur.left \in C
    BY <2>1, TreeFacts
  <2>3. /\ phase = "eval" /\ phase' = "return" /\ ctl' = ctl /\ spaces' = spaces
        /\ functions' = dict_set(functions, cur.str, cur.left)
    BY <1>1 DEF EvalFunctionDef
  <2>4. \A name \in DOMAIN functions' : functions'[name] \in C
    BY <2>2, <2>3 DEF dict_set, PInv
  <2> QED
    BY <2>3, <2>4 DEF PInv, Pure, Trees, Separate, Kept, ChildOf
<1>2. CASE ~EvalFunctionDef
  <2>1. /\ phase = "eval" /\ phase' = "return"
        /\ UNCHANGED <<ctl, spaces, functions>>
    BY <1>2 DEF Leaves, EvalNull, EvalLeaf, EvalString, EvalNothing, EvalVar, EvalIsEmpty
  <2> QED
    BY <2>1, StayPureStep
<1> QED
  BY <1>1, <1>2

\* Lists and objects.
LEMMA CollectionsKeepPure ==
  ASSUME NEW X, NEW C, Parsed(X, C), IInv, PInv(X, C), Collections
  PROVE  PInv(X, C)'
<1>0. NoExpr \in C
  BY DEF Parsed
<1>1. CASE ListEnter
  <2>1. /\ phase = "eval" /\ UNCHANGED env /\ cur \in C
        /\ cur.type = "eListVALUE" /\ cur.list # <<>>
        /\ Push([Frame("item") EXCEPT !.n = 1], cur.list[1])
    BY <1>1 DEF ListEnter, Evaluating, PInv, Starts
  <2>2. /\ IsSeq(cur.list)
        /\ \A k \in DOMAIN cur.list :
             cur.list[k] \in C /\ (cur \in X => cur.list[k] \in X)
    BY <2>1, TreeFacts
  <2>3. 1 \in DOMAIN cur.list
    BY <2>1, <2>2, IsSeqFacts
  <2> DEFINE child == cur.list[1]
  <2>4. child \in C /\ (cur \in X => child \in X)
    BY <2>2, <2>3
  <2> HIDE DEF child
  <2> QED
    BY <1>0, <2>1, <2>4, FrameEntersPure DEF Pcs, child
<1>2. CASE ObjectEnter
  <2>1. /\ phase = "eval" /\ UNCHANGED env /\ cur \in C
        /\ cur.type = "eObjectVALUE" /\ cur.object # <<>>
        /\ Push([Frame("item") EXCEPT !.n = 1], cur.object[1].data)
    BY <1>2 DEF ObjectEnter, Evaluating, PInv, Starts
  <2>2. IsSeq(cur.object) /\ \A k \in DOMAIN cur.object : cur.object[k].data \in X
    BY <2>1, TreeFacts
  <2>3. 1 \in DOMAIN cur.object
    BY <2>1, <2>2, IsSeqFacts
  <2> QED
    BY <1>0, <2>1, <2>2, <2>3, FrameEntersPure DEF Pcs
<1>3. CASE ListNext
  <2>1. /\ phase = "return" /\ ctl # <<>> /\ UNCHANGED env /\ Top.pc = "item"
        /\ Top.e.type = "eListVALUE" /\ Top.n < Len(Top.e.list)
    BY <1>3 DEF ListNext, Returned
  <2>2. Switch([Top EXCEPT !.n = Top.n + 1, !.held = value_list_add(Top.held, ret)],
               Top.e.list[Top.n + 1])
    BY <1>3, <2>1, TopFacts DEF ListNext, IsFrame
  <2>3. Top.e \in C /\ Top.n \in Nat
    BY <2>1, PlainPure, PlainFrame
  <2>4. /\ IsSeq(Top.e.list)
        /\ \A k \in DOMAIN Top.e.list :
             Top.e.list[k] \in C /\ (Top.e \in X => Top.e.list[k] \in X)
    BY <2>1, <2>3, TreeFacts
  <2>5. Top.n + 1 \in DOMAIN Top.e.list
    BY <2>1, <2>3, <2>4, IsSeqFacts
  <2> DEFINE child == Top.e.list[Top.n + 1]
  <2>6. child \in C /\ (Top.e \in X => child \in X) /\ Top.n + 1 \in Nat
    BY <2>3, <2>4, <2>5
  <2> DEFINE n == Top.n + 1
             held == value_list_add(Top.held, ret)
  <2>7. Switch([Top EXCEPT !.n = n, !.held = held], child)
    BY <2>2
  <2> HIDE DEF child, n, held
  <2>8. child \in C /\ ((Top.e.type = "eListVALUE" /\ Top.e \notin X) \/ child \in X)
    BY <2>1, <2>6
  <2>9. n \in Nat
    BY <2>6 DEF n
  <2> QED
    BY <2>1, <2>7, <2>8, <2>9, FrameGoesOnPure
<1>4. CASE ObjectNext
  <2>1. /\ phase = "return" /\ ctl # <<>> /\ UNCHANGED env /\ Top.pc = "item"
        /\ Top.e.type = "eObjectVALUE" /\ Top.n < Len(Top.e.object)
    BY <1>4 DEF ObjectNext, Returned
  <2>2. Switch([Top EXCEPT !.n = Top.n + 1, !.held = Append(Top.held, ret)],
               Top.e.object[Top.n + 1].data)
    BY <1>4, <2>1, TopFacts DEF ObjectNext, IsFrame
  <2>3. Top.e \in C /\ Top.n \in Nat
    BY <2>1, PlainPure, PlainFrame
  <2>4. IsSeq(Top.e.object) /\ \A k \in DOMAIN Top.e.object : Top.e.object[k].data \in X
    BY <2>1, <2>3, TreeFacts
  <2>5. Top.n + 1 \in DOMAIN Top.e.object
    BY <2>1, <2>3, <2>4, IsSeqFacts
  <2> DEFINE child == Top.e.object[Top.n + 1].data
  <2>6. child \in X /\ child \in C /\ Top.n + 1 \in Nat
    BY <2>3, <2>4, <2>5 DEF Parsed
  <2> HIDE DEF child
  <2> QED
    BY <2>1, <2>2, <2>6, FrameGoesOnPure DEF child
<1>5. CASE ListStop \/ ListDone \/ ObjectDone
  <2>1. /\ phase = "return" /\ ctl # <<>> /\ UNCHANGED env /\ Top.pc = "item"
        /\ \E v : Pop(v)
    BY <1>5 DEF ListStop, ListDone, ObjectDone, Returned
  <2> QED
    BY <2>1, PlainFrame, CrashOrReturnPure
<1>6. CASE EvalEmptyList \/ EvalEmptyObject
  BY <1>6, StayPureStep DEF EvalEmptyList, EvalEmptyObject, Evaluating, Yield, env
<1> QED
  BY <1>1, <1>2, <1>3, <1>4, <1>5, <1>6 DEF Collections

\* Operators.  Only an assignment changes variables, and it is no operand.
LEMMA OperatorsKeepPure ==
  ASSUME NEW X, NEW C, Parsed(X, C), IInv, PInv(X, C), Operators
  PROVE  PInv(X, C)'
<1>0. NoExpr \in C /\ X \subseteq C
  BY DEF Parsed
<1>1. CASE BinaryEnter \/ UnaryEnter \/ ArrayEnter
  <2>1. /\ phase = "eval" /\ UNCHANGED env /\ cur \in C
        /\ cur.type \in BinaryTypes \cup UnaryTypes \cup {"eARRAY_ACCESS"}
    BY <1>1 DEF BinaryEnter, UnaryEnter, ArrayEnter, Evaluating, PInv, Starts
  <2>2. PICK pc \in {"left first", "right first", "apply", "index"} :
          \/ Push(Frame(pc), cur.left) /\ cur.type \in BinaryTypes \cup UnaryTypes
          \/ Push(Frame(pc), cur.right) /\ cur.type \in BinaryTypes \cup {"eARRAY_ACCESS"}
    BY <1>1 DEF BinaryEnter, UnaryEnter, ArrayEnter, Evaluating
  <2>3. PICK child \in X : Push(Frame(pc), child)
    BY <2>1, <2>2, TreeFacts
  <2> QED
    BY <1>0, <2>1, <2>2, <2>3, FrameEntersPure DEF Pcs
<1>2. CASE BinarySecond
  <2>1. /\ phase = "return" /\ ctl # <<>> /\ UNCHANGED env
        /\ Top.pc \in {"left first", "right first"} /\ Top.e.type \in BinaryTypes
    BY <1>2 DEF BinarySecond, Returned
  <2>2. PICK pc \in {"left held", "right held"} :
          \E child \in {Top.e.left, Top.e.right} :
            Switch([Top EXCEPT !.pc = pc, !.held = <<ret>>], child)
    BY <1>2 DEF BinarySecond
  <2>3. {Top.e.left, Top.e.right} \subseteq X
    <3>1. Top.e \in C
      BY <2>1, PlainPure, PlainFrame
    <3> DEFINE e == Top.e
    <3>2. e \in C /\ e.type \in BinaryTypes
      BY <2>1, <3>1
    <3> HIDE DEF e
    <3>3. e.left \in X /\ e.right \in X
      BY <3>2, TreeFacts
    <3> QED BY <3>3 DEF e
  <2>4. PICK child \in X : Switch([Top EXCEPT !.pc = pc, !.held = <<ret>>], child)
    BY <2>2, <2>3
  <2> QED
    BY <2>1, <2>2, <2>4, FrameGoesOnPure
<1>3. CASE BinaryApply \/ NotApply \/ MinusApply \/ DotApply \/ IntApply
             \/ PrintApply \/ ReadApply \/ ReturnApply \/ ArrayApply
  <2>1. /\ phase = "return" /\ ctl # <<>> /\ UNCHANGED env
        /\ Top.pc \in {"left held", "right held", "apply"}
    BY <1>3 DEF BinaryApply, NotApply, MinusApply, DotApply, IntApply, PrintApply,
                ReadApply, ReturnApply, ArrayApply, Returned
  <2>2. Crash \/ \E v : Pop(v)
    BY <1>3 DEF BinaryApply, NotApply, MinusApply, DotApply, IntApply, PrintApply,
                ReadApply, ReturnApply, ArrayApply, Outcome
  <2> QED
    BY <2>1, <2>2, PlainFrame, CrashOrReturnPure
<1>4. CASE AssignApply
  <2>1. /\ phase = "return" /\ ctl # <<>> /\ Top.e.type = "eASSIGN_VAR"
        /\ Top.pc = "apply" /\ phase' = "return" /\ ctl' = Front(ctl)
        /\ functions' = functions
        /\ \/ spaces' = spaces
           \/ \E v : spaces' = kfs_lang_set_var(spaces, Top.e.str, v)
    BY <1>4 DEF AssignApply, Returned, Pop
  <2>2. Plain(Top) /\ Top.e \in C
    BY <2>1, PlainFrame, PlainPure
  <2>3. Top.e \notin X
    BY <2>1, <2>2, TreeFacts
  <2>4. IsSpaces(spaces) /\ Shape(spaces) = Shape(Top.at)
    BY <2>1, <2>2, TopFacts, PlainInside
  <2>5. CASE spaces' = spaces
    BY <2>1, <2>4, <2>5, PopPureStep
  <2>6. CASE \E v : spaces' = kfs_lang_set_var(spaces, Top.e.str, v)
    <3>1. PICK v : spaces' = kfs_lang_set_var(spaces, Top.e.str, v)
      BY <2>6
    <3> DEFINE sp2 == kfs_lang_set_var(spaces, Top.e.str, v)
    <3>2. /\ IsSpaces(sp2) /\ Len(sp2) = Len(spaces) /\ Shape(sp2) = Shape(spaces)
          /\ \A k \in DOMAIN spaces : k < Len(spaces) => sp2[k] = spaces[k]
      BY <2>4, SetVar
    <3>3. spaces' = sp2
      BY <3>1
    <3> HIDE DEF sp2
    <3>4. DOMAIN sp2 = DOMAIN spaces
      BY <2>4, <3>2, SameShape DEF IsSpaces
    <3>5. \A k \in DOMAIN sp2 : k < Len(sp2) => sp2[k] = spaces[k]
      BY <3>2, <3>4
    <3>6. Shape(sp2) = Shape(Top.at) /\ phase' # "eval"
      BY <2>1, <2>4, <3>2
    <3> QED
      BY <2>1, <2>3, <3>2, <3>3, <3>5, <3>6, PopPureStep
  <2> QED BY <2>1, <2>5, <2>6
<1>5. CASE ArrayIndex
  <2>1. /\ phase = "return" /\ ctl # <<>> /\ UNCHANGED env
        /\ Top.pc = "index" /\ Plain(Top) /\ Top.e.type = "eARRAY_ACCESS"
    BY <1>5, PlainFrame DEF ArrayIndex, Returned
  <2>2. \/ Crash \/ \E v : Pop(v)
        \/ Switch([Top EXCEPT !.pc = "apply", !.n = ret.i], Top.e.left)
    BY <1>5 DEF ArrayIndex
  <2>3. Top.e.left \in X
    <3>1. Top.e \in C
      BY <2>1, PlainPure
    <3> QED BY <2>1, <3>1, TreeFacts
  <2>4. CASE Switch([Top EXCEPT !.pc = "apply", !.n = ret.i], Top.e.left)
    <3> DEFINE n == ret.i
               child == Top.e.left
               pc == "apply"
    <3>1. /\ Switch([Top EXCEPT !.pc = pc, !.n = n], child) /\ child \in X
          /\ pc # "item" /\ pc # "leave" /\ Top.pc \notin {"item", "again", "body", "leave"}
      BY <2>1, <2>3, <2>4
    <3> HIDE DEF n, child, pc
    <3> QED
      BY <2>1, <3>1, FrameGoesOnPure
  <2> QED
    BY <2>1, <2>2, <2>4, CrashOrReturnPure
<1> QED
  BY <1>1, <1>2, <1>3, <1>4, <1>5 DEF Operators

\* Blocks change the last space, in which no operand below stands.
LEMMA BlocksKeepPure ==
  ASSUME NEW X, NEW C, Parsed(X, C), IInv, PInv(X, C), BlockEnter \/ BlockLeave
  PROVE  PInv(X, C)'
<1>1. CASE BlockEnter
  <2> DEFINE f == Frame("leave")
             sp2 == kfs_lang_env_space_add_vars(spaces)
             child == cur.left
  <2>1. /\ Stacks(ctl, spaces) /\ Pure(X, C, ctl, spaces) /\ IsSpaces(spaces)
        /\ Starts(X, C, ctl, spaces, cur) /\ cur.type = "eBLOCK" /\ cur \in C
    BY <1>1 DEF BlockEnter, Evaluating, IInv, PInv, Stacks, Typed, Starts
  <2>2. /\ f.e = cur /\ f.at = spaces /\ f.fn = NoExpr /\ f.pc = "leave"
        /\ InBlock(f) /\ ~InCall(f)
    BY <2>1 DEF Frame, InBlock, InCall
  <2>3. /\ phase' = "eval" /\ cur' = child /\ ctl' = Append(ctl, f) /\ spaces' = sp2
        /\ functions' = functions
    BY <1>1 DEF BlockEnter, Push, Descend
  <2>4. child \in C /\ cur \notin X /\ NoExpr \in C
    BY <2>1, TreeFacts DEF Parsed
  <2> HIDE DEF f, child
  <2>5. /\ IsSpaces(sp2) /\ Len(sp2) = Len(spaces)
        /\ \A k \in DOMAIN spaces : k < Len(spaces) => sp2[k] = spaces[k]
    BY <2>1, <2>2, AddVars
  <2> HIDE DEF sp2
  <2>6. CommandPlace(X, f) /\ ~PurePlace(X, f)
    BY <2>2 DEF CommandPlace, PurePlace
  <2>7. child \in ChildOf(X, C, f)
    BY <2>4, <2>6 DEF ChildOf
  <2>8. Len(spaces) <= Len(sp2)
    BY <2>1, <2>5, LastSpace
  <2>9. Pure(X, C, Append(ctl, f), sp2) /\ Starts(X, C, Append(ctl, f), sp2, child)
    BY <2>1, <2>2, <2>4, <2>5, <2>6, <2>7, <2>8, PushPure
  <2> QED
    BY <2>3, <2>9 DEF PInv
<1>2. CASE BlockLeave
  <2> DEFINE sp2 == kfs_lang_env_space_del_vars(spaces)
  <2>1. /\ phase = "return" /\ ctl # <<>> /\ InBlock(Top) /\ Top.e.type = "eBLOCK"
        /\ ctl' = Front(ctl) /\ phase' = "return" /\ spaces' = sp2
        /\ functions' = functions
    BY <1>2 DEF BlockLeave, Returned, Pop, InBlock
  <2>2. IsSpaces(spaces) /\ IsSpaces(Top.at) /\ Shape(spaces) = Inside(Top)
    BY <2>1, TopFacts
  <2>3. /\ IsSpaces(sp2) /\ Shape(sp2) = Shape(Top.at)
        /\ \A k \in DOMAIN sp2 : k < Len(sp2) => sp2[k] = spaces[k]
    BY <2>1, <2>2, DelVars
  <2>4. Top.e \notin X
    <3>1. Len(ctl) \in DOMAIN ctl
      BY <2>1, TopFacts, IsSeqFacts DEF Stacks, Typed
    <3>2. Top.e \in C
      BY <2>1, <3>1 DEF PInv, Pure, Trees, Top
    <3> QED BY <2>1, <3>2, TreeFacts
  <2> HIDE DEF sp2
  <2> QED
    BY <2>1, <2>3, <2>4, PopPureStep
<1> QED
  BY <1>1, <1>2

\* A branch is evaluated in the place of the if.
LEMMA IfKeepsPure ==
  ASSUME NEW X, NEW C, Parsed(X, C), IInv, PInv(X, C), IfChoose
  PROVE  PInv(X, C)'
<1> DEFINE d == Front(ctl)
<1>1. /\ phase = "return" /\ ctl # <<>> /\ Top.pc = "choose" /\ Top.e.type = "eIF"
      /\ spaces' = spaces /\ functions' = functions /\ phase' = "eval" /\ ctl' = d
      /\ cur' \in {Top.e.left, Top.e.right}
  BY DEF IfChoose, Returned, Descend, env
<1>2. /\ Pure(X, C, d, spaces) /\ Starts(X, C, d, spaces, Top.e) /\ Top.e \in C
  BY <1>1, PlainPure, PlainFrame
<1>3. {Top.e.left, Top.e.right} \subseteq C /\ Top.e \notin X
  BY <1>1, <1>2, TreeFacts
<1> HIDE DEF d
<1>4. Len(d) \in DOMAIN d => ChildOf(X, C, d[Len(d)]) = C
  BY <1>2, <1>3 DEF Starts, ChildOf
<1>5. ASSUME NEW e \in C PROVE Starts(X, C, d, spaces, e)
  BY <1>2, <1>3, <1>4 DEF Starts
<1> QED
  BY <1>1, <1>2, <1>3, <1>5 DEF PInv

\* If, while and blocks.
LEMMA ControlKeepsPure ==
  ASSUME NEW X, NEW C, Parsed(X, C), IInv, PInv(X, C), Control
  PROVE  PInv(X, C)'
<1>0. NoExpr \in C /\ X \subseteq C
  BY DEF Parsed
<1>1. CASE IfEnter \/ WhileEnter
  <2>1. /\ phase = "eval" /\ UNCHANGED env /\ cur \in C /\ cur.type \in {"eIF", "eWHILE"}
    BY <1>1 DEF IfEnter, WhileEnter, Evaluating, PInv, Starts
  <2>2. PICK pc \in {"choose", "first"} : Push(Frame(pc), cur.next)
    BY <1>1 DEF IfEnter, WhileEnter
  <2>3. cur.next \in X
    BY <2>1, TreeFacts
  <2> QED
    BY <1>0, <2>1, <2>2, <2>3, FrameEntersPure DEF Pcs
<1>2. CASE WhileFirst \/ WhileBody \/ WhileAgain
  <2>1. /\ phase = "return" /\ ctl # <<>> /\ UNCHANGED env
        /\ Top.pc \in {"first", "body", "again"} /\ Top.e.type = "eWHILE"
    BY <1>2 DEF WhileFirst, WhileBody, WhileAgain, Returned
  <2>2. Plain(Top)
    BY <2>1, PlainFrame
  <2>3. \/ Switch([Top EXCEPT !.pc = "body"], Top.e.right)
        \/ Switch([Top EXCEPT !.pc = "again"], Top.e.next)
        \/ Crash
        \/ \E v : Pop(v)
    BY <1>2 DEF WhileFirst, WhileBody, WhileAgain
  <2>4. Top.e.right \in C /\ Top.e.next \in X
    <3>1. Top.e \in C
      BY <2>1, <2>2, PlainPure
    <3> QED BY <2>1, <3>1, TreeFacts
  <2>5. CASE Switch([Top EXCEPT !.pc = "body"], Top.e.right)
    <3> DEFINE child == Top.e.right
               pc == "body"
    <3>1. /\ Switch([Top EXCEPT !.pc = pc], child)
          /\ pc = "body" /\ Top.e.type = "eWHILE" /\ child \in C /\ Top.pc # "leave"
          /\ pc # "leave"
      BY <2>1, <2>4, <2>5
    <3> HIDE DEF child, pc
    <3> QED
      BY <2>1, <3>1, FrameGoesOnPure
  <2>6. CASE Switch([Top EXCEPT !.pc = "again"], Top.e.next)
    <3> DEFINE child == Top.e.next
               pc == "again"
    <3>1. /\ Switch([Top EXCEPT !.pc = pc], child)
          /\ pc = "again" /\ Top.e.type = "eWHILE" /\ child \in X /\ Top.pc # "leave"
          /\ pc # "leave"
      BY <2>1, <2>4, <2>6
    <3> HIDE DEF child, pc
    <3> QED
      BY <2>1, <3>1, FrameGoesOnPure
  <2> QED
    BY <2>1, <2>2, <2>3, <2>5, <2>6, CrashOrReturnPure
<1> QED
  BY <1>1, <1>2, BlocksKeepPure, IfKeepsPure DEF Control

\* Calls: the body of a function may assign, in a space of its own.
LEMMA CallsKeepPure ==
  ASSUME NEW X, NEW C, Parsed(X, C), IInv, PInv(X, C), Calls
  PROVE  PInv(X, C)'
<1>0. NoExpr \in C /\ X \subseteq C
  BY DEF Parsed
<1>1. CASE CallEnter
  <2>1. /\ phase = "eval" /\ UNCHANGED env /\ cur \in C /\ cur.type = "eFUNCTION_CALL"
    BY <1>1 DEF CallEnter, Evaluating, PInv, Starts
  <2>2. cur.left \in X
    BY <2>1, TreeFacts
  <2>3. \/ \E fn \in C : Push([Frame("args") EXCEPT !.fn = fn], cur.left)
        \/ Push(Frame("args"), cur.left)
        \/ Crash
    BY <1>1 DEF CallEnter, PInv
  <2>4. CASE Crash
    BY <2>1, <2>4, StayPureStep DEF Crash, env
  <2>5. CASE Push(Frame("args"), cur.left)
    BY <1>0, <2>1, <2>2, <2>5, FrameEntersPure DEF Pcs
  <2>6. CASE \E fn \in C : Push([Frame("args") EXCEPT !.fn = fn], cur.left)
    BY <1>0, <2>1, <2>2, <2>6, FrameEntersPure DEF Pcs
  <2> QED
    BY <2>3, <2>4, <2>5, <2>6
<1>2. CASE CallBody
  <2> DEFINE f == [Top EXCEPT !.pc = "leave", !.at = spaces]
             d == Front(ctl)
             sp2 == kfs_lang_env_add_space(spaces, ret)
             child == Top.fn
  <2>1. /\ phase = "return" /\ ctl # <<>> /\ Top.pc = "args" /\ phase' = "eval"
        /\ Top.e.type = "eFUNCTION_CALL" /\ cur' = child
        /\ ctl' = Append(d, f) /\ spaces' = sp2 /\ functions' = functions
    BY <1>2 DEF CallBody, Returned, Switch, Descend
  <2>2. /\ Stacks(d, spaces) /\ IsSpaces(spaces) /\ Pure(X, C, d, spaces)
        /\ Starts(X, C, d, spaces, Top.e) /\ child \in C
    BY <2>1, PlainPure, PlainFrame
  <2>3. /\ f.e = Top.e /\ f.at = spaces /\ f.pc = "leave" /\ f.fn = child
    BY <2>1, TopFacts DEF IsFrame
  <2> HIDE DEF f, d, child
  <2>4. InCall(f) /\ CommandPlace(X, f)
    BY <2>1, <2>3 DEF InCall, CommandPlace
  <2>5. /\ IsSpaces(sp2) /\ Len(sp2) = Len(spaces) + 1
        /\ \A k \in DOMAIN spaces : sp2[k] = spaces[k]
    BY <2>2, AddSpace DEF IsSpaces
  <2> HIDE DEF sp2
  <2>6. Len(spaces) <= Len(sp2) /\ Len(spaces) < Len(sp2)
    BY <2>2, <2>5, LastSpace
  <2>7. child \in ChildOf(X, C, f)
    BY <2>2, <2>4 DEF ChildOf
  <2>8. Pure(X, C, Append(d, f), sp2) /\ Starts(X, C, Append(d, f), sp2, child)
    BY ONLY Parsed(X, C), <2>2, <2>3, <2>4, <2>5, <2>6, <2>7, PushPure
  <2> QED
    BY <2>1, <2>8 DEF PInv
<1>3. CASE CallLeave
  <2> DEFINE sp2 == kfs_lang_env_remove_space(spaces)
  <2>1. /\ phase = "return" /\ ctl # <<>> /\ InCall(Top)
        /\ ctl' = Front(ctl) /\ phase' = "return" /\ spaces' = sp2
        /\ functions' = functions
    BY <1>3 DEF CallLeave, Returned, Pop, InCall
  <2>2. IsSpaces(spaces) /\ IsSpaces(Top.at) /\ Shape(spaces) = Inside(Top)
    BY <2>1, TopFacts
  <2>3. /\ IsSpaces(sp2) /\ Shape(sp2) = Shape(Top.at)
        /\ \A k \in DOMAIN sp2 : sp2[k] = spaces[k]
    BY <2>1, <2>2, RemoveSpace
  <2> HIDE DEF sp2
  <2> QED
    BY <2>1, <2>3, PopPureStep
<1> QED
  BY <1>1, <1>2, <1>3 DEF Calls

\* The drivers start a script with no call active.
LEMMA DriveKeepsPure ==
  ASSUME NEW X, NEW C, Parsed(X, C), ScriptsIn(C), scripts \in ScriptSets,
         IInv, PInv(X, C), Drive
  PROVE  PInv(X, C)'
<1>0. ASSUME NEW sp, NEW e \in C
      PROVE  Pure(X, C, <<>>, sp) /\ Starts(X, C, <<>>, sp, e)
  BY EmptyIsSeq DEF Pure, Trees, Separate, Kept, Starts
<1>1. CASE StartScript
  <2>1. ctl' = <<>> /\ phase' = "eval" /\ functions' = functions
    BY <1>1 DEF StartScript, Descend
  <2>2. cur' \in C
    <3>1. inx + 1 \in DOMAIN scripts /\ scripts[inx + 1] # ParseError
      BY <1>1, IsSeqFacts DEF StartScript, IInv, Rest
    <3> QED BY <1>1, <3>1 DEF StartScript, Descend, ScriptsIn
  <2> QED
    BY <1>0, <2>1, <2>2 DEF PInv
<1>2. CASE ParseFails \/ FinishScript \/ kfs_lang_env_delete
  <2>1. ctl' = <<>> /\ phase' # "eval"
    BY <1>2 DEF ParseFails, FinishScript, kfs_lang_env_delete, Crash, machine, IInv, Rest
  <2>2. functions' = functions \/ functions' = EmptyDict
    BY <1>2 DEF ParseFails, FinishScript, kfs_lang_env_delete
  <2>3. \A name \in DOMAIN functions' : functions'[name] \in C
    BY <2>2 DEF PInv, EmptyDict
  <2>4. NoExpr \in C
    BY DEF Parsed
  <2> QED
    BY <1>0, <2>1, <2>3, <2>4 DEF PInv
<1> QED
  BY <1>1, <1>2 DEF Drive

\* Every step of the program keeps it, and the scripts are those given.
LEMMA NextKeepsPure ==
  ASSUME NEW X, NEW C, Parsed(X, C), ScriptsIn(C), scripts \in ScriptSets,
         IInv, PInv(X, C), [Next]_vars
  PROVE  PInv(X, C)'
<1>1. CASE UNCHANGED vars \/ Stopped
  <2>1. UNCHANGED <<phase, ctl, spaces, functions, cur>>
    BY <1>1 DEF Stopped, vars, machine, env
  <2> QED BY <2>1 DEF PInv, Pure, Trees, Separate, Kept, Starts, ChildOf
<1> QED
  BY <1>1, LeavesKeepPure, CollectionsKeepPure, OperatorsKeepPure, ControlKeepsPure,
     CallsKeepPure, DriveKeepsPure DEF Next, Step

\* No step of the program changes the scripts it runs.
LEMMA ScriptsStay ==
  ASSUME [Next]_vars
  PROVE  UNCHANGED scripts
BY DEF Next, Step, Stopped, vars, driver, Leaves, Collections, Operators, Control, Calls,
       Drive, StartScript, ParseFails, FinishScript, kfs_lang_env_delete,
       EvalNull, EvalLeaf, EvalString, EvalNothing, EvalVar, EvalIsEmpty, EvalFunctionDef,
       EvalEmptyList, ListEnter, ListStop, ListNext, ListDone, EvalEmptyObject, ObjectEnter,
       ObjectNext, ObjectDone, BinaryEnter, BinarySecond, BinaryApply, UnaryEnter, NotApply,
       MinusApply, DotApply, IntApply, AssignApply, PrintApply, ReadApply, ReturnApply,
       ArrayEnter, ArrayIndex, ArrayApply, BlockEnter, BlockLeave, IfEnter, IfChoose,
       WhileEnter, WhileFirst, WhileBody, WhileAgain, CallEnter, CallBody, CallLeave

-----------------------------------------------------------------------------
(* The theorems                                                            *)

\* The environment as kfs_lang_env_new leaves it.
LEMMA InitIInv ==
  ASSUME Init
  PROVE  IInv
<1>1. Stacks(<<>>, kfs_lang_env_add_space(<<>>, Null))
  BY NewSpaces, NoStacks
<1>2. IsSeq(scripts) /\ cut \in [LiteralIds -> Nat] /\ IsSeq(results)
  BY ScriptSetsAssumption, EmptyIsSeq DEF Init, NoCut
<1> QED
  BY <1>1, <1>2 DEF Init, IInv, Rest

\* Every step of the program keeps the invariant.
LEMMA NextKeepsIInv ==
  ASSUME IInv, [Next]_vars
  PROVE  IInv'
<1>1. CASE UNCHANGED vars
  <2>1. UNCHANGED <<phase, ctl, spaces, cut, scripts, inx, results>>
    BY <1>1 DEF vars, machine, env, driver
  <2> QED BY <2>1 DEF IInv, Rest
<1> QED
  BY <1>1, LeavesKeepIInv, CollectionsKeepIInv, OperatorsKeepIInv,
     ControlKeepsIInv, CallsKeepIInv, DriveKeepsIInv DEF Next, Step, Stopped

\* The invariant of all the theorems: the stack of calls and the stacks of
\* variables of kfs_lang_eval_value fit each other.
THEOREM Invariance == Spec => []IInv
<1>1. Init => IInv
  BY InitIInv
<1>2. IInv /\ [Next]_vars => IInv'
  BY NextKeepsIInv
<1> QED
  BY <1>1, <1>2, PTL DEF Spec

\* Type correctness; list_first_entry is never applied to an empty list of
\* spaces or levels, whatever the scripts do.
THEOREM TypeCorrect == Spec => []TypeOK
<1>1. IInv => TypeOK
  BY EmptyIsSeq DEF IInv, Rest, TypeOK, Stacks, Typed
<1> QED
  BY <1>1, Invariance, PTL

\* Every way of ending a block or a call removes what it added to the stack
\* of variables, once.
THEOREM StackIsBalanced == Spec => []StackBalanced
<1>1. IInv => StackBalanced
  BY DEF IInv, StackBalanced, Stacks, Shapes, Top
<1> QED
  BY <1>1, Invariance, PTL

\* No function, at any depth of calls, changes the variables of a caller.
THEOREM CallersKept == Spec => []CallerVariablesKept
<1>1. IInv => CallerVariablesKept
  BY EmptyIsSeq DEF IInv, Rest, CallerVariablesKept, Stacks, Callers
<1> QED
  BY <1>1, Invariance, PTL

\* A block, whatever runs in it, adds no name to the levels around it.
THEOREM BlockNamesStayLocal == Spec => []BlockLocalsStayLocal
<1>1. Init => BInv
  BY EmptyIsSeq DEF Init, BInv, BlocksNested, BlocksBelow
<1>2. IInv /\ BInv /\ [Next]_vars => BInv'
  BY NextKeepsBInv
<1>3. IInv /\ BInv => BlockLocalsStayLocal
  BY EmptyIsSeq DEF IInv, Rest, BInv, BlocksBelow, SameNames, BlockLocalsStayLocal
<1> QED
  BY <1>1, <1>2, <1>3, Invariance, PTL DEF Spec

\* Whatever trees the parser makes: what has operands evaluates them without
\* changing a variable, although they may call functions that assign.
THEOREM OperandsChangeNothing ==
  ASSUME NEW X, NEW C, Parsed(X, C), ScriptsIn(C)
  PROVE  Spec => []OperandsArePure
<1> DEFINE Inv == scripts \in ScriptSets /\ PInv(X, C)
<1>1. Init => Inv
  <2> SUFFICES ASSUME Init PROVE Inv
    OBVIOUS
  <2> QED
    BY EmptyIsSeq DEF Init, PInv, Pure, Trees, Separate, Kept, EmptyDict
<1>2. IInv /\ Inv /\ [Next]_vars => Inv'
  BY NextKeepsPure, ScriptsStay
<1>3. IInv /\ Inv => OperandsArePure
  <2> SUFFICES ASSUME IInv, PInv(X, C), NEW i \in DOMAIN ctl, OperandsOnly(ctl[i]),
                      NEW k \in DOMAIN ctl[i].at
               PROVE  spaces[k] = ctl[i].at[k]
    BY DEF OperandsArePure
  <2>1. Pure(X, C, ctl, spaces)
    BY EmptyIsSeq DEF IInv, Rest, PInv
  <2>2. PurePlace(X, ctl[i])
    <3>1. CASE ctl[i].e.type \in BinaryTypes \cup UnaryTypes
                                  \cup {"eARRAY_ACCESS", "eObjectVALUE"}
      BY <3>1 DEF PurePlace, CommandPlace, InBlock, InCall, BinaryTypes, UnaryTypes
    <3>2. CASE ctl[i].pc \in {"choose", "first"}
      BY <3>2 DEF PurePlace, CommandPlace, InBlock, InCall
    <3> QED
      BY <3>1, <3>2 DEF OperandsOnly
  <2> QED
    BY <2>1, <2>2 DEF Pure, Kept
<1> QED
  BY <1>1, <1>2, <1>3, Invariance, PTL DEF Spec

=============================================================================
