--------------------------- MODULE KfsDriverProofs ---------------------------
(***************************************************************************)
(* What main keeps of a command line, for command lines of any length, any *)
(* environment files and any number of failures.                           *)
(*                                                                         *)
(* The nodes that a loop over a list comes to are a recursive function of  *)
(* the pointers.  They are the list of KfsList if there is one (RingIs),   *)
(* so that what KfsListProofs says of list_add_tail and list_del is what   *)
(* the loops of main and options_delete see.                               *)
(*                                                                         *)
(* That the program does what KfsCommandLine promises is at the end: the   *)
(* effects to come are those of what has not been read and of what is in   *)
(* the lists, one part after the other (ToCome); each step moves a part to *)
(* where it stays as it is, does the first effect, or cuts out effects     *)
(* that it reports.                                                        *)
(***************************************************************************)
EXTENDS KfsDriver, KfsListProofs, FiniteSetTheorems, SequenceTheorems,
        WellFoundedInduction

Heads == {EnvsHead, ScriptsHead}
Handles == Node \cup Heads

\* What the entries of a list are.
Is(head) == IF head = EnvsHead THEN "env" ELSE "script"
\* s is the list of head.
Holds(m, head, s) == s \in Seq(Node) /\ IsList(m, head, s)
\* s has all entries x of the kind that belongs in the list of head, and no other.
Has(x, head, s) == \A n \in Node : (\E i \in 1..Len(s) : s[i] = n) <=> x[n].is = Is(head)

\* Both lists are whole.
Whole(m) == \A head \in Heads : Holds(m, head, Ring(m, head))
\* Each entry is in the one it belongs to.
Sorted(m, x) == \A head \in Heads : Has(x, head, Ring(m, head))

Typed ==
  /\ phase \in {"options", "envs", "env", "scripts", "script", "cleanup", "exited"}
  /\ DOMAIN options = DOMAIN Default
  /\ DOMAIN node = Node /\ \A n \in Node : node[n] = Free \/ node[n].is \in {"env", "script"}
  /\ links \in Links(Handles)
  /\ args \in CommandLines /\ optind \in Nat \ {0}
  /\ scanners \in Nat /\ reports \in Nat /\ failures \in 0..MaxFailures
  /\ curl \in {"none", "up", "down"} /\ env \in BOOLEAN

\* There are at most as many entries as arguments that have been read.
Room == phase = "options" => Cardinality(Allocated) < optind

\* A loop is at the first entry of what is left of its list, and knows the next.
LoopHead == IF InEnvs THEN EnvsHead ELSE ScriptsHead
Loops ==
  Looping =>
    /\ inx = links.next[LoopHead] /\ tmp = links.next[inx]
    /\ phase \in {"env", "script"} => inx # LoopHead

\* What is open belongs to the file that is read, and unless an error has been
\* reported so do the scanners.
Loading == phase \in {"env", "script"}
Open ==
  /\ files = IF phase = "env" \/ (phase = "script" /\ node[inx].mode = "FILE") THEN 1 ELSE 0
  /\ Loading => scanners > 0
  /\ reports = 0 => scanners = IF Loading THEN 1 ELSE 0

AtExit ==
  phase = "exited" => curl = "down" /\ (res = "RET_OK" => Allocated = {} /\ ~env)

IInv ==
  /\ Typed /\ Whole(links) /\ (phase # "exited" => Sorted(links, node))
  /\ Room /\ Loops /\ Open /\ AtExit

-----------------------------------------------------------------------------
(* Induction                                                               *)

Less == {p \in Nat \X Nat : p[1] < p[2]}

\* A set of numbers has a least one.
LEMMA LessWellFounded == IsWellFoundedOn(Less, Nat)
BY NatLessThanWellFounded, Zenon DEF OpToRel, Less

\* A set with 0 and the successors of its numbers has all of them.
LEMMA AllNumbers ==
  ASSUME NEW P, 0 \in P, \A i \in Nat : i \in P => i + 1 \in P
  PROVE  Nat \subseteq P
<1> DEFINE T == Nat \ P
<1>1. SUFFICES ASSUME T # {} PROVE FALSE
  OBVIOUS
<1>2. PICK i \in T : \A j \in T : ~ <<j, i>> \in Less
  BY <1>1, LessWellFounded, WFMin
<1>3. i \in Nat /\ i # 0
  OBVIOUS
<1>4. i - 1 \in Nat /\ i - 1 < i /\ i - 1 + 1 = i
  BY <1>3
<1>5. i - 1 \in P
  BY <1>2, <1>3, <1>4 DEF Less
<1> QED BY <1>3, <1>4, <1>5

-----------------------------------------------------------------------------
(* Lists                                                                   *)

\* The entries of a list are at most as many as there are addresses.
LEMMA ListLength ==
  ASSUME NEW m, NEW head, NEW s \in Seq(Node), IsList(m, head, s)
  PROVE  Len(s) \in Nat /\ Cardinality(Node) \in Nat /\ Len(s) <= Cardinality(Node)
<1>1. Len(s) \in Nat /\ s \in [1..Len(s) -> Node]
  OBVIOUS
<1>2. s \in Injection(1..Len(s), Node)
  BY <1>1 DEF IsList, Injection, IsInjective
<1>3. IsFiniteSet(Node)
  BY NodesAssumption
<1>4. Cardinality(1..Len(s)) <= Cardinality(Node)
  BY <1>2, <1>3, FS_Injection
<1>5. Cardinality(1..Len(s)) = Len(s)
  BY <1>1, FS_Interval
<1> QED BY <1>1, <1>3, <1>4, <1>5, FS_CardinalityType

\* A loop over a list comes to its entries in their order.
LEMMA RingIs ==
  ASSUME NEW m, NEW head, head \notin Node, NEW s, Holds(m, head, s)
  PROVE  Ring(m, head) = s
<1> DEFINE N == Cardinality(Node)
           f == [i \in 0..N |-> RingAt(head, s, i + 1)]
           at == Walk(m, head)
<1>1. s \in Seq(Node) /\ IsList(m, head, s)
  BY DEF Holds
<1>2. Len(s) \in Nat /\ N \in Nat /\ Len(s) <= N
  BY <1>1, ListLength
<1>3. \A i \in 1..Len(s) : RingAt(head, s, i) = s[i] /\ s[i] \in Node
  BY <1>1 DEF RingAt
<1>4. \A i \in Nat : i = 0 \/ i > Len(s) => RingAt(head, s, i) = head
  BY <1>2 DEF RingAt
<1>5. \A i \in 0..Len(s) : m.next[RingAt(head, s, i)] = RingAt(head, s, i + 1)
  BY <1>1 DEF IsList
<1>6. ASSUME NEW i \in 0..N
      PROVE  f[i] = IF i = 0 THEN m.next[head]
                    ELSE IF f[i - 1] \in Node THEN m.next[f[i - 1]] ELSE head
  <2>1. CASE i = 0
    BY <1>2, <1>4, <1>5, <2>1
  <2>2. CASE i # 0
    <3>1. i - 1 \in 0..N /\ i - 1 + 1 = i /\ i \in Nat /\ i + 1 \in Nat
      BY <1>2, <2>2
    <3>2. f[i - 1] = RingAt(head, s, i) /\ f[i] = RingAt(head, s, i + 1)
      BY <3>1
    <3>3. CASE i <= Len(s)
      <4>1. i \in 1..Len(s) /\ i \in 0..Len(s)
        BY <1>2, <2>2, <3>1, <3>3
      <4> QED BY <1>3, <1>5, <2>2, <3>2, <4>1
    <3>4. CASE i > Len(s)
      <4>1. i + 1 > Len(s)
        BY <1>2, <3>1, <3>4
      <4>2. f[i - 1] = head /\ f[i] = head
        BY <1>4, <3>1, <3>2, <3>4, <4>1
      <4> QED BY <2>2, <4>2
    <3> QED BY <1>2, <3>1, <3>3, <3>4
  <2> QED BY <2>1, <2>2
<1>7. f = [i \in 0..N |-> IF i = 0 THEN m.next[head]
                          ELSE IF f[i - 1] \in Node THEN m.next[f[i - 1]] ELSE head]
  <2> DEFINE g == [i \in 0..N |-> IF i = 0 THEN m.next[head]
                                  ELSE IF f[i - 1] \in Node THEN m.next[f[i - 1]] ELSE head]
  <2>1. \A i \in 0..N : f[i] = g[i]
    BY <1>6
  <2>2. DOMAIN f = 0..N /\ DOMAIN g = 0..N /\ f = [i \in 0..N |-> f[i]] /\ g = [i \in 0..N |-> g[i]]
    OBVIOUS
  <2> HIDE DEF f, g
  <2>3. f = g
    BY <2>1, <2>2
  <2> QED BY <2>3 DEF g
<1> HIDE DEF f
<1>8. at = [i \in 0..N |-> IF i = 0 THEN m.next[head]
                           ELSE IF at[i - 1] \in Node THEN m.next[at[i - 1]] ELSE head]
  BY <1>7 DEF Walk
<1> HIDE DEF at
<1>9. \A i \in 0..N : at[i] = f[i]
  <2> DEFINE P == {i \in Nat : i <= N => at[i] = f[i]}
  <2>1. 0 \in P
    <3>1. at[0] = m.next[head] /\ f[0] = m.next[head]
      BY <1>2, <1>7, <1>8
    <3> QED BY <3>1
  <2>2. ASSUME NEW i \in Nat, i \in P PROVE i + 1 \in P
    <3> SUFFICES ASSUME i + 1 <= N PROVE at[i + 1] = f[i + 1]
      OBVIOUS
    <3>1. i + 1 \in 0..N /\ i + 1 # 0 /\ i + 1 - 1 = i /\ i <= N
      BY <1>2
    <3>2. at[i] = f[i]
      BY <2>2, <3>1
    <3>3. at[i + 1] = IF at[i] \in Node THEN m.next[at[i]] ELSE head
      BY <1>8, <3>1
    <3>4. f[i + 1] = IF f[i] \in Node THEN m.next[f[i]] ELSE head
      BY <1>7, <3>1
    <3> QED BY <3>2, <3>3, <3>4
  <2> HIDE DEF P
  <2>3. Nat \subseteq P
    BY <2>1, <2>2, AllNumbers
  <2> QED BY <1>2, <2>3 DEF P
<1>10. \A i \in 0..N : at[i] = RingAt(head, s, i + 1)
  BY <1>9 DEF f
<1> DEFINE met == {i \in 0..N : at[i] \in Node}
<1>11. met = 0..(Len(s) - 1)
  <2>1. ASSUME NEW i \in 0..N PROVE i \in met <=> i \in 0..(Len(s) - 1)
    <3>1. i \in Nat /\ i + 1 \in Nat /\ i + 1 # 0
      BY <1>2
    <3>2. CASE i + 1 <= Len(s)
      <4>1. i + 1 \in 1..Len(s) /\ i \in 0..(Len(s) - 1)
        BY <1>2, <3>1, <3>2
      <4> QED BY <1>3, <1>10, <4>1
    <3>3. CASE i + 1 > Len(s)
      <4>1. at[i] = head /\ i \notin 0..(Len(s) - 1)
        BY <1>2, <1>4, <1>10, <3>1, <3>3
      <4> QED BY <4>1
    <3> QED BY <1>2, <3>1, <3>2, <3>3
  <2>2. \A i \in 0..(Len(s) - 1) : i \in 0..N
    BY <1>2
  <2> QED BY <2>1, <2>2
<1>12. Cardinality(met) = Len(s)
  <2>1. Len(s) - 1 \in Int /\ 0 \in Int
    BY <1>2
  <2>2. Cardinality(met) = IF 0 > Len(s) - 1 THEN 0 ELSE Len(s) - 1 - 0 + 1
    BY <1>11, <2>1, FS_Interval
  <2> HIDE DEF met
  <2> QED BY <1>2, <2>2
<1>13. Ring(m, head) = [i \in 1..Len(s) |-> at[i - 1]]
  BY <1>12 DEF Ring, at
<1>14. \A i \in 1..Len(s) : at[i - 1] = s[i]
  <2> TAKE i \in 1..Len(s)
  <2>1. i - 1 \in 0..N /\ i - 1 + 1 = i
    BY <1>2
  <2> QED BY <1>3, <1>10, <2>1
<1>15. s = [i \in 1..Len(s) |-> s[i]]
  BY <1>1
<1> QED BY <1>13, <1>14, <1>15

\* Sequences that are the two lists are what the loops see.
LEMMA ListsAre ==
  ASSUME NEW m, NEW x, NEW s \in [Heads -> Seq(Node)],
         \A head \in Heads : Holds(m, head, s[head]) /\ Has(x, head, s[head])
  PROVE  Whole(m) /\ Sorted(m, x) /\ \A head \in Heads : Ring(m, head) = s[head]
<1>1. \A head \in Heads : head \notin Node
  BY NodesAssumption DEF Heads
<1>2. \A head \in Heads : Ring(m, head) = s[head]
  BY <1>1, RingIs
<1> QED BY <1>2 DEF Whole, Sorted

\* The addresses of the heads and of the entries.
LEMMA HandlesFacts ==
  /\ NULL \notin Handles /\ Node \subseteq Handles /\ Heads \subseteq Handles
  /\ \A head \in Heads : head \notin Node
  /\ EnvsHead # ScriptsHead
  /\ \A head, other \in Heads : Is(head) = Is(other) => head = other
BY NodesAssumption DEF Handles, Heads, Is

\* A sequence of entries is one of handles.
LEMMA NodesAreHandles ==
  ASSUME NEW s \in Seq(Node)
  PROVE  s \in Seq(Handles) /\ Len(s) \in Nat /\ \A i \in 1..Len(s) : s[i] \in Node
<1>1. Len(s) \in Nat /\ \A i \in 1..Len(s) : s[i] \in Node
  OBVIOUS
<1>2. s \in [1..Len(s) -> Handles]
  BY <1>1, HandlesFacts
<1> QED BY <1>1, <1>2, SeqDef

\* The first entry of a list.
LEMMA FirstEntry ==
  ASSUME NEW m, NEW head \in Heads, NEW s, Holds(m, head, s)
  PROVE  /\ m.next[head] \in Node \cup {head}
         /\ m.next[m.next[head]] \in Node \cup {head}
         /\ m.next[head] # head =>
              /\ 1 \in 1..Len(s) /\ m.next[head] = s[1] /\ s[1] \in Node
              /\ m.next[s[1]] = RingAt(head, s, 2)
<1>1. s \in Seq(Node) /\ Len(s) \in Nat /\ 0 \in 0..Len(s) /\ 0 + 1 = 1 /\ 1 + 1 = 2
  BY DEF Holds
<1>2. \A i \in Nat : RingAt(head, s, i) \in Node \cup {head}
  BY <1>1 DEF RingAt
<1>3. RingAt(head, s, 0) = head
  BY DEF RingAt
<1>4. m.next[head] = RingAt(head, s, 1)
  BY <1>1, <1>3 DEF Holds, IsList
<1>5. m.next[head] # head =>
        /\ 1 \in 1..Len(s) /\ 1 \in 0..Len(s) /\ RingAt(head, s, 1) = s[1] /\ s[1] \in Node
        /\ m.next[s[1]] = RingAt(head, s, 2)
  <2> SUFFICES ASSUME m.next[head] # head
               PROVE  /\ 1 \in 1..Len(s) /\ 1 \in 0..Len(s) /\ RingAt(head, s, 1) = s[1]
                      /\ s[1] \in Node /\ m.next[s[1]] = RingAt(head, s, 2)
    OBVIOUS
  <2>1. 1 \in 1..Len(s) /\ 1 \in 0..Len(s) /\ RingAt(head, s, 1) = s[1] /\ s[1] \in Node
    BY <1>1, <1>4 DEF RingAt
  <2> QED BY <1>1, <2>1 DEF Holds, IsList
<1> QED BY <1>1, <1>2, <1>4, <1>5

\* list_del of the first entry of a list, and free: the loop goes on with the next,
\* and the other list is as it was.
LEMMA Dropped ==
  ASSUME NEW m \in Links(Handles), NEW x, Whole(m), Sorted(m, x),
         NEW head \in Heads, NEW n, n = m.next[head], n # head,
         NEW k, k = ListDel(m, n), NEW y, y[n] = Free, \A d \in Node \ {n} : y[d] = x[d]
  PROVE  /\ n \in Node /\ x[n].is = Is(head)
         /\ k \in Links(Handles) /\ Whole(k) /\ Sorted(k, y)
         /\ k.next[head] = m.next[n]
         /\ Ring(m, head) # <<>> /\ n = Ring(m, head)[1] /\ Ring(k, head) = Tail(Ring(m, head))
         /\ \A other \in Heads \ {head} : Ring(k, other) = Ring(m, other)
<1> DEFINE s == Ring(m, head)
           t == Without(s, 1)
<1>1. Holds(m, head, s) /\ Has(x, head, s)
  BY DEF Whole, Sorted
<1> HIDE DEF s
<1>2. /\ 1 \in 1..Len(s) /\ n = s[1] /\ s[1] \in Node /\ m.next[n] = RingAt(head, s, 2)
      /\ s \in Seq(Node) /\ IsList(m, head, s) /\ Len(s) \in Nat
  BY <1>1, FirstEntry, NodesAreHandles DEF Holds
<1>3. x[n].is = Is(head)
  BY <1>1, <1>2 DEF Has
<1>4. Deletable(m, n) /\ IsList(k, head, t)
  BY <1>2, HandlesFacts, NodesAreHandles, DelTakesOut
<1>5. k \in Links(Handles)
  BY <1>2, <1>4, HandlesFacts, DelTyped
<1>6. Len(s) - 1 \in Nat /\ \A i \in 1..(Len(s) - 1) : i + 1 \in 1..Len(s) /\ ~(i < 1)
  BY <1>2
<1>7. t = [i \in 1..(Len(s) - 1) |-> s[i + 1]]
  BY <1>6 DEF Without
<1>8. Len(t) = Len(s) - 1 /\ \A i \in 1..Len(t) : t[i] = s[i + 1]
  BY <1>6, <1>7
<1>9. t \in Seq(Node)
  BY <1>2, <1>6, <1>7
<1>10. y[n] = Free /\ \A d \in Node \ {n} : y[d] = x[d]
  OBVIOUS
<1> HIDE DEF t
<1>11. Has(y, head, t)
  <2> SUFFICES ASSUME NEW d \in Node
               PROVE  (\E i \in 1..Len(t) : t[i] = d) <=> y[d].is = Is(head)
    BY DEF Has
  <2>1. (\E i \in 1..Len(t) : t[i] = d) <=> d # n /\ \E i \in 1..Len(s) : s[i] = d
    <3>1. ASSUME NEW i \in 1..Len(t), t[i] = d
          PROVE  d # n /\ \E j \in 1..Len(s) : s[j] = d
      <4>1. i + 1 \in 1..Len(s) /\ i + 1 # 1 /\ s[i + 1] = d
        BY <1>6, <1>8, <3>1
      <4> QED BY <1>2, <4>1 DEF IsList
    <3>2. ASSUME d # n, NEW j \in 1..Len(s), s[j] = d
          PROVE  \E i \in 1..Len(t) : t[i] = d
      <4>1. j # 1
        BY <1>2, <3>2
      <4>2. j - 1 \in 1..Len(t) /\ j - 1 + 1 = j
        BY <1>2, <1>8, <4>1
      <4> QED BY <1>8, <3>2, <4>2
    <3> QED BY <3>1, <3>2
  <2>2. CASE d = n
    BY <1>10, <2>1, <2>2 DEF Free, Is
  <2>3. CASE d # n
    BY <1>1, <1>10, <2>1, <2>3 DEF Has
  <2> QED BY <2>2, <2>3
<1>12. k.next[head] = m.next[n]
  <2>1. 0 \in 0..Len(t) /\ RingAt(head, t, 0) = head
    BY <1>6, <1>8 DEF RingAt
  <2>2. k.next[head] = RingAt(head, t, 1)
    BY <1>4, <2>1 DEF IsList
  <2>3. RingAt(head, t, 1) = RingAt(head, s, 2)
    BY <1>6, <1>8 DEF RingAt
  <2> QED BY <1>2, <2>2, <2>3
<1>13. ASSUME NEW other \in Heads, other # head
       PROVE  LET u == Ring(m, other) IN Holds(k, other, u) /\ Has(y, other, u)
  <2> DEFINE u == Ring(m, other)
  <2>1. Holds(m, other, u) /\ Has(x, other, u)
    BY DEF Whole, Sorted
  <2> HIDE DEF u
  <2>2. /\ u \in Seq(Node) /\ IsList(m, other, u) /\ Len(u) \in Nat
        /\ \A i \in 1..Len(u) : u[i] \in Node
    BY <2>1, NodesAreHandles DEF Holds
  <2>3. \A i \in 1..Len(u) : u[i] # head /\ \A j \in 1..Len(s) : s[j] # u[i]
    <3> SUFFICES ASSUME NEW i \in 1..Len(u)
                 PROVE  u[i] # head /\ \A j \in 1..Len(s) : s[j] # u[i]
      OBVIOUS
    <3>1. u[i] \in Node /\ x[u[i]].is = Is(other)
      BY <2>1, <2>2 DEF Has
    <3>2. x[u[i]].is # Is(head)
      BY <1>13, <3>1, HandlesFacts
    <3> QED BY <1>1, <3>1, <3>2, HandlesFacts DEF Has
  <2>4. \A i \in 1..Len(u) :
          k.next[u[i]] = m.next[u[i]] /\ k.prev[u[i]] = m.prev[u[i]]
    <3> SUFFICES ASSUME NEW i \in 1..Len(u)
                 PROVE  k.next[u[i]] = m.next[u[i]] /\ k.prev[u[i]] = m.prev[u[i]]
      OBVIOUS
    <3>1. u[i] \in Handles \ {head}
      BY <2>2, <2>3, HandlesFacts
    <3>2. s \in Seq(Handles) /\ NULL \notin Handles
      BY <1>2, HandlesFacts, NodesAreHandles
    <3>3. \A j \in 1..Len(s) : s[j] # u[i]
      BY <2>3
    <3>4. head \in Handles
      BY HandlesFacts
    <3>5. ASSUME NEW d \in Handles \ {head}, \A j \in 1..Len(s) : s[j] # d
          PROVE  /\ ListDel(m, s[1]).next[d] = m.next[d]
                 /\ ListDel(m, s[1]).prev[d] = m.prev[d]
      BY <1>2, <3>2, <3>4, <3>5, DelLeavesOthers
    <3> QED BY <1>2, <3>1, <3>3, <3>5
  <2>5. k.next[other] = m.next[other] /\ k.prev[other] = m.prev[other]
    <3>1. other \in Handles \ {head} /\ \A j \in 1..Len(s) : s[j] # other
      BY <1>2, <1>13, HandlesFacts, NodesAreHandles
    <3> QED BY <1>2, <3>1, HandlesFacts, NodesAreHandles, DelLeavesOthers
  <2>6. IsList(k, other, u)
    BY <2>2, <2>4, <2>5, SameLinks
  <2>7. Has(y, other, u)
    <3> SUFFICES ASSUME NEW d \in Node
                 PROVE  (\E i \in 1..Len(u) : u[i] = d) <=> y[d].is = Is(other)
      BY DEF Has
    <3>1. CASE d = n
      <4>1. ~\E i \in 1..Len(u) : u[i] = d
        BY <1>2, <2>3, <3>1
      <4>2. y[d].is # Is(other)
        BY <1>10, <3>1 DEF Free, Is
      <4> QED BY <4>1, <4>2
    <3>2. CASE d # n
      BY <1>10, <2>1, <3>2 DEF Has
    <3> QED BY <3>1, <3>2
  <2> QED BY <2>2, <2>6, <2>7 DEF Holds, u
<1> DEFINE v == [h \in Heads |-> IF h = head THEN t ELSE Ring(m, h)]
<1>14. v \in [Heads -> Seq(Node)]
  BY <1>9 DEF Whole, Holds
<1>15. \A h \in Heads : Holds(k, h, v[h]) /\ Has(y, h, v[h])
  BY <1>4, <1>9, <1>11, <1>13 DEF Holds
<1> HIDE DEF v
<1>16. Whole(k) /\ Sorted(k, y) /\ \A h \in Heads : Ring(k, h) = v[h]
  BY <1>14, <1>15, ListsAre
<1>17. Ring(k, head) = t /\ \A other \in Heads \ {head} : Ring(k, other) = Ring(m, other)
  BY <1>16 DEF v
<1>18. s # <<>> /\ t = Tail(s)
  <2>1. s # <<>> /\ Tail(s) \in Seq(Node) /\ Len(Tail(s)) = Len(s) - 1
        /\ \A i \in 1..(Len(s) - 1) : Tail(s)[i] = s[i + 1]
    BY <1>2
  <2> QED BY <1>6, <1>8, <1>9, <2>1, SeqEqual
<1>19. Ring(m, head) # <<>> /\ n = Ring(m, head)[1] /\ Ring(k, head) = Tail(Ring(m, head))
  BY <1>2, <1>17, <1>18 DEF s
<1> QED BY <1>2, <1>3, <1>5, <1>12, <1>16, <1>17, <1>19

\* options_lst_add of a new StrList: it is the last of its list, and the other
\* list is as it was.
LEMMA Added ==
  ASSUME NEW m \in Links(Handles), NEW x, Whole(m), Sorted(m, x),
         NEW head \in Heads, NEW n \in Node, x[n] = Free, NEW a, a.is = Is(head),
         NEW k, k = ListAddTail(ListInit(m, n), n, head),
         NEW y, y[n] = a, \A d \in Node \ {n} : y[d] = x[d]
  PROVE  /\ k \in Links(Handles) /\ Whole(k) /\ Sorted(k, y)
         /\ Ring(k, head) = Append(Ring(m, head), n)
         /\ \A other \in Heads \ {head} : Ring(k, other) = Ring(m, other)
<1> DEFINE l == ListInit(m, n)
           s == Ring(m, head)
           t == Append(s, n)
<1>1. n \in Handles /\ n \notin Heads /\ head \in Handles
  BY HandlesFacts
<1>2. \A h \in Heads : /\ Holds(m, h, Ring(m, h)) /\ Has(x, h, Ring(m, h))
                       /\ \A i \in 1..Len(Ring(m, h)) : Ring(m, h)[i] # n
  <2> SUFFICES ASSUME NEW h \in Heads
               PROVE  /\ Holds(m, h, Ring(m, h)) /\ Has(x, h, Ring(m, h))
                      /\ \A i \in 1..Len(Ring(m, h)) : Ring(m, h)[i] # n
    OBVIOUS
  <2>1. Holds(m, h, Ring(m, h)) /\ Has(x, h, Ring(m, h))
    BY DEF Whole, Sorted
  <2>2. x[n].is # Is(h)
    BY DEF Free, Is
  <2> QED BY <2>1, <2>2 DEF Has
<1>3. l \in Links(Handles)
  BY <1>1, InitTyped
<1>4. \A d \in Handles \ {n} : l.next[d] = m.next[d] /\ l.prev[d] = m.prev[d]
  BY <1>1 DEF Links, ListInit
<1>l. k = ListAddTail(l, n, head)
  OBVIOUS
<1> HIDE DEF l
<1>5. \A h \in Heads : IsList(l, h, Ring(m, h))
  <2> TAKE h \in Heads
  <2> DEFINE u == Ring(m, h)
  <2>1. u \in Seq(Node) /\ IsList(m, h, u) /\ \A i \in 1..Len(u) : u[i] # n
    BY <1>2 DEF Holds
  <2> HIDE DEF u
  <2>2. Len(u) \in Nat /\ \A i \in 1..Len(u) : u[i] \in Handles \ {n}
    BY <2>1, NodesAreHandles, HandlesFacts
  <2>3. h \in Handles \ {n}
    BY <1>1, HandlesFacts
  <2>4. /\ m.next[h] = l.next[h] /\ m.prev[h] = l.prev[h]
        /\ \A i \in 1..Len(u) : m.next[u[i]] = l.next[u[i]] /\ m.prev[u[i]] = l.prev[u[i]]
    BY <1>4, <2>2, <2>3
  <2>5. IsList(l, h, u)
    BY <2>1, <2>2, <2>4, SameLinks
  <2> QED BY <2>5 DEF u
<1>6. /\ s \in Seq(Node) /\ s \in Seq(Handles) /\ IsList(l, head, s) /\ Has(x, head, s)
      /\ \A i \in 1..Len(s) : s[i] # n
  <2>1. s \in Seq(Node)
    BY <1>2 DEF Holds
  <2> QED BY <1>2, <1>5, <2>1, NodesAreHandles
<1> HIDE DEF s
<1>7. Len(s) \in Nat /\ \A i \in 1..Len(s) : s[i] \in Node
  BY <1>6
<1>8. IsList(k, head, t)
  BY <1>1, <1>3, <1>6, <1>l, HandlesFacts, AddBehind
<1>9. k \in Links(Handles)
  <2>1. Len(s) \in 0..Len(s) /\ RingAt(head, s, Len(s) + 1) = head
    BY <1>7 DEF RingAt
  <2>2. l.prev[head] = RingAt(head, s, Len(s))
    BY <1>6, <2>1 DEF IsList
  <2>3. RingAt(head, s, Len(s)) \in Handles
    BY <1>1, <1>7, HandlesFacts DEF RingAt
  <2> QED BY <1>1, <1>3, <1>l, <2>2, <2>3, AddTailTyped
<1>10. /\ t \in Seq(Node) /\ Len(t) = Len(s) + 1 /\ t[Len(s) + 1] = n
       /\ \A i \in 1..Len(s) : t[i] = s[i]
  BY <1>6
<1>11. y[n] = a /\ \A d \in Node \ {n} : y[d] = x[d]
  OBVIOUS
<1> HIDE DEF t
<1>12. Has(y, head, t)
  <2> SUFFICES ASSUME NEW d \in Node
               PROVE  (\E i \in 1..Len(t) : t[i] = d) <=> y[d].is = Is(head)
    BY DEF Has
  <2>1. (\E i \in 1..Len(t) : t[i] = d) <=> d = n \/ \E i \in 1..Len(s) : s[i] = d
    <3>1. \A i \in 1..Len(t) : i \in 1..Len(s) \/ i = Len(s) + 1
      BY <1>7, <1>10
    <3>2. Len(s) + 1 \in 1..Len(t) /\ \A i \in 1..Len(s) : i \in 1..Len(t)
      BY <1>7, <1>10
    <3> QED BY <1>10, <3>1, <3>2
  <2> QED BY <1>6, <1>11, <2>1 DEF Has
<1>13. ASSUME NEW other \in Heads, other # head
       PROVE  LET u == Ring(m, other) IN Holds(k, other, u) /\ Has(y, other, u)
  <2> DEFINE u == Ring(m, other)
  <2>1. /\ u \in Seq(Node) /\ IsList(l, other, u) /\ Has(x, other, u)
        /\ \A i \in 1..Len(u) : u[i] # n
    BY <1>2, <1>5 DEF Holds
  <2> HIDE DEF u
  <2>2. Len(u) \in Nat /\ \A i \in 1..Len(u) : u[i] \in Node
    BY <2>1
  <2>3. \A d \in Handles \ {n, head} :
          (\A i \in 1..Len(s) : s[i] # d) => k.next[d] = l.next[d] /\ k.prev[d] = l.prev[d]
    BY <1>1, <1>3, <1>6, <1>l, HandlesFacts, AddLeavesOthers
  <2>4. \A i \in 1..Len(u) : u[i] \in Handles \ {n, head} /\ \A j \in 1..Len(s) : s[j] # u[i]
    <3> SUFFICES ASSUME NEW i \in 1..Len(u)
                 PROVE  u[i] \in Handles \ {n, head} /\ \A j \in 1..Len(s) : s[j] # u[i]
      OBVIOUS
    <3>1. u[i] \in Node /\ u[i] # n /\ x[u[i]].is = Is(other)
      BY <2>1, <2>2 DEF Has
    <3>2. x[u[i]].is # Is(head)
      BY <1>13, <3>1, HandlesFacts
    <3> QED BY <1>6, <3>1, <3>2, HandlesFacts DEF Has
  <2>5. other \in Handles \ {n, head} /\ \A j \in 1..Len(s) : s[j] # other
    BY <1>1, <1>7, <1>13, HandlesFacts
  <2>6. /\ l.next[other] = k.next[other] /\ l.prev[other] = k.prev[other]
        /\ \A i \in 1..Len(u) : l.next[u[i]] = k.next[u[i]] /\ l.prev[u[i]] = k.prev[u[i]]
    BY <2>3, <2>4, <2>5
  <2>7. IsList(k, other, u)
    BY <2>1, <2>2, <2>6, SameLinks
  <2>8. Has(y, other, u)
    <3> SUFFICES ASSUME NEW d \in Node
                 PROVE  (\E i \in 1..Len(u) : u[i] = d) <=> y[d].is = Is(other)
      BY DEF Has
    <3>1. CASE d = n
      <4>1. y[d].is # Is(other)
        BY <1>11, <1>13, <3>1, HandlesFacts
      <4> QED BY <2>1, <3>1, <4>1
    <3>2. CASE d # n
      BY <1>11, <2>1, <3>2 DEF Has
    <3> QED BY <3>1, <3>2
  <2> QED BY <2>1, <2>7, <2>8 DEF Holds, u
<1> DEFINE v == [h \in Heads |-> IF h = head THEN t ELSE Ring(m, h)]
<1>14. v \in [Heads -> Seq(Node)]
  BY <1>10 DEF Whole, Holds
<1>15. \A h \in Heads : Holds(k, h, v[h]) /\ Has(y, h, v[h])
  BY <1>8, <1>10, <1>12, <1>13 DEF Holds
<1> HIDE DEF v
<1>16. Whole(k) /\ Sorted(k, y) /\ \A h \in Heads : Ring(k, h) = v[h]
  BY <1>14, <1>15, ListsAre
<1>17. Ring(k, head) = t /\ \A other \in Heads \ {head} : Ring(k, other) = Ring(m, other)
  BY <1>16 DEF v
<1> QED BY <1>9, <1>16, <1>17 DEF s, t

-----------------------------------------------------------------------------
(* Steps                                                                   *)

\* What fails is reported, and so is what only is an error.
LEMMA Counted ==
  ASSUME Typed, Works \/ Fails \/ Reported
  PROVE  /\ reports' \in Nat /\ failures' \in 0..MaxFailures
         /\ reports' = 0 => UNCHANGED <<reports, failures>> /\ reports = 0
BY FailuresAssumption DEF Typed, Works, Fails, Reported

\* There is never a doubt about how many entries there are.
LEMMA AllocatedFinite == IsFiniteSet(Allocated) /\ Cardinality(Allocated) \in Nat
<1>1. IsFiniteSet(Node) /\ Allocated \in SUBSET Node
  BY NodesAssumption DEF Allocated
<1> QED BY <1>1, FS_Subset, FS_CardinalityType

\* Main starts without entries.
LEMMA InitIInv == Init => IInv
<1> SUFFICES ASSUME Init PROVE IInv
  OBVIOUS
<1>1. /\ links.next = [h \in Handles |-> h] /\ links.prev = [h \in Handles |-> h]
      /\ links \in Links(Handles)
  BY DEF Init, Handles, Heads, Links
<1>2. Typed
  <2>1. DOMAIN options = DOMAIN Default
    BY DEF Init
  <2>2. DOMAIN node = Node /\ \A n \in Node : node[n] = Free \/ node[n].is \in {"env", "script"}
    BY DEF Init
  <2>3. failures \in 0..MaxFailures
    BY FailuresAssumption DEF Init
  <2>4. /\ phase \in {"options", "envs", "env", "scripts", "script", "cleanup", "exited"}
        /\ args \in CommandLines /\ optind \in Nat \ {0}
        /\ scanners \in Nat /\ reports \in Nat
        /\ curl \in {"none", "up", "down"}
    BY DEF Init
  <2>5. env \in BOOLEAN
    BY DEF Init
  <2> QED BY <1>1, <2>1, <2>2, <2>3, <2>4, <2>5 DEF Typed
<1> DEFINE none == [h \in Heads |-> <<>>]
<1>3. none \in [Heads -> Seq(Node)]
  OBVIOUS
<1>4. \A h \in Heads : Holds(links, h, <<>>) /\ Has(node, h, <<>>)
  <2> TAKE h \in Heads
  <2>1. h \in Handles
    BY DEF Handles
  <2>2. IsList(links, h, <<>>)
    BY <1>1, <2>1 DEF IsList, RingAt
  <2>3. Has(node, h, <<>>)
    BY DEF Init, Has, Free, Is
  <2> QED BY <2>2, <2>3 DEF Holds
<1>5. Whole(links) /\ Sorted(links, node)
  <2>1. \A h \in Heads : none[h] = <<>>
    OBVIOUS
  <2> HIDE DEF none
  <2> QED BY <1>3, <1>4, <2>1, ListsAre
<1>6. Allocated = {}
  BY DEF Init, Allocated
<1>7. Room
  BY <1>6, FS_EmptySet DEF Init, Room
<1>8. Loops /\ Open /\ AtExit
  BY DEF Init, Loops, Looping, Open, Loading, AtExit
<1> QED BY <1>2, <1>5, <1>7, <1>8 DEF IInv

\* A loop that is not at the head of its list deletes its entry and goes on.
LEMMA DropKeeps ==
  ASSUME IInv, phase \in {"envs", "env", "scripts", "script"}, inx # LoopHead, DropNode,
         phase' = IF InEnvs THEN "envs" ELSE "scripts"
  PROVE  /\ DOMAIN node' = Node
         /\ \A n \in Node : node'[n] = Free \/ node'[n].is \in {"env", "script"}
         /\ links' \in Links(Handles) /\ Whole(links') /\ Sorted(links', node')
         /\ Room' /\ Loops' /\ AtExit'
         /\ inx \in Node /\ Ring(links, LoopHead) # <<>> /\ inx = Ring(links, LoopHead)[1]
         /\ Ring(links', LoopHead) = Tail(Ring(links, LoopHead))
         /\ \A other \in Heads \ {LoopHead} : Ring(links', other) = Ring(links, other)
<1>1. LoopHead \in Heads /\ inx = links.next[LoopHead] /\ tmp = links.next[inx]
  BY DEF LoopHead, Heads, IInv, Loops, Looping
<1>2. /\ DOMAIN node = Node /\ \A n \in Node : node[n] = Free \/ node[n].is \in {"env", "script"}
      /\ links \in Links(Handles) /\ Whole(links) /\ Sorted(links, node)
  BY DEF IInv, Typed
<1>3. /\ node' = [node EXCEPT ![inx] = Free] /\ links' = ListDel(links, inx)
      /\ inx' = tmp /\ tmp' = links'.next[tmp]
  BY DEF DropNode
<1>4. /\ inx \in Node /\ links' \in Links(Handles) /\ Whole(links') /\ Sorted(links', node')
      /\ links'.next[LoopHead] = links.next[inx]
      /\ Ring(links, LoopHead) # <<>> /\ inx = Ring(links, LoopHead)[1]
      /\ Ring(links', LoopHead) = Tail(Ring(links, LoopHead))
      /\ \A other \in Heads \ {LoopHead} : Ring(links', other) = Ring(links, other)
  <2>1. inx \in Node
    BY <1>1, <1>2, FirstEntry DEF Whole
  <2>2. node'[inx] = Free /\ \A d \in Node \ {inx} : node'[d] = node[d]
    BY <1>2, <1>3, <2>1
  <2>3. ASSUME NEW k, k = ListDel(links, inx),
               NEW y, y[inx] = Free, \A d \in Node \ {inx} : y[d] = node[d]
        PROVE  /\ k \in Links(Handles) /\ Whole(k) /\ Sorted(k, y)
               /\ k.next[LoopHead] = links.next[inx]
               /\ Ring(links, LoopHead) # <<>> /\ inx = Ring(links, LoopHead)[1]
               /\ Ring(k, LoopHead) = Tail(Ring(links, LoopHead))
               /\ \A other \in Heads \ {LoopHead} : Ring(k, other) = Ring(links, other)
    BY <1>1, <1>2, <2>3, Dropped
  <2> QED BY <1>3, <2>1, <2>2, <2>3
<1>5. LoopHead' = LoopHead
  BY DEF LoopHead, InEnvs
<1>6. Loops'
  BY <1>1, <1>3, <1>4, <1>5 DEF Loops
<1>7. /\ DOMAIN node' = Node
      /\ \A n \in Node : node'[n] = Free \/ node'[n].is \in {"env", "script"}
  BY <1>2, <1>3, <1>4
<1>8. Room' /\ AtExit'
  BY DEF Room, AtExit
<1> QED BY <1>4, <1>6, <1>7, <1>8

\* A new entry is the last of the list it belongs to, and the other list is as it was.
LEMMA OptionAdds ==
  ASSUME IInv, phase = "options", optind <= Len(args), Arg.is \in {"env", "script"},
         NEW n, n = CHOOSE d \in Node \ Allocated : TRUE,
         node' = [node EXCEPT ![n] = Arg], links' = Insert(n, ListOf(Arg))
  PROVE  /\ n \in Node /\ n \notin Allocated /\ node[n] = Free
         /\ ListOf(Arg) \in Heads /\ Arg.is = Is(ListOf(Arg))
         /\ links' \in Links(Handles) /\ Whole(links') /\ Sorted(links', node')
         /\ Ring(links', ListOf(Arg)) = Append(Ring(links, ListOf(Arg)), n)
         /\ \A other \in Heads \ {ListOf(Arg)} : Ring(links', other) = Ring(links, other)
<1>1. Typed /\ Whole(links) /\ Sorted(links, node)
  BY DEF IInv
<1>2. Cardinality(Allocated) \in Nat /\ Cardinality(Allocated) < optind /\ optind \in Nat \ {0}
  BY <1>1, AllocatedFinite DEF IInv, Room, Typed
<1>3. Node \ Allocated # {}
  <2>1. Len(args) \in 0..Cardinality(Node) /\ Cardinality(Node) \in Nat
    BY <1>1, NodesAssumption, FS_CardinalityType DEF Typed
  <2>2. Cardinality(Allocated) # Cardinality(Node)
    BY <1>2, <2>1
  <2>3. Allocated # Node
    BY <2>2
  <2> QED BY <2>3 DEF Allocated
<1>4. n \in Node /\ n \notin Allocated
  BY <1>3
<1>5. node[n] = Free
  BY <1>4 DEF Allocated
<1>6. ListOf(Arg) \in Heads /\ Arg.is = Is(ListOf(Arg))
  BY HandlesFacts DEF ListOf, Heads, Is
<1>7. /\ DOMAIN node = Node /\ links \in Links(Handles)
      /\ \A d \in Node : node[d] = Free \/ node[d].is \in {"env", "script"}
  BY <1>1 DEF Typed
<1>8. node'[n] = Arg /\ \A d \in Node \ {n} : node'[d] = node[d]
  BY <1>4, <1>7
<1> DEFINE head == ListOf(Arg)
           a == Arg
<1>h. head \in Heads /\ a.is = Is(head) /\ node'[n] = a /\ links' = Insert(n, head)
  BY <1>6, <1>8
<1> HIDE DEF head, a
<1>9. ASSUME NEW k, k = ListAddTail(ListInit(links, n), n, head),
             NEW y, y[n] = a, \A d \in Node \ {n} : y[d] = node[d]
      PROVE  /\ k \in Links(Handles) /\ Whole(k) /\ Sorted(k, y)
             /\ Ring(k, head) = Append(Ring(links, head), n)
             /\ \A other \in Heads \ {head} : Ring(k, other) = Ring(links, other)
  BY ONLY <1>1, <1>4, <1>5, <1>7, <1>h, <1>9, Added
<1>10. /\ links' \in Links(Handles) /\ Whole(links') /\ Sorted(links', node')
       /\ Ring(links', head) = Append(Ring(links, head), n)
       /\ \A other \in Heads \ {head} : Ring(links', other) = Ring(links, other)
  BY <1>8, <1>9, <1>h DEF Insert
<1> QED BY <1>4, <1>5, <1>6, <1>10 DEF head, a

\* Reading the options puts their entries into the lists.
LEMMA OptionsKeep ==
  IInv /\ (OptionSet \/ OptionPrint \/ OptionAdd \/ OptionsRead) => IInv'
<1> SUFFICES ASSUME IInv, OptionSet \/ OptionPrint \/ OptionAdd \/ OptionsRead PROVE IInv'
  OBVIOUS
<1>1. Typed /\ Whole(links) /\ Sorted(links, node) /\ phase = "options"
  BY DEF IInv, OptionSet, OptionPrint, OptionAdd, OptionsRead, NextArg
<1>2. Cardinality(Allocated) \in Nat /\ Cardinality(Allocated) < optind /\ optind \in Nat \ {0}
  BY <1>1, AllocatedFinite DEF IInv, Room, Typed
<1>3. CASE OptionSet \/ OptionPrint
  <2>1. /\ UNCHANGED <<phase, node, links, inx, args, files, scanners, curl, env, res, reports,
                       failures>>
        /\ optind' = optind + 1
    BY <1>3 DEF OptionSet, OptionPrint, NextArg, lists
  <2>2. DOMAIN options' = DOMAIN Default
    BY <1>1, <1>3 DEF OptionSet, OptionPrint, Typed
  <2>3. Typed'
    BY <1>1, <2>1, <2>2 DEF Typed
  <2>4. Allocated' = Allocated
    BY <2>1 DEF Allocated
  <2>5. Room'
    BY <1>2, <2>1, <2>4 DEF Room
  <2>6. Loops' /\ Open' /\ AtExit'
    BY <1>1, <2>1 DEF IInv, Loops, Looping, Open, Loading, AtExit
  <2> QED BY <1>1, <2>1, <2>3, <2>5, <2>6 DEF IInv
<1>4. CASE OptionAdd
  <2>1. /\ UNCHANGED <<phase, options, inx, args, files, scanners, curl, env, res>>
        /\ optind' = optind + 1 /\ optind <= Len(args) /\ Arg.is \in {"env", "script"}
    BY <1>4 DEF OptionAdd, NextArg
  <2>2. Works \/ Fails
    BY <1>4 DEF OptionAdd
  <2>3. reports' \in Nat /\ failures' \in 0..MaxFailures
        /\ (reports' = 0 => reports = 0)
    BY <1>1, <2>2, Counted
  <2>4. Loops' /\ AtExit'
    BY <1>1, <2>1 DEF Loops, Looping, AtExit
  <2>5. Open'
    BY <1>1, <2>1, <2>3 DEF IInv, Open, Loading
  <2>6. CASE UNCHANGED <<node, links>>
    <3>1. Typed'
      BY <1>1, <2>1, <2>3, <2>6 DEF Typed
    <3>2. Allocated' = Allocated
      BY <2>6 DEF Allocated
    <3>3. Room'
      BY <1>2, <2>1, <3>2 DEF Room
    <3> QED BY <1>1, <2>4, <2>5, <2>6, <3>1, <3>3 DEF IInv
  <2>7. CASE ~UNCHANGED <<node, links>>
    <3> DEFINE n == CHOOSE n \in Node \ Allocated : TRUE
    <3>1. node' = [node EXCEPT ![n] = Arg] /\ links' = Insert(n, ListOf(Arg))
      BY <1>4, <2>7 DEF OptionAdd
    <3> HIDE DEF n
    <3>2. ASSUME NEW d, d = CHOOSE e \in Node \ Allocated : TRUE,
                 node' = [node EXCEPT ![d] = Arg], links' = Insert(d, ListOf(Arg))
          PROVE  d \in Node /\ d \notin Allocated /\ links' \in Links(Handles)
                 /\ Whole(links') /\ Sorted(links', node')
      BY <1>1, <2>1, <3>2, OptionAdds
    <3>3. n \in Node /\ n \notin Allocated /\ links' \in Links(Handles)
          /\ Whole(links') /\ Sorted(links', node')
      BY <3>1, <3>2 DEF n
    <3>6. /\ DOMAIN node = Node
          /\ \A d \in Node : node[d] = Free \/ node[d].is \in {"env", "script"}
      BY <1>1 DEF Typed
    <3>8. /\ DOMAIN node' = Node
          /\ \A d \in Node : node'[d] = Free \/ node'[d].is \in {"env", "script"}
      BY <2>1, <3>1, <3>3, <3>6
    <3>9. Typed'
      BY <1>1, <2>1, <2>3, <3>3, <3>8 DEF Typed
    <3>10. Allocated' \in SUBSET (Allocated \cup {n})
      BY <3>1, <3>3, <3>6 DEF Allocated
    <3>11. Room'
      <4>1. /\ IsFiniteSet(Allocated \cup {n})
            /\ Cardinality(Allocated \cup {n}) = Cardinality(Allocated) + 1
        BY <3>3, AllocatedFinite, FS_AddElement
      <4>2. Cardinality(Allocated') <= Cardinality(Allocated) + 1 /\ IsFiniteSet(Allocated')
        BY <3>10, <4>1, FS_Subset
      <4>3. Cardinality(Allocated') \in Nat
        BY <4>2, FS_CardinalityType
      <4>4. Cardinality(Allocated)' = Cardinality(Allocated')
        OBVIOUS
      <4> QED BY <1>2, <2>1, <4>2, <4>3, <4>4 DEF Room
    <3> QED BY <2>4, <2>5, <3>3, <3>9, <3>11 DEF IInv
  <2> QED BY <2>6, <2>7
<1>5. CASE OptionsRead
  <2>1. /\ phase' = "envs" /\ inx' = links.next[EnvsHead] /\ tmp' = links.next[inx']
        /\ UNCHANGED <<args, optind, options, node, links, files, scanners, curl, env, res,
                       reports, failures>>
    BY <1>5 DEF OptionsRead, LoopOver
  <2>2. Typed'
    BY <1>1, <2>1 DEF Typed
  <2>3. Room' /\ AtExit'
    BY <2>1 DEF Room, AtExit
  <2>4. Loops'
    BY <2>1 DEF Loops, LoopHead, InEnvs
  <2>5. Open'
    BY <1>1, <2>1 DEF IInv, Open, Loading
  <2> QED BY <1>1, <2>1, <2>2, <2>3, <2>4, <2>5 DEF IInv
<1> QED BY <1>3, <1>4, <1>5

\* A file that is read, or could not be, leaves its list.
LEMMA FilesKeep ==
  IInv /\ (EnvUnopened \/ EnvError \/ EnvLoaded \/ ScriptUnopened \/ ScriptDone) => IInv'
<1> SUFFICES ASSUME IInv, EnvUnopened \/ EnvError \/ EnvLoaded \/ ScriptUnopened \/ ScriptDone
             PROVE  IInv'
  OBVIOUS
<1>1. /\ DropNode /\ UNCHANGED <<args, optind, options, curl, env>>
      /\ phase \in {"envs", "env", "scripts", "script"}
      /\ phase' = IF InEnvs THEN "envs" ELSE "scripts"
      /\ phase \in {"envs", "scripts"} => inx # LoopHead
  BY DEF EnvUnopened, EnvError, EnvLoaded, ScriptUnopened, ScriptDone, InEnvs, LoopHead
<1>2. Typed /\ Loops /\ Open
  BY DEF IInv
<1>3. inx # LoopHead
  BY <1>1, <1>2 DEF Loops, Looping
<1>4. /\ DOMAIN node' = Node
      /\ \A n \in Node : node'[n] = Free \/ node'[n].is \in {"env", "script"}
      /\ links' \in Links(Handles) /\ Whole(links') /\ Sorted(links', node')
      /\ Room' /\ Loops' /\ AtExit'
  BY <1>1, <1>3, DropKeeps
<1>5. Works \/ Fails \/ Reported
  BY DEF EnvUnopened, EnvError, EnvLoaded, ScriptUnopened, ScriptDone, Works
<1>6. reports' \in Nat /\ failures' \in 0..MaxFailures /\ (reports' = 0 => reports = 0)
  BY <1>2, <1>5, Counted
<1>7. phase' \in {"envs", "scripts"}
  BY <1>1
<1>8. /\ files' = 0 /\ scanners' \in Nat
      /\ reports' = 0 => scanners' = 0
  <2>1. /\ scanners \in Nat /\ reports \in Nat
        /\ files = IF phase = "env" \/ (phase = "script" /\ node[inx].mode = "FILE") THEN 1 ELSE 0
        /\ Loading => scanners > 0
        /\ reports = 0 => scanners = IF Loading THEN 1 ELSE 0
    BY <1>2 DEF Typed, Open
  <2>2. CASE EnvUnopened \/ ScriptUnopened
    BY <1>6, <2>1, <2>2 DEF EnvUnopened, ScriptUnopened, Loading
  <2>3. CASE EnvError
    <3>1. phase = "env" /\ files' = files - 1 /\ scanners' = scanners /\ reports' = reports + 1
      BY <2>3 DEF EnvError, EnvClose, Reported
    <3> QED BY <2>1, <3>1
  <2>4. CASE EnvLoaded
    <3>1. phase = "env" /\ files' = files - 1 /\ scanners' = scanners - 1 /\ reports' = reports
      BY <2>4 DEF EnvLoaded, EnvClose
    <3> QED BY <2>1, <3>1 DEF Loading
  <2>5. CASE ScriptDone
    <3>1. /\ phase = "script" /\ scanners' = scanners - 1
          /\ files' = IF node[inx].mode = "FILE" THEN files - 1 ELSE files
      BY <2>5 DEF ScriptDone
    <3> QED BY <1>6, <2>1, <3>1 DEF Loading
  <2> QED BY <2>2, <2>3, <2>4, <2>5
<1>9. Typed'
  BY <1>1, <1>2, <1>4, <1>6, <1>7, <1>8 DEF Typed
<1>10. Open'
  BY <1>7, <1>8 DEF Open, Loading
<1> QED BY <1>4, <1>9, <1>10 DEF IInv

\* Opening files, the assignments in them and the end of the loops leave the lists.
LEMMA OthersKeep ==
  IInv /\ (EnvOpened \/ EnvAssign \/ EnvsLoaded \/ NoScanner \/ ScriptOpened \/ ScriptsDone)
    => IInv'
<1> SUFFICES ASSUME IInv,
                    EnvOpened \/ EnvAssign \/ EnvsLoaded \/ NoScanner \/ ScriptOpened \/ ScriptsDone
             PROVE  IInv'
  OBVIOUS
<1>1. UNCHANGED <<args, optind, options, node, links>> /\ phase # "options" /\ phase # "exited"
  BY DEF EnvOpened, EnvAssign, EnvsLoaded, NoScanner, ScriptOpened, ScriptsDone, lists
<1>2. Typed /\ Whole(links) /\ Sorted(links, node) /\ Loops /\ Open
  BY <1>1 DEF IInv
<1>3. Whole(links') /\ Sorted(links', node')
  BY <1>1, <1>2
<1>4. /\ scanners \in Nat /\ reports \in Nat /\ failures \in 0..MaxFailures
      /\ curl \in {"none", "up", "down"} /\ env \in BOOLEAN
      /\ files = IF phase = "env" \/ (phase = "script" /\ node[inx].mode = "FILE") THEN 1 ELSE 0
      /\ Loading => scanners > 0
      /\ reports = 0 => scanners = IF Loading THEN 1 ELSE 0
  BY <1>2 DEF Typed, Open
<1>5. CASE EnvOpened
  <2>1. /\ phase = "envs" /\ phase' = "env" /\ inx # EnvsHead
        /\ files' = files + 1 /\ scanners' = scanners + 1
        /\ UNCHANGED <<inx, tmp, curl, env, res, reports, failures>>
    BY <1>5 DEF EnvOpened, lists
  <2>2. Typed'
    BY <1>1, <1>2, <2>1 DEF Typed
  <2>3. Loops'
    BY <1>1, <1>2, <2>1 DEF Loops, Looping, LoopHead, InEnvs
  <2>4. Open'
    BY <1>4, <2>1 DEF Open, Loading
  <2>5. Room' /\ AtExit'
    BY <2>1 DEF Room, AtExit
  <2> QED BY <1>3, <2>2, <2>3, <2>4, <2>5 DEF IInv
<1>6. CASE EnvAssign
  <2>1. /\ phase = "env" /\ UNCHANGED <<phase, inx, tmp, files, scanners, curl, env, res>>
        /\ Works \/ Fails
    BY <1>6 DEF EnvAssign, lists
  <2>2. reports' \in Nat /\ failures' \in 0..MaxFailures /\ (reports' = 0 => reports = 0)
    BY <1>2, <2>1, Counted
  <2>3. Typed'
    BY <1>1, <1>2, <2>1, <2>2 DEF Typed
  <2>4. Loops'
    BY <1>1, <1>2, <2>1 DEF Loops, Looping, LoopHead, InEnvs
  <2>5. Open'
    BY <1>4, <2>1, <2>2 DEF Open, Loading
  <2>6. Room' /\ AtExit'
    BY <2>1 DEF Room, AtExit
  <2> QED BY <1>3, <2>3, <2>4, <2>5, <2>6 DEF IInv
<1>7. CASE EnvsLoaded
  <2>1. /\ phase = "envs" /\ phase' = "scripts" /\ env' = TRUE /\ curl' \in {"up", curl}
        /\ inx' = links.next[ScriptsHead] /\ tmp' = links.next[inx']
        /\ UNCHANGED <<files, scanners, res>>
        /\ Works \/ Fails
    BY <1>7 DEF EnvsLoaded, LoopOver
  <2>2. reports' \in Nat /\ failures' \in 0..MaxFailures /\ (reports' = 0 => reports = 0)
    BY <1>2, <2>1, Counted
  <2>3. Typed'
    <3>1. env' \in BOOLEAN
      BY <2>1
    <3>2. curl' \in {"none", "up", "down"}
      BY <1>4, <2>1
    <3>3. phase' \in {"options", "envs", "env", "scripts", "script", "cleanup", "exited"}
      BY <2>1
    <3> QED BY <1>1, <1>2, <2>1, <2>2, <3>1, <3>2, <3>3 DEF Typed
  <2>4. Loops'
    BY <1>1, <2>1 DEF Loops, LoopHead, InEnvs
  <2>5. Open'
    BY <1>4, <2>1, <2>2 DEF Open, Loading
  <2>6. Room' /\ AtExit'
    BY <2>1 DEF Room, AtExit
  <2> QED BY <1>3, <2>3, <2>4, <2>5, <2>6 DEF IInv
<1>8. CASE NoScanner
  <2>1. /\ phase = "scripts" /\ phase' = "exited" /\ curl' = "down"
        /\ res' = "RET_CANNOT_INIT_LEX_ERROR"
        /\ UNCHANGED <<inx, tmp, files, scanners, env>>
        /\ Fails
    BY <1>8 DEF NoScanner, lists
  <2>2. reports' \in Nat /\ failures' \in 0..MaxFailures /\ (reports' = 0 => reports = 0)
    BY <1>2, <2>1, Counted
  <2>3. Typed'
    BY <1>1, <1>2, <2>1, <2>2 DEF Typed
  <2>4. Open'
    BY <1>4, <2>1, <2>2 DEF Open, Loading
  <2>5. Room' /\ AtExit' /\ Loops'
    BY <2>1 DEF Room, AtExit, Loops, Looping
  <2> QED BY <1>3, <2>3, <2>4, <2>5 DEF IInv
<1>9. CASE ScriptOpened
  <2>1. /\ phase = "scripts" /\ phase' = "script" /\ inx # ScriptsHead
        /\ files' = IF node[inx].mode = "FILE" THEN files + 1 ELSE files
        /\ scanners' = scanners + 1
        /\ UNCHANGED <<inx, tmp, curl, env, res, reports, failures>>
    BY <1>9 DEF ScriptOpened, lists
  <2>2. Typed'
    BY <1>1, <1>2, <2>1 DEF Typed
  <2>3. Loops'
    BY <1>1, <1>2, <2>1 DEF Loops, Looping, LoopHead, InEnvs
  <2>4. Open'
    BY <1>1, <1>4, <2>1 DEF Open, Loading
  <2>5. Room' /\ AtExit'
    BY <2>1 DEF Room, AtExit
  <2> QED BY <1>3, <2>2, <2>3, <2>4, <2>5 DEF IInv
<1>10. CASE ScriptsDone
  <2>1. /\ phase = "scripts" /\ phase' = "cleanup"
        /\ UNCHANGED <<inx, tmp, files, scanners, curl, env, res, reports, failures>>
    BY <1>10 DEF ScriptsDone, lists
  <2>2. Typed'
    BY <1>1, <1>2, <2>1 DEF Typed
  <2>3. Loops'
    BY <1>1, <1>2, <2>1 DEF Loops, Looping, LoopHead, InEnvs
  <2>4. Open'
    BY <1>4, <2>1 DEF Open, Loading
  <2>5. Room' /\ AtExit'
    BY <2>1 DEF Room, AtExit
  <2> QED BY <1>3, <2>2, <2>3, <2>4, <2>5 DEF IInv
<1> QED BY <1>5, <1>6, <1>7, <1>8, <1>9, <1>10

\* At the end all entries are in the lists, and options_delete frees them.
LEMMA CleanupKeeps == IInv /\ Cleanup => IInv'
<1> SUFFICES ASSUME IInv, Cleanup PROVE IInv'
  OBVIOUS
<1>1. /\ phase = "cleanup" /\ phase' = "exited" /\ curl' = "down" /\ env' = FALSE
      /\ UNCHANGED <<args, optind, options, links, inx, tmp, files, scanners, res, reports,
                     failures>>
      /\ node' = [n \in Node |->
           IF n \in ToSet(Ring(links, ScriptsHead) \o Ring(links, EnvsHead)) THEN Free ELSE node[n]]
  BY DEF Cleanup
<1>2. Typed /\ Whole(links) /\ Sorted(links, node) /\ Open
  BY <1>1 DEF IInv
<1> DEFINE s == Ring(links, ScriptsHead)
           e == Ring(links, EnvsHead)
<1>3. s \in Seq(Node) /\ e \in Seq(Node) /\ Has(node, ScriptsHead, s) /\ Has(node, EnvsHead, e)
  BY <1>2 DEF Whole, Holds, Sorted, Heads
<1> HIDE DEF s, e
<1>4. \A n \in Node : node[n] # Free => n \in ToSet(s \o e)
  <2> SUFFICES ASSUME NEW n \in Node, node[n] # Free PROVE n \in ToSet(s \o e)
    OBVIOUS
  <2>1. node[n].is = "env" \/ node[n].is = "script"
    BY <1>2 DEF Typed
  <2>2. (\E i \in 1..Len(s) : s[i] = n) \/ (\E i \in 1..Len(e) : e[i] = n)
    BY <1>3, <2>1, HandlesFacts DEF Has, Is
  <2>3. /\ s \o e \in Seq(Node) /\ Len(s \o e) = Len(s) + Len(e)
        /\ Len(s) \in Nat /\ Len(e) \in Nat
        /\ \A i \in 1..Len(s) : (s \o e)[i] = s[i]
        /\ \A i \in 1..Len(e) : (s \o e)[Len(s) + i] = e[i]
    BY <1>3
  <2>4. \E i \in 1..Len(s \o e) : (s \o e)[i] = n
    <3>1. CASE \E i \in 1..Len(s) : s[i] = n
      BY <2>3, <3>1
    <3>2. CASE \E i \in 1..Len(e) : e[i] = n
      <4>1. PICK i \in 1..Len(e) : e[i] = n
        BY <3>2
      <4>2. Len(s) + i \in 1..Len(s \o e)
        BY <2>3
      <4> QED BY <2>3, <4>1, <4>2
    <3> QED BY <2>2, <3>1, <3>2
  <2> QED BY <2>3, <2>4 DEF ToSet
<1>5. DOMAIN node' = Node /\ \A n \in Node : node'[n] = Free
  BY <1>1, <1>4 DEF s, e
<1>6. Allocated' = {}
  BY <1>5 DEF Allocated
<1>7. Typed'
  <2>1. env' \in BOOLEAN /\ curl' \in {"none", "up", "down"}
    BY <1>1
  <2>2. phase' \in {"options", "envs", "env", "scripts", "script", "cleanup", "exited"}
    BY <1>1
  <2> QED BY <1>1, <1>2, <1>5, <2>1, <2>2 DEF Typed
<1>8. Open'
  BY <1>1, <1>2 DEF Open, Loading
<1>9. Room' /\ Loops' /\ AtExit'
  BY <1>1, <1>6 DEF Room, Loops, Looping, AtExit
<1> QED BY <1>1, <1>2, <1>7, <1>8, <1>9 DEF IInv

\* Every step of main preserves the invariant.
LEMMA NextIInv == IInv /\ [Next]_vars => IInv'
<1> SUFFICES ASSUME IInv, [Next]_vars PROVE IInv'
  OBVIOUS
<1>1. CASE Exited \/ UNCHANGED vars
  <2>1. UNCHANGED <<phase, args, optind, options, node, links, inx, tmp, files, scanners, curl,
                    env, res, reports, failures>>
    BY <1>1 DEF Exited, vars, lists
  <2>2. Typed'
    BY <2>1 DEF IInv, Typed
  <2>3. Allocated' = Allocated
    BY <2>1 DEF Allocated
  <2>4. Room' /\ AtExit'
    BY <2>1, <2>3 DEF IInv, Room, AtExit
  <2>5. Loops' /\ Open'
    BY <2>1 DEF IInv, Loops, Looping, LoopHead, InEnvs, Open, Loading
  <2> QED BY <2>1, <2>2, <2>4, <2>5 DEF IInv
<1> QED BY <1>1, OptionsKeep, FilesKeep, OthersKeep, CleanupKeeps DEF Next

-----------------------------------------------------------------------------
(* The theorems                                                            *)

\* The lists hold the entries of their kind.
LEMMA SortedSets ==
  ASSUME IInv, phase # "exited"
  PROVE  /\ ToSet(Ring(links, EnvsHead)) = {n \in Allocated : node[n].is = "env"}
         /\ ToSet(Ring(links, ScriptsHead)) = {n \in Allocated : node[n].is = "script"}
<1>1. ASSUME NEW head \in Heads
      PROVE  ToSet(Ring(links, head)) = {n \in Allocated : node[n].is = Is(head)}
  <2> DEFINE s == Ring(links, head)
  <2>1. s \in Seq(Node) /\ Has(node, head, s)
    BY DEF IInv, Whole, Holds, Sorted
  <2> HIDE DEF s
  <2>2. DOMAIN s = 1..Len(s) /\ \A i \in 1..Len(s) : s[i] \in Node
    BY <2>1
  <2>3. \A n \in Node : node[n].is = Is(head) => n \in Allocated
    BY DEF Allocated, Free, Is
  <2>4. \A n : n \in ToSet(s) <=> n \in Node /\ node[n].is = Is(head)
    BY <2>1, <2>2 DEF Has, ToSet
  <2>5. ToSet(s) = {n \in Allocated : node[n].is = Is(head)}
    BY <2>3, <2>4 DEF Allocated
  <2> QED BY <2>5 DEF s
<1>2. /\ Is(EnvsHead) = "env" /\ Is(ScriptsHead) = "script"
      /\ EnvsHead \in Heads /\ ScriptsHead \in Heads
  BY HandlesFacts DEF Is, Heads
<1>3. ToSet(Ring(links, EnvsHead)) = {n \in Allocated : node[n].is = Is(EnvsHead)}
  BY <1>1, <1>2
<1>4. ToSet(Ring(links, ScriptsHead)) = {n \in Allocated : node[n].is = Is(ScriptsHead)}
  BY <1>1, <1>2
<1> QED BY <1>2, <1>3, <1>4

\* main.c:56: the loops read no entry that has been freed, and what main keeps has
\* its types, for command lines of any length.
THEOREM LoopsReadNothingFreed == Spec => []TypeOK
<1>1. IInv => TypeOK
  <2> SUFFICES ASSUME IInv PROVE TypeOK
    OBVIOUS
  <2>1. /\ Typed /\ Open /\ Loops /\ Whole(links)
    BY DEF IInv
  <2>2. \A n \in Node : node[n].is \in {"free", "env", "script"}
    BY <2>1 DEF Typed, Free
  <2>3. files \in 0..1
    BY <2>1 DEF Open
  <2>4. ASSUME Looping
        PROVE  LET head == IF InEnvs THEN EnvsHead ELSE ScriptsHead
               IN  /\ inx \in Allocated \cup {head} /\ inx = links.next[head]
                   /\ tmp \in Allocated \cup {head} /\ tmp = links.next[inx]
                   /\ phase \in {"env", "script"} => inx # head
    <3> DEFINE head == LoopHead
    <3>1. /\ head \in Heads /\ Holds(links, head, Ring(links, head))
          /\ Has(node, head, Ring(links, head))
      BY <2>4 DEF IInv, Whole, Sorted, LoopHead, Heads, Looping
    <3> DEFINE s == Ring(links, head)
    <3>2. inx = links.next[head] /\ tmp = links.next[inx]
          /\ (phase \in {"env", "script"} => inx # head)
      BY <2>1, <2>4 DEF Loops
    <3> HIDE DEF s, head
    <3>3. Holds(links, head, s) /\ Has(node, head, s) /\ head \in Heads
      BY <3>1 DEF s
    <3>4. s \in Seq(Node) /\ Len(s) \in Nat /\ \A i \in 1..Len(s) : s[i] \in Node
      BY <3>3, NodesAreHandles DEF Holds
    <3>5. \A i \in 1..Len(s) : s[i] \in Allocated
      <4> TAKE i \in 1..Len(s)
      <4>1. s[i] \in Node /\ node[s[i]].is = Is(head)
        BY <3>3, <3>4 DEF Has
      <4> QED BY <4>1 DEF Allocated, Free, Is
    <3>6. inx \in Allocated \cup {head} /\ tmp \in Allocated \cup {head}
      <4>1. CASE inx = head
        BY <3>2, <4>1
      <4>2. CASE inx # head
        <5>1. 1 \in 1..Len(s) /\ inx = s[1] /\ tmp = RingAt(head, s, 2)
          BY <3>2, <3>3, <4>2, FirstEntry
        <5>2. tmp \in Allocated \cup {head}
          BY <3>5, <5>1 DEF RingAt
        <5> QED BY <3>5, <5>1, <5>2
      <4> QED BY <4>1, <4>2
    <3> QED BY <3>2, <3>6 DEF head, LoopHead
  <2> QED BY <2>1, <2>2, <2>3, <2>4 DEF TypeOK, Typed
<1> QED BY InitIInv, NextIInv, <1>1, PTL DEF Spec

\* options.c:66, main.c:56: no entry is lost and none is in the wrong list, however
\* the loops over them are interrupted by files that fail.
THEOREM EntriesAreListed == Spec => []OptionsListed
<1>1. IInv => OptionsListed
  <2> SUFFICES ASSUME IInv PROVE OptionsListed
    OBVIOUS
  <2>1. IsList(links, EnvsHead, Ring(links, EnvsHead))
        /\ IsList(links, ScriptsHead, Ring(links, ScriptsHead))
    BY DEF IInv, Whole, Holds, Heads
  <2> QED BY <2>1, SortedSets DEF OptionsListed
<1> QED BY InitIInv, NextIInv, <1>1, PTL DEF Spec

\* main.c:119: on every way out what is promised to be given back has been.
THEOREM EverythingGivenBack == Spec => []NothingLeftAtExit
<1>1. IInv => NothingLeftAtExit
  BY DEF IInv, Open, Loading, AtExit, NothingLeftAtExit
<1> QED BY InitIInv, NextIInv, <1>1, PTL DEF Spec

-----------------------------------------------------------------------------
(* Effects, one after the other                                            *)

\* f[i] are the first i of the sequences e[1], e[2], ... in one.
Joins(f, e, n) == f = [i \in 0..n |-> IF i = 0 THEN <<>> ELSE f[i - 1] \o e[i]]

\* What a function that joins sequences is at each number.
LEMMA JoinsAt ==
  ASSUME NEW f, NEW e, NEW n \in Nat, Joins(f, e, n)
  PROVE  f[0] = <<>> /\ \A i \in 0..(n - 1) : f[i + 1] = f[i] \o e[i + 1]
<1>1. \A i \in 0..n : f[i] = IF i = 0 THEN <<>> ELSE f[i - 1] \o e[i]
  BY Zenon DEF Joins
<1>2. f[0] = <<>>
  <2>1. 0 \in 0..n
    OBVIOUS
  <2> QED BY <1>1, <2>1
<1>3. ASSUME NEW i \in 0..(n - 1) PROVE f[i + 1] = f[i] \o e[i + 1]
  <2> DEFINE j == i + 1
  <2>1. j \in 0..n /\ j # 0 /\ j - 1 = i
    OBVIOUS
  <2> HIDE DEF j
  <2>2. f[j] = f[j - 1] \o e[j]
    BY <1>1, <2>1
  <2> QED BY <2>1, <2>2 DEF j
<1> QED BY <1>2, <1>3

\* Sequences can be joined.
LEMMA JoinsExist ==
  ASSUME NEW e, NEW n \in Nat
  PROVE  \E f : Joins(f, e, n)
<1> DEFINE P == {k \in Nat : \E f : Joins(f, e, k)}
<1>1. 0 \in P
  <2> DEFINE f == [i \in 0..0 |-> <<>>]
  <2>1. \A i \in 0..0 : i = 0
    OBVIOUS
  <2>2. f = [i \in 0..0 |-> IF i = 0 THEN <<>> ELSE f[i - 1] \o e[i]]
    BY <2>1
  <2> QED BY <2>2 DEF Joins
<1>2. ASSUME NEW k \in Nat, k \in P PROVE k + 1 \in P
  <2>1. PICK f : Joins(f, e, k)
    BY <1>2
  <2> DEFINE g == [i \in 0..(k + 1) |-> IF i = k + 1 THEN f[k] \o e[k + 1] ELSE f[i]]
             h == [i \in 0..(k + 1) |-> IF i = 0 THEN <<>> ELSE g[i - 1] \o e[i]]
  <2>2. f[0] = <<>> /\ \A i \in 0..(k - 1) : f[i + 1] = f[i] \o e[i + 1]
    BY <2>1, JoinsAt
  <2>3. ASSUME NEW i \in 0..(k + 1) PROVE g[i] = h[i]
    <3>1. CASE i = 0
      BY <2>2, <3>1
    <3>2. CASE i # 0
      <4>1. i - 1 \in 0..k /\ i - 1 \in 0..(k + 1) /\ i - 1 + 1 = i /\ i - 1 # k + 1
        BY <3>2
      <4>2. g[i - 1] = f[i - 1]
        BY <4>1
      <4>3. h[i] = f[i - 1] \o e[i]
        BY <3>2, <4>2
      <4>4. CASE i = k + 1
        <5>1. i - 1 = k /\ k + 1 \in 0..(k + 1)
          BY <4>4
        <5>2. g[i] = f[k] \o e[k + 1]
          BY <4>4, <5>1
        <5> QED BY <4>3, <4>4, <5>1, <5>2
      <4>5. CASE i # k + 1
        <5>1. i - 1 \in 0..(k - 1) /\ g[i] = f[i]
          BY <3>2, <4>5
        <5> QED BY <2>2, <4>1, <4>3, <5>1
      <4> QED BY <4>4, <4>5
    <3> QED BY <3>1, <3>2
  <2>4. DOMAIN g = 0..(k + 1) /\ DOMAIN h = 0..(k + 1)
        /\ g = [i \in 0..(k + 1) |-> g[i]] /\ h = [i \in 0..(k + 1) |-> h[i]]
    OBVIOUS
  <2>5. g = h
    <3> HIDE DEF g, h
    <3> QED BY <2>3, <2>4
  <2>6. Joins(g, e, k + 1)
    <3> HIDE DEF g
    <3> QED BY <2>5 DEF Joins
  <2> QED BY <2>6
<1> HIDE DEF P
<1>3. Nat \subseteq P
  BY <1>1, <1>2, AllNumbers
<1> QED BY <1>3 DEF P

\* Sequences joined are a sequence; two functions that join the same are the same.
LEMMA JoinsTyped ==
  ASSUME NEW f, NEW e, NEW n \in Nat, Joins(f, e, n), NEW T, \A i \in 1..n : e[i] \in Seq(T)
  PROVE  \A i \in 0..n : f[i] \in Seq(T)
<1>1. f[0] = <<>> /\ \A i \in 0..(n - 1) : f[i + 1] = f[i] \o e[i + 1]
  BY JoinsAt
<1> DEFINE P == {i \in Nat : i <= n => f[i] \in Seq(T)}
<1>2. 0 \in P
  BY <1>1, EmptySeq
<1>3. ASSUME NEW i \in Nat, i \in P PROVE i + 1 \in P
  <2> SUFFICES ASSUME i + 1 <= n PROVE f[i + 1] \in Seq(T)
    OBVIOUS
  <2>1. i \in 0..(n - 1) /\ i + 1 \in 1..n /\ f[i] \in Seq(T)
    BY <1>3
  <2>2. e[i + 1] \in Seq(T) /\ f[i + 1] = f[i] \o e[i + 1]
    BY <1>1, <2>1
  <2> QED BY <2>1, <2>2, ConcatProperties
<1> HIDE DEF P
<1>4. Nat \subseteq P
  BY <1>2, <1>3, AllNumbers
<1> QED BY <1>4 DEF P

\* One sequence and then another.
Both(s, t) == s \o t
\* c is e and then d, all sequences over T, and f, g and h join e, d and c.
Joined(T, e, f, n, d, g, m, c, h, k) ==
  /\ n \in Nat /\ m \in Nat /\ k \in Nat /\ k = n + m
  /\ Joins(f, e, n) /\ Joins(g, d, m) /\ Joins(h, c, k)
  /\ \A i \in 1..n : e[i] \in Seq(T) /\ c[i] = e[i]
  /\ \A i \in 1..m : d[i] \in Seq(T) /\ c[n + i] = d[i]

\* What joins e and then d is what joins e and what joins d.
LEMMA JoinsBoth ==
  ASSUME NEW T, NEW e, NEW f, NEW n, NEW d, NEW g, NEW m, NEW c, NEW h, NEW k,
         Joined(T, e, f, n, d, g, m, c, h, k)
  PROVE  h[k] = Both(f[n], g[m])
<1>a. n \in Nat /\ m \in Nat /\ k \in Nat /\ k = n + m
  BY DEF Joined
<1>b. Joins(f, e, n) /\ Joins(g, d, m) /\ Joins(h, c, k)
  BY DEF Joined
<1>c. /\ \A i \in 1..n : e[i] \in Seq(T) /\ c[i] = e[i]
      /\ \A i \in 1..m : d[i] \in Seq(T) /\ c[n + i] = d[i]
  BY DEF Joined
<1>0. /\ n \in Nat /\ m \in Nat /\ k \in Nat
      /\ Joins(f, e, n) /\ Joins(g, d, m) /\ Joins(h, c, k)
      /\ \A i \in 1..n : e[i] \in Seq(T)
      /\ \A i \in 1..m : d[i] \in Seq(T)
  BY <1>a, <1>b, <1>c
<1>1. f[0] = <<>> /\ \A i \in 0..(n - 1) : f[i + 1] = f[i] \o e[i + 1]
  BY ONLY <1>0, JoinsAt
<1>2. g[0] = <<>> /\ \A i \in 0..(m - 1) : g[i + 1] = g[i] \o d[i + 1]
  BY ONLY <1>0, JoinsAt
<1>3. h[0] = <<>> /\ \A i \in 0..(k - 1) : h[i + 1] = h[i] \o c[i + 1]
  BY ONLY <1>0, JoinsAt
<1>4. n \in 0..n /\ \A i \in 0..n : f[i] \in Seq(T)
  <2>1. \A i \in 0..n : f[i] \in Seq(T)
    BY ONLY <1>0, JoinsTyped
  <2> QED BY <1>a, <2>1
<1>5. \A i \in 0..m : g[i] \in Seq(T)
  BY ONLY <1>0, JoinsTyped
<1> USE <1>a, <1>c
<1> DEFINE P == {i \in Nat : i <= n => h[i] = f[i]}
<1>6. Nat \subseteq P
  <2>1. 0 \in P
    BY <1>1, <1>3
  <2>2. ASSUME NEW i \in Nat, i \in P PROVE i + 1 \in P
    <3> SUFFICES ASSUME i + 1 <= n PROVE h[i + 1] = f[i + 1]
      OBVIOUS
    <3>1. i \in 0..(n - 1) /\ i \in 0..(k - 1) /\ i + 1 \in 1..n /\ h[i] = f[i]
      BY <2>2
    <3> QED BY <1>1, <1>3, <3>1
  <2> HIDE DEF P
  <2> QED BY <2>1, <2>2, AllNumbers
<1>7. h[n] = f[n]
  BY <1>6 DEF P
<1> HIDE DEF P
<1> DEFINE r == f[n]
           b == [i \in 0..m |-> h[n + i]]
<1>8. r \in Seq(T)
  BY <1>4
<1>9. b[0] = r /\ b[m] = h[k]
  BY <1>7
<1>10. \A i \in 0..(m - 1) : b[i + 1] = b[i] \o d[i + 1] /\ d[i + 1] \in Seq(T)
  <2> TAKE i \in 0..(m - 1)
  <2> DEFINE j == n + i
  <2>1. j \in 0..(k - 1) /\ i \in 0..m /\ i + 1 \in 0..m /\ i + 1 \in 1..m /\ j + 1 = n + (i + 1)
    OBVIOUS
  <2>2. b[i] = h[j] /\ b[i + 1] = h[j + 1] /\ c[j + 1] = d[i + 1] /\ d[i + 1] \in Seq(T)
    BY <2>1
  <2> HIDE DEF j, b
  <2>3. h[j + 1] = h[j] \o c[j + 1]
    BY <1>3, <2>1
  <2> QED BY <2>2, <2>3
<1> HIDE DEF r, b
<1> DEFINE Q == {i \in Nat : i <= m => b[i] = r \o g[i]}
<1>11. Nat \subseteq Q
  <2>1. 0 \in Q
    <3>1. r \o <<>> = r
      BY <1>8, ConcatEmptySeq
    <3> QED BY <1>2, <1>9, <3>1
  <2>2. ASSUME NEW i \in Nat, i \in Q PROVE i + 1 \in Q
    <3> SUFFICES ASSUME i + 1 <= m PROVE b[i + 1] = r \o g[i + 1]
      OBVIOUS
    <3>1. i \in 0..(m - 1) /\ i \in 0..m /\ i + 1 \in 1..m /\ b[i] = r \o g[i]
      BY <2>2
    <3> DEFINE s == g[i]
               u == d[i + 1]
    <3>2. s \in Seq(T) /\ u \in Seq(T)
      BY <1>5, <1>10, <3>1
    <3>3. b[i + 1] = (r \o s) \o u /\ g[i + 1] = s \o u
      BY <1>2, <1>10, <3>1
    <3> HIDE DEF s, u
    <3>4. (r \o s) \o u = r \o (s \o u)
      BY ONLY <1>8, <3>2, ConcatAssociative
    <3> QED BY <3>3, <3>4
  <2> HIDE DEF Q
  <2> QED BY <2>1, <2>2, AllNumbers
<1> HIDE DEF Q
<1>12. m \in Q
  BY <1>11
<1>13. b[m] = r \o g[m]
  BY <1>12 DEF Q
<1> QED BY <1>9, <1>13 DEF r, Both

\* What F joins, given by what E is for each element of a sequence.
JoinsOf(F, E, A) ==
  \A s \in Seq(A) :
    \E f : Joins(f, [i \in 1..Len(s) |-> E[s[i]]], Len(s)) /\ F[s] = f[Len(s)]

\* Joining is the same for the parts of a sequence as for the whole.
ByParts(F, E, A, T) ==
  /\ F[<<>>] = <<>>
  /\ \A a \in A : F[<<a>>] = E[a]
  /\ \A s \in Seq(A) : F[s] \in Seq(T)
  /\ \A s, t \in Seq(A) : F[s \o t] = F[s] \o F[t]

\* What joins sequences does so by parts.
LEMMA JoinsParts ==
  ASSUME NEW A, NEW T, NEW E, E \in [A -> Seq(T)], NEW F, JoinsOf(F, E, A)
  PROVE  ByParts(F, E, A, T)
<1>1. ASSUME NEW s \in Seq(A)
      PROVE  \E f : /\ Joins(f, [i \in 1..Len(s) |-> E[s[i]]], Len(s)) /\ F[s] = f[Len(s)]
  BY <1>1 DEF JoinsOf
<1>2. ASSUME NEW s \in Seq(A)
      PROVE  /\ Len(s) \in Nat
             /\ \A i \in 1..Len(s) :
                  /\ s[i] \in A
                  /\ [j \in 1..Len(s) |-> E[s[j]]][i] = E[s[i]]
                  /\ [j \in 1..Len(s) |-> E[s[j]]][i] \in Seq(T)
  <2>1. Len(s) \in Nat /\ \A i \in 1..Len(s) : s[i] \in A
    OBVIOUS
  <2> QED BY <2>1
<1>3. F[<<>>] = <<>>
  <2>1. <<>> \in Seq(A) /\ Len(<<>>) = 0 /\ 0 \in Nat
    OBVIOUS
  <2>2. PICK f : Joins(f, [i \in 1..Len(<<>>) |-> E[<<>>[i]]], Len(<<>>)) /\ F[<<>>] = f[Len(<<>>)]
    BY <1>1, <2>1
  <2> DEFINE e == [i \in 1..Len(<<>>) |-> E[<<>>[i]]]
  <2>3. Joins(f, e, 0) /\ F[<<>>] = f[0]
    BY <2>1, <2>2
  <2> HIDE DEF e
  <2>4. f[0] = <<>>
    BY ONLY <2>1, <2>3, JoinsAt
  <2> QED BY <2>3, <2>4
<1>4. ASSUME NEW a \in A PROVE F[<<a>>] = E[a]
  <2> DEFINE s == <<a>>
  <2>1. s \in Seq(A) /\ Len(s) = 1 /\ s[1] = a
    OBVIOUS
  <2> DEFINE e == [i \in 1..Len(s) |-> E[s[i]]]
  <2>2. e[1] = E[a] /\ E[a] \in Seq(T)
    BY <2>1
  <2>3. PICK f : Joins(f, e, Len(s)) /\ F[s] = f[Len(s)]
    BY <1>1, <2>1
  <2>4. Joins(f, e, 1) /\ F[s] = f[1] /\ 1 \in Nat
    BY <2>1, <2>3
  <2> HIDE DEF e, s
  <2>5. f[0] = <<>> /\ \A i \in 0..(1 - 1) : f[i + 1] = f[i] \o e[i + 1]
    BY ONLY <2>4, JoinsAt
  <2>6. f[1] = <<>> \o e[1]
    <3>1. 0 \in 0..(1 - 1) /\ 0 + 1 = 1
      OBVIOUS
    <3>2. f[0 + 1] = f[0] \o e[0 + 1]
      BY <2>5, <3>1
    <3> QED BY <2>5, <3>1, <3>2
  <2>7. <<>> \o e[1] = e[1]
    BY <2>2, ConcatEmptySeq
  <2> QED BY <2>2, <2>4, <2>6, <2>7 DEF s
<1>5. ASSUME NEW s \in Seq(A) PROVE F[s] \in Seq(T)
  <2> DEFINE n == Len(s)
             e == [i \in 1..n |-> E[s[i]]]
  <2>1. PICK f : Joins(f, e, n) /\ F[s] = f[n]
    BY <1>1
  <2>2. n \in Nat /\ \A i \in 1..n : e[i] \in Seq(T)
    BY <1>2
  <2> HIDE DEF n, e
  <2>3. \A i \in 0..n : f[i] \in Seq(T)
    BY ONLY <2>1, <2>2, JoinsTyped
  <2>4. n \in 0..n
    BY <2>2
  <2> QED BY <2>1, <2>3, <2>4
<1>6. ASSUME NEW s \in Seq(A), NEW t \in Seq(A) PROVE F[s \o t] = F[s] \o F[t]
  <2> DEFINE w == s \o t
             n == Len(s)
             m == Len(t)
             k == Len(w)
             e == [i \in 1..n |-> E[s[i]]]
             d == [i \in 1..m |-> E[t[i]]]
             c == [i \in 1..k |-> E[w[i]]]
  <2>1. /\ w \in Seq(A) /\ n \in Nat /\ m \in Nat /\ k \in Nat /\ k = n + m
        /\ \A i \in 1..n : w[i] = s[i] /\ i \in 1..k
        /\ \A i \in 1..m : w[n + i] = t[i] /\ n + i \in 1..k
    OBVIOUS
  <2>2. PICK f : Joins(f, e, n) /\ F[s] = f[n]
    BY <1>1
  <2>3. PICK g : Joins(g, d, m) /\ F[t] = g[m]
    BY <1>1
  <2> HIDE DEF w
  <2>4. PICK h : Joins(h, c, k) /\ F[w] = h[k]
    BY <1>1, <2>1
  <2> HIDE DEF n, m, k
  <2>5. \A i \in 1..n : e[i] \in Seq(T) /\ c[i] = e[i]
    <3> TAKE i \in 1..n
    <3>1. s[i] \in A
      BY DEF n
    <3> QED BY <2>1, <3>1
  <2>6. \A i \in 1..m : d[i] \in Seq(T) /\ c[n + i] = d[i]
    <3> TAKE i \in 1..m
    <3>1. t[i] \in A
      BY DEF m
    <3>2. c[n + i] = E[w[n + i]]
      BY <2>1
    <3> QED BY <2>1, <3>1, <3>2
  <2> HIDE DEF e, d, c
  <2>7. h[k] = f[n] \o g[m]
    <3>1. Joined(T, e, f, n, d, g, m, c, h, k)
      BY <2>1, <2>2, <2>3, <2>4, <2>5, <2>6 DEF Joined
    <3>2. h[k] = Both(f[n], g[m])
      BY ONLY <3>1, JoinsBoth
    <3> QED BY <3>2 DEF Both
  <2> QED BY <2>2, <2>3, <2>4, <2>7 DEF w
<1> QED BY <1>3, <1>4, <1>5, <1>6 DEF ByParts

-----------------------------------------------------------------------------
(* What arguments ask for                                                  *)

\* All arguments, the assignments and errors in all files, and all that may come of them.
Arguments == UNION {ToSet(a) : a \in CommandLines}
Lines == UNION {ToSet(EnvFiles[arg.str]) : arg \in {a \in Arguments : a.is = "env"}}
Values == {Default[field] : field \in DOMAIN Default} \cup {arg.value : arg \in Arguments}
Settable == [DOMAIN Default -> Values]
AllEffects ==
  Lines \cup {Run(arg, settings) : arg \in Arguments, settings \in Settable} \cup {[is |-> "dump"]}
Inputs == Lines \cup {[is |-> "error"]}

\* An option names a sequence of lines.
LEMMA FileLines ==
  ASSUME NEW arg \in Arguments, arg.is = "env"
  PROVE  EnvFiles[arg.str] \in Seq(Lines)
<1> DEFINE s == EnvFiles[arg.str]
<1>1. PICK line \in CommandLines : arg \in ToSet(line)
  BY DEF Arguments
<1>2. s \in Seq(ToSet(s))
  BY <1>1, ArgumentsAssumption
<1>3. ToSet(s) \subseteq Lines
  BY DEF Lines
<1> HIDE DEF s
<1>4. s \in Seq(Lines)
  BY <1>2, <1>3, SeqMonotonic
<1> QED BY <1>4 DEF s

\* A command line is a sequence of arguments.
LEMMA LineArguments ==
  ASSUME NEW line \in CommandLines
  PROVE  line \in Seq(Arguments)
<1>1. line \in Seq(ToSet(line))
  BY ArgumentsAssumption
<1>2. ToSet(line) \subseteq Arguments
  BY DEF Arguments
<1> QED BY <1>1, <1>2, SeqMonotonic

\* Assignments are those of the parts of an input.
LEMMA AssignmentsParts ==
  /\ Assignments(<<>>) = <<>>
  /\ \A a \in Inputs : Assignments(<<a>>) = Assignment(a)
  /\ \A s \in Seq(Inputs) : Assignments(s) \in Seq(AllEffects)
  /\ \A s, t \in Seq(Inputs) : Assignments(s \o t) = Assignments(s) \o Assignments(t)
<1> DEFINE E == [a \in Inputs |-> Assignment(a)]
           F == [s \in Seq(Inputs) |-> Assignments(s)]
<1>1. E \in [Inputs -> Seq(AllEffects)]
  <2> SUFFICES ASSUME NEW a \in Inputs PROVE Assignment(a) \in Seq(AllEffects)
    OBVIOUS
  <2>1. CASE a.is = "assign"
    <3>1. a \in AllEffects
      BY <2>1 DEF Inputs, AllEffects
    <3> QED BY <2>1, <3>1 DEF Assignment
  <2>2. CASE a.is # "assign"
    BY <2>2 DEF Assignment
  <2> QED BY <2>1, <2>2
<1>2. JoinsOf(F, E, Inputs)
  <2> SUFFICES ASSUME NEW s \in Seq(Inputs)
               PROVE  \E f : /\ Joins(f, [i \in 1..Len(s) |-> E[s[i]]], Len(s))
                             /\ F[s] = f[Len(s)]
    BY DEF JoinsOf
  <2> DEFINE n == Len(s)
             e == [i \in 1..n |-> E[s[i]]]
             Upto(g) == g = [i \in 0..n |-> IF i = 0 THEN <<>> ELSE g[i - 1] \o Assignment(s[i])]
             f == CHOOSE g : Upto(g)
  <2>1. n \in Nat /\ \A i \in 1..n : s[i] \in Inputs
    OBVIOUS
  <2>2. \A i \in 1..n : e[i] = Assignment(s[i])
    BY <2>1
  <2>3. ASSUME NEW g PROVE Joins(g, e, n) <=> Upto(g)
    <3>1. \A i \in 0..n : i # 0 => i \in 1..n
      BY <2>1
    <3> HIDE DEF e
    <3> DEFINE x == [i \in 0..n |-> IF i = 0 THEN <<>> ELSE g[i - 1] \o e[i]]
               y == [i \in 0..n |-> IF i = 0 THEN <<>> ELSE g[i - 1] \o Assignment(s[i])]
    <3>2. x = y
      BY <2>2, <3>1
    <3> HIDE DEF x, y
    <3>3. g = x <=> g = y
      BY <3>2
    <3> QED BY <3>3 DEF x, y, Joins
  <2>4. \E g : Joins(g, e, n)
    <3> HIDE DEF n, e
    <3> QED BY <2>1, JoinsExist
  <2>5. Upto(f)
    <3> HIDE DEF Upto, e
    <3>1. \E g : Upto(g)
      BY <2>3, <2>4
    <3> QED BY <3>1
  <2>6. Joins(f, e, n)
    <3> HIDE DEF f, Upto, e
    <3> QED BY <2>3, <2>5
  <2>7. F[s] = f[n]
    BY DEF Assignments
  <2> HIDE DEF f, F, E
  <2> QED BY <2>6, <2>7
<1> HIDE DEF E, F
<1>3. ByParts(F, E, Inputs, AllEffects)
  BY ONLY <1>1, <1>2, JoinsParts
<1>4. /\ F[<<>>] = <<>>
      /\ \A a \in Inputs : F[<<a>>] = E[a]
      /\ \A s \in Seq(Inputs) : F[s] \in Seq(AllEffects)
      /\ \A s, t \in Seq(Inputs) : F[s \o t] = F[s] \o F[t]
  BY <1>3 DEF ByParts
<1>5. \A s \in Seq(Inputs) : F[s] = Assignments(s)
  BY DEF F
<1>6. \A a \in Inputs : E[a] = Assignment(a)
  BY DEF E
<1>7. <<>> \in Seq(Inputs) /\ \A a \in Inputs : <<a>> \in Seq(Inputs)
  OBVIOUS
<1>8. \A s, t \in Seq(Inputs) : s \o t \in Seq(Inputs)
  OBVIOUS
<1>9. \A s, t \in Seq(Inputs) : Assignments(s \o t) = Assignments(s) \o Assignments(t)
  <2> TAKE s, t \in Seq(Inputs)
  <2>1. F[s \o t] = F[s] \o F[t] /\ F[s] = Assignments(s) /\ F[t] = Assignments(t)
    BY <1>4, <1>5
  <2>2. F[s \o t] = Assignments(s \o t)
    BY <1>5, <1>8
  <2> QED BY <2>1, <2>2
<1> QED BY <1>4, <1>5, <1>6, <1>7, <1>9

\* The environment files are those of the parts of a command line.
LEMMA EnvEffectsParts ==
  /\ EnvEffects(<<>>) = <<>>
  /\ \A a \in Arguments : EnvEffects(<<a>>) = EnvEffect(a)
  /\ \A s \in Seq(Arguments) : EnvEffects(s) \in Seq(AllEffects)
  /\ \A s, t \in Seq(Arguments) : EnvEffects(s \o t) = EnvEffects(s) \o EnvEffects(t)
<1> DEFINE E == [a \in Arguments |-> EnvEffect(a)]
           F == [s \in Seq(Arguments) |-> EnvEffects(s)]
<1>1. E \in [Arguments -> Seq(AllEffects)]
  <2> SUFFICES ASSUME NEW a \in Arguments PROVE EnvEffect(a) \in Seq(AllEffects)
    OBVIOUS
  <2>1. CASE a.is = "env"
    <3> DEFINE s == EnvFiles[a.str]
    <3>1. s \in Seq(Lines)
      BY <2>1, FileLines
    <3> HIDE DEF s
    <3>2. s \in Seq(Inputs)
      BY <3>1, SeqMonotonic DEF Inputs
    <3>3. Assignments(s) \in Seq(AllEffects)
      BY <3>2, AssignmentsParts
    <3> QED BY <2>1, <3>3 DEF EnvEffect, s
  <2>2. CASE a.is # "env"
    BY <2>2 DEF EnvEffect
  <2> QED BY <2>1, <2>2
<1>2. JoinsOf(F, E, Arguments)
  <2> SUFFICES ASSUME NEW s \in Seq(Arguments)
               PROVE  \E f : /\ Joins(f, [i \in 1..Len(s) |-> E[s[i]]], Len(s))
                             /\ F[s] = f[Len(s)]
    BY DEF JoinsOf
  <2> DEFINE n == Len(s)
             e == [i \in 1..n |-> E[s[i]]]
             Upto(g) == g = [i \in 0..n |-> IF i = 0 THEN <<>> ELSE g[i - 1] \o EnvEffect(s[i])]
             f == CHOOSE g : Upto(g)
  <2>1. n \in Nat /\ \A i \in 1..n : s[i] \in Arguments
    OBVIOUS
  <2>2. \A i \in 1..n : e[i] = EnvEffect(s[i])
    BY <2>1
  <2>3. ASSUME NEW g PROVE Joins(g, e, n) <=> Upto(g)
    <3>1. \A i \in 0..n : i # 0 => i \in 1..n
      BY <2>1
    <3> HIDE DEF e
    <3> DEFINE x == [i \in 0..n |-> IF i = 0 THEN <<>> ELSE g[i - 1] \o e[i]]
               y == [i \in 0..n |-> IF i = 0 THEN <<>> ELSE g[i - 1] \o EnvEffect(s[i])]
    <3>2. x = y
      BY <2>2, <3>1
    <3> HIDE DEF x, y
    <3>3. g = x <=> g = y
      BY <3>2
    <3> QED BY <3>3 DEF x, y, Joins
  <2>4. \E g : Joins(g, e, n)
    <3> HIDE DEF n, e
    <3> QED BY <2>1, JoinsExist
  <2>5. Upto(f)
    <3> HIDE DEF Upto, e
    <3>1. \E g : Upto(g)
      BY <2>3, <2>4
    <3> QED BY <3>1
  <2>6. Joins(f, e, n)
    <3> HIDE DEF f, Upto, e
    <3> QED BY <2>3, <2>5
  <2>7. F[s] = f[n]
    BY DEF EnvEffects
  <2> HIDE DEF f, F, E
  <2> QED BY <2>6, <2>7
<1> HIDE DEF E, F
<1>3. ByParts(F, E, Arguments, AllEffects)
  BY ONLY <1>1, <1>2, JoinsParts
<1>4. /\ F[<<>>] = <<>>
      /\ \A a \in Arguments : F[<<a>>] = E[a]
      /\ \A s \in Seq(Arguments) : F[s] \in Seq(AllEffects)
      /\ \A s, t \in Seq(Arguments) : F[s \o t] = F[s] \o F[t]
  BY <1>3 DEF ByParts
<1>5. \A s \in Seq(Arguments) : F[s] = EnvEffects(s)
  BY DEF F
<1>6. \A a \in Arguments : E[a] = EnvEffect(a)
  BY DEF E
<1>7. <<>> \in Seq(Arguments) /\ \A a \in Arguments : <<a>> \in Seq(Arguments)
  OBVIOUS
<1>8. \A s, t \in Seq(Arguments) : s \o t \in Seq(Arguments)
  OBVIOUS
<1>9. \A s, t \in Seq(Arguments) : EnvEffects(s \o t) = EnvEffects(s) \o EnvEffects(t)
  <2> TAKE s, t \in Seq(Arguments)
  <2>1. F[s \o t] = F[s] \o F[t] /\ F[s] = EnvEffects(s) /\ F[t] = EnvEffects(t)
    BY <1>4, <1>5
  <2>2. F[s \o t] = EnvEffects(s \o t)
    BY <1>5, <1>8
  <2> QED BY <2>1, <2>2
<1> QED BY <1>4, <1>5, <1>6, <1>7, <1>9

\* The scripts are those of the parts of a command line.
LEMMA RunEffectsParts ==
  ASSUME NEW settings \in Settable
  PROVE  /\ RunEffects(<<>>, settings) = <<>>
         /\ \A a \in Arguments : RunEffects(<<a>>, settings) = RunEffect(a, settings)
         /\ \A s \in Seq(Arguments) : RunEffects(s, settings) \in Seq(AllEffects)
         /\ \A s, t \in Seq(Arguments) :
              RunEffects(s \o t, settings) = RunEffects(s, settings) \o RunEffects(t, settings)
<1> DEFINE E == [a \in Arguments |-> RunEffect(a, settings)]
           F == [s \in Seq(Arguments) |-> RunEffects(s, settings)]
<1>1. E \in [Arguments -> Seq(AllEffects)]
  <2> SUFFICES ASSUME NEW a \in Arguments PROVE RunEffect(a, settings) \in Seq(AllEffects)
    OBVIOUS
  <2>1. Run(a, settings) \in AllEffects
    BY DEF AllEffects
  <2>2. <<Run(a, settings)>> \in Seq(AllEffects) /\ <<>> \in Seq(AllEffects)
    BY <2>1
  <2> QED BY <2>2 DEF RunEffect
<1>2. JoinsOf(F, E, Arguments)
  <2> SUFFICES ASSUME NEW s \in Seq(Arguments)
               PROVE  \E f : /\ Joins(f, [i \in 1..Len(s) |-> E[s[i]]], Len(s))
                             /\ F[s] = f[Len(s)]
    BY DEF JoinsOf
  <2> DEFINE n == Len(s)
             e == [i \in 1..n |-> E[s[i]]]
             Upto(g) == g = [i \in 0..n |-> IF i = 0 THEN <<>>
                                            ELSE g[i - 1] \o RunEffect(s[i], settings)]
             f == CHOOSE g : Upto(g)
  <2>1. n \in Nat /\ \A i \in 1..n : s[i] \in Arguments
    OBVIOUS
  <2>2. \A i \in 1..n : e[i] = RunEffect(s[i], settings)
    BY <2>1
  <2>3. ASSUME NEW g PROVE Joins(g, e, n) <=> Upto(g)
    <3>1. \A i \in 0..n : i # 0 => i \in 1..n
      BY <2>1
    <3> HIDE DEF e
    <3> DEFINE x == [i \in 0..n |-> IF i = 0 THEN <<>> ELSE g[i - 1] \o e[i]]
               y == [i \in 0..n |-> IF i = 0 THEN <<>> ELSE g[i - 1] \o RunEffect(s[i], settings)]
    <3>2. x = y
      BY <2>2, <3>1
    <3> HIDE DEF x, y
    <3>3. g = x <=> g = y
      BY <3>2
    <3> QED BY <3>3 DEF x, y, Joins
  <2>4. \E g : Joins(g, e, n)
    <3> HIDE DEF n, e
    <3> QED BY <2>1, JoinsExist
  <2>5. Upto(f)
    <3> HIDE DEF Upto, e
    <3>1. \E g : Upto(g)
      BY <2>3, <2>4
    <3> QED BY <3>1
  <2>6. Joins(f, e, n)
    <3> HIDE DEF f, Upto, e
    <3> QED BY <2>3, <2>5
  <2>7. F[s] = f[n]
    BY DEF RunEffects
  <2> HIDE DEF f, F, E
  <2> QED BY <2>6, <2>7
<1> HIDE DEF E, F
<1>3. ByParts(F, E, Arguments, AllEffects)
  BY ONLY <1>1, <1>2, JoinsParts
<1>4. /\ F[<<>>] = <<>>
      /\ \A a \in Arguments : F[<<a>>] = E[a]
      /\ \A s \in Seq(Arguments) : F[s] \in Seq(AllEffects)
      /\ \A s, t \in Seq(Arguments) : F[s \o t] = F[s] \o F[t]
  BY <1>3 DEF ByParts
<1>5. \A s \in Seq(Arguments) : F[s] = RunEffects(s, settings)
  BY DEF F
<1>6. \A a \in Arguments : E[a] = RunEffect(a, settings)
  BY DEF E
<1>7. <<>> \in Seq(Arguments) /\ \A a \in Arguments : <<a>> \in Seq(Arguments)
  OBVIOUS
<1>8. \A s, t \in Seq(Arguments) : s \o t \in Seq(Arguments)
  OBVIOUS
<1>9. \A s, t \in Seq(Arguments) :
        RunEffects(s \o t, settings) = RunEffects(s, settings) \o RunEffects(t, settings)
  <2> TAKE s, t \in Seq(Arguments)
  <2>1. F[s \o t] = F[s] \o F[t] /\ F[s] = RunEffects(s, settings) /\ F[t] = RunEffects(t, settings)
    BY <1>4, <1>5
  <2>2. F[s \o t] = RunEffects(s \o t, settings)
    BY <1>5, <1>8
  <2> QED BY <2>1, <2>2
<1> QED BY <1>4, <1>5, <1>6, <1>7, <1>9

-----------------------------------------------------------------------------
(* Settings                                                                *)

\* Numbers up to n have a greatest one.
LEMMA Greatest ==
  ASSUME NEW n \in Nat, NEW S \in SUBSET (1..n), S # {}
  PROVE  Max(S) \in S /\ \A y \in S : Max(S) >= y
<1> DEFINE P == {k \in Nat : \A R \in SUBSET (1..k) : R # {} => \E x \in R : \A y \in R : x >= y}
<1>1. 0 \in P
  <2>1. 1..0 = {}
    OBVIOUS
  <2> QED BY <2>1
<1>2. ASSUME NEW k \in Nat, k \in P PROVE k + 1 \in P
  <2> SUFFICES ASSUME NEW R \in SUBSET (1..(k + 1)), R # {}
               PROVE  \E x \in R : \A y \in R : x >= y
    OBVIOUS
  <2>1. CASE k + 1 \in R
    BY <2>1
  <2>2. CASE k + 1 \notin R
    <3>1. R \in SUBSET (1..k)
      BY <2>2
    <3> QED BY <1>2, <3>1
  <2> QED BY <2>1, <2>2
<1> HIDE DEF P
<1>3. n \in P
  BY <1>1, <1>2, AllNumbers
<1>4. \E x \in S : \A y \in S : x >= y
  BY <1>3 DEF P
<1> QED BY <1>4, Zenon DEF Max

\* There is only one greatest number.
LEMMA GreatestIs ==
  ASSUME NEW S \in SUBSET Nat, NEW x \in S, \A y \in S : x >= y
  PROVE  Max(S) = x
<1> DEFINE z == Max(S)
<1>1. z \in S /\ \A y \in S : z >= y
  BY Zenon DEF Max
<1> HIDE DEF z
<1>2. z >= x /\ x >= z /\ z \in Nat /\ x \in Nat
  BY <1>1
<1>3. z = x
  BY <1>2
<1> QED BY <1>3 DEF z

\* The arguments that are options for a setting.
Setters(s, field) == {i \in 1..Len(s) : s[i].is = "set" /\ s[i].field = field}

\* What the settings are.
LEMMA SettingsAre ==
  ASSUME NEW start \in Settable, NEW s \in Seq(Arguments)
  PROVE  /\ Settings(start, s) =
              [field \in DOMAIN Default |->
                IF Setters(s, field) = {} THEN start[field] ELSE s[Max(Setters(s, field))].value]
         /\ Settings(start, s) \in Settable
<1>1. DOMAIN start = DOMAIN Default
  BY DEF Settable
<1>2. Settings(start, s) =
        [field \in DOMAIN Default |->
          IF Setters(s, field) = {} THEN start[field] ELSE s[Max(Setters(s, field))].value]
  BY <1>1, Zenon DEF Settings, Setters
<1>3. ASSUME NEW field \in DOMAIN Default
      PROVE  (IF Setters(s, field) = {} THEN start[field] ELSE s[Max(Setters(s, field))].value)
               \in Values
  <2>1. CASE Setters(s, field) = {}
    BY <2>1 DEF Settable
  <2>2. CASE Setters(s, field) # {}
    <3> DEFINE R == Setters(s, field)
    <3>1. Len(s) \in Nat /\ R \in SUBSET (1..Len(s)) /\ R # {}
      BY <2>2 DEF Setters
    <3> HIDE DEF R
    <3>2. Max(R) \in 1..Len(s)
      BY <3>1, Greatest
    <3>3. s[Max(R)] \in Arguments
      BY <3>2
    <3>4. s[Max(R)].value \in Values
      BY <3>3 DEF Values
    <3> QED BY <2>2, <3>4 DEF R
  <2> QED BY <2>1, <2>2
<1> QED BY <1>2, <1>3 DEF Settable

\* The first argument sets a setting that later ones may set again.
LEMMA SettingsFirst ==
  ASSUME NEW start \in Settable, NEW a \in Arguments, NEW s \in Seq(Arguments), NEW t,
         t = <<a>> \o s
  PROVE  /\ a.is # "set" => Settings(start, t) = Settings(start, s)
         /\ a.is = "set" =>
              LET next == [start EXCEPT ![a.field] = a.value]
              IN  next \in Settable /\ Settings(start, t) = Settings(next, s)
<1> DEFINE next == [start EXCEPT ![a.field] = a.value]
           Sets(field) == a.is = "set" /\ a.field = field
<1>1. /\ t \in Seq(Arguments) /\ Len(s) \in Nat /\ Len(t) = Len(s) + 1 /\ t[1] = a
      /\ \A i \in 1..Len(s) : t[i + 1] = s[i]
  OBVIOUS
<1>2. next \in Settable
  <2>1. a.value \in Values
    BY DEF Values
  <2> QED BY <2>1 DEF Settable
<1>3. \A field \in DOMAIN Default : next[field] = IF a.field = field THEN a.value ELSE start[field]
  BY DEF Settable
<1> HIDE DEF next
<1>4. ASSUME NEW field
      PROVE  \A i : i \in Setters(t, field) <=>
                      (i = 1 /\ Sets(field)) \/ (i - 1 \in Setters(s, field) /\ i \in Int)
  <2> TAKE i
  <2>1. CASE i \in 1..Len(t) /\ i # 1
    <3>1. i - 1 \in 1..Len(s) /\ i - 1 + 1 = i
      BY <1>1, <2>1
    <3>2. t[i] = s[i - 1]
      BY <1>1, <3>1
    <3> QED BY <2>1, <3>1, <3>2 DEF Setters
  <2>2. CASE i = 1
    <3>1. 1 \in 1..Len(t) /\ 1 - 1 \notin 1..Len(s)
      BY <1>1
    <3> QED BY <1>1, <2>2, <3>1 DEF Setters
  <2>3. CASE i \notin 1..Len(t) /\ i # 1
    <3>1. ~(i - 1 \in 1..Len(s) /\ i \in Int)
      BY <1>1, <2>3
    <3> QED BY <2>3, <3>1 DEF Setters
  <2> QED BY <2>1, <2>2, <2>3
<1>5. ASSUME NEW field, Setters(s, field) # {}
      PROVE  /\ Setters(t, field) # {} /\ Max(Setters(s, field)) \in 1..Len(s)
             /\ Max(Setters(t, field)) = Max(Setters(s, field)) + 1
  <2> DEFINE R == Setters(s, field)
             m == Max(R)
             U == Setters(t, field)
  <2>1. R \in SUBSET (1..Len(s)) /\ R # {} /\ Len(s) \in Nat
    BY <1>1, <1>5 DEF Setters
  <2>2. \A i : i \in U <=> (i = 1 /\ Sets(field)) \/ (i - 1 \in R /\ i \in Int)
    BY <1>4
  <2> HIDE DEF R, U
  <2>3. m \in R /\ \A y \in R : m >= y
    BY <2>1, Greatest
  <2> HIDE DEF m
  <2>4. m \in 1..Len(s) /\ m + 1 \in Int /\ m + 1 - 1 = m
    BY <2>1, <2>3
  <2>5. m + 1 \in U
    BY <2>2, <2>3, <2>4
  <2>6. \A y \in U : m + 1 >= y /\ y \in Nat
    BY <2>1, <2>2, <2>3, <2>4
  <2>7. Max(U) = m + 1
    BY <2>5, <2>6, GreatestIs
  <2> QED BY <2>4, <2>5, <2>7 DEF R, m, U
<1>6. ASSUME NEW field, Setters(s, field) = {}
      PROVE  Setters(t, field) = IF Sets(field) THEN {1} ELSE {}
  BY <1>4, <1>6
<1>7. Max({1}) = 1
  BY GreatestIs
<1>8. ASSUME NEW field \in DOMAIN Default
      PROVE  (IF Setters(t, field) = {} THEN start[field] ELSE t[Max(Setters(t, field))].value)
             = IF Setters(s, field) = {} THEN (IF Sets(field) THEN a.value ELSE start[field])
               ELSE s[Max(Setters(s, field))].value
  <2>1. CASE Setters(s, field) = {}
    BY <1>1, <1>6, <1>7, <2>1
  <2>2. CASE Setters(s, field) # {}
    <3>1. t[Max(Setters(s, field)) + 1] = s[Max(Setters(s, field))]
      BY <1>1, <1>5, <2>2
    <3> QED BY <1>5, <2>2, <3>1
  <2> QED BY <2>1, <2>2
<1>9. Settings(start, t) =
        [field \in DOMAIN Default |->
          IF Setters(t, field) = {} THEN start[field] ELSE t[Max(Setters(t, field))].value]
  BY <1>1, SettingsAre
<1>10. ASSUME a.is # "set" PROVE Settings(start, t) = Settings(start, s)
  <2>1. Settings(start, s) =
          [field \in DOMAIN Default |->
            IF Setters(s, field) = {} THEN start[field] ELSE s[Max(Setters(s, field))].value]
    BY SettingsAre
  <2> QED BY <1>8, <1>9, <1>10, <2>1
<1>11. ASSUME a.is = "set" PROVE Settings(start, t) = Settings(next, s)
  <2>1. Settings(next, s) =
          [field \in DOMAIN Default |->
            IF Setters(s, field) = {} THEN next[field] ELSE s[Max(Setters(s, field))].value]
    BY <1>2, SettingsAre
  <2>2. ASSUME NEW field \in DOMAIN Default
        PROVE  (IF Setters(t, field) = {} THEN start[field] ELSE t[Max(Setters(t, field))].value)
               = IF Setters(s, field) = {} THEN next[field] ELSE s[Max(Setters(s, field))].value
    BY <1>3, <1>8, <1>11
  <2> QED BY <1>9, <2>1, <2>2
<1> QED BY <1>2, <1>10, <1>11 DEF next

\* Without options for settings they are as they were.
LEMMA SettingsOfNone ==
  ASSUME NEW start \in Settable
  PROVE  Settings(start, <<>>) = start
<1>1. <<>> \in Seq(Arguments) /\ \A field : Setters(<<>>, field) = {}
  BY DEF Setters
<1>2. start = [field \in DOMAIN Default |-> start[field]]
  BY DEF Settable
<1>3. Settings(start, <<>>) =
        [field \in DOMAIN Default |->
          IF Setters(<<>>, field) = {} THEN start[field]
          ELSE <<>>[Max(Setters(<<>>, field))].value]
  BY <1>1, SettingsAre
<1> QED BY <1>1, <1>2, <1>3

-----------------------------------------------------------------------------
(* What is still to come                                                   *)

\* What comes of what is left of a file, the environment files in the list, the
\* arguments not read, the scripts in the list, and the settings so far.
ToCome(inp, envs, rest, scripts, opts, dump) ==
  LET settings == Settings(opts, rest)
  IN  Assignments(inp) \o EnvEffects(envs \o rest) \o RunEffects(scripts \o rest, settings)
      \o (IF dump THEN DumpEffects(settings) ELSE <<>>)

\* t is s without some elements that are next to each other.
Cuts(s, t) ==
  \/ t = s
  \/ \E i \in 1..Len(s), j \in 0..Len(s) :
       i <= j /\ t = SubSeq(s, 1, i - 1) \o SubSeq(s, j + 1, Len(s))

\* Sequences one after the other.
LEMMA BothFacts ==
  ASSUME NEW T
  PROVE  /\ <<>> \in Seq(T)
         /\ \A r, s \in Seq(T) : Both(r, s) \in Seq(T)
         /\ \A r, s, u \in Seq(T) : Both(Both(r, s), u) = Both(r, Both(s, u))
         /\ \A s \in Seq(T) : Both(<<>>, s) = s /\ Both(s, <<>>) = s
<1>1. \A r, s \in Seq(T) : Both(r, s) \in Seq(T)
  BY DEF Both
<1>2. ASSUME NEW r \in Seq(T), NEW s \in Seq(T), NEW u \in Seq(T)
      PROVE  Both(Both(r, s), u) = Both(r, Both(s, u))
  BY ConcatAssociative DEF Both
<1>3. ASSUME NEW s \in Seq(T) PROVE Both(<<>>, s) = s /\ Both(s, <<>>) = s
  BY ConcatEmptySeq DEF Both
<1> QED BY <1>1, <1>2, <1>3

\* What is in the middle of a sequence can be cut out.
LEMMA CutMiddle ==
  ASSUME NEW T, NEW p \in Seq(T), NEW q \in Seq(T), NEW r \in Seq(T)
  PROVE  Cuts(Both(p, Both(q, r)), Both(p, r))
<1> DEFINE s == p \o (q \o r)
           i == Len(p) + 1
           j == Len(p) + Len(q)
<1>1. /\ s \in Seq(T) /\ Len(s) = Len(p) + (Len(q) + Len(r))
      /\ Len(p) \in Nat /\ Len(q) \in Nat /\ Len(r) \in Nat
  OBVIOUS
<1>2. CASE q = <<>>
  <2>1. q \o r = r
    BY <1>2, ConcatEmptySeq
  <2> QED BY <2>1 DEF Cuts, Both
<1>3. CASE q # <<>>
  <2>1. Len(q) > 0
    BY <1>3, EmptySeq
  <2>2. i \in 1..Len(s) /\ j \in 0..Len(s) /\ i <= j /\ i - 1 = Len(p)
    BY <1>1, <2>1
  <2>3. SubSeq(s, 1, i - 1) = p
    <3>1. /\ SubSeq(s, 1, Len(p)) \in Seq(T) /\ Len(SubSeq(s, 1, Len(p))) = Len(p)
          /\ \A k \in 1..Len(p) : SubSeq(s, 1, Len(p))[k] = s[k] /\ s[k] = p[k]
      BY <1>1
    <3> QED BY <2>2, <3>1, SeqEqual
  <2>4. SubSeq(s, j + 1, Len(s)) = r
    <3> DEFINE u == SubSeq(s, j + 1, Len(s))
    <3>1. u \in Seq(T) /\ Len(u) = Len(r)
      BY <1>1
    <3>2. ASSUME NEW k \in 1..Len(r) PROVE u[k] = r[k]
      <4>1. u[k] = s[j + k]
        <5> DEFINE a == j + 1
                   b == Len(s)
        <5>1. a \in Int /\ b \in Int /\ (\A l \in a..b : s[l] \in T) /\ k \in 1..(b - a + 1)
              /\ a + k - 1 = j + k
          BY <1>1
        <5> HIDE DEF a, b, s
        <5>2. SubSeq(s, a, b)[k] = s[a + k - 1]
          BY <5>1, SubSeqProperties
        <5> QED BY <5>1, <5>2 DEF a, b
      <4>2. s[j + k] = (q \o r)[Len(q) + k]
        BY <1>1
      <4>3. (q \o r)[Len(q) + k] = r[k]
        BY <1>1
      <4> QED BY <4>1, <4>2, <4>3
    <3> HIDE DEF u
    <3>3. u = r
      BY <3>1, <3>2, SeqEqual
    <3> QED BY <3>3 DEF u
  <2>5. p \o r = SubSeq(s, 1, i - 1) \o SubSeq(s, j + 1, Len(s))
    BY <2>3, <2>4
  <2> HIDE DEF i, j
  <2>6. \E k \in 1..Len(s), l \in 0..Len(s) :
          k <= l /\ p \o r = SubSeq(s, 1, k - 1) \o SubSeq(s, l + 1, Len(s))
    BY <2>2, <2>5
  <2> QED BY <2>6 DEF Cuts, Both
<1> QED BY <1>2, <1>3

\* The dump, if there is to be one.
DumpOf(dump, settings) == IF dump THEN DumpEffects(settings) ELSE <<>>

\* The effects to come, of parts of the lists.
LEMMA ToComeIs ==
  ASSUME NEW inp \in Seq(Inputs), NEW envs \in Seq(Arguments), NEW rest \in Seq(Arguments),
         NEW scripts \in Seq(Arguments), NEW opts \in Settable, NEW dump, NEW settings,
         settings = Settings(opts, rest)
  PROVE  /\ settings \in Settable
         /\ Assignments(inp) \in Seq(AllEffects) /\ DumpOf(dump, settings) \in Seq(AllEffects)
         /\ ToCome(inp, envs, rest, scripts, opts, dump) =
              Both(Assignments(inp),
                Both(Both(EnvEffects(envs), EnvEffects(rest)),
                  Both(Both(RunEffects(scripts, settings), RunEffects(rest, settings)),
                    DumpOf(dump, settings))))
<1>1. settings \in Settable
  BY SettingsAre
<1> DEFINE a == Assignments(inp)
           e == EnvEffects(envs \o rest)
           r == RunEffects(scripts \o rest, settings)
           d == DumpOf(dump, settings)
<1>2. a \in Seq(AllEffects)
  BY AssignmentsParts
<1>3. d \in Seq(AllEffects)
  <2>1. [is |-> "dump"] \in AllEffects
    BY DEF AllEffects
  <2>2. <<[is |-> "dump"]>> \in Seq(AllEffects) /\ <<>> \in Seq(AllEffects)
    BY <2>1
  <2> QED BY <2>2 DEF DumpOf, DumpEffects
<1>4. envs \o rest \in Seq(Arguments) /\ scripts \o rest \in Seq(Arguments)
  OBVIOUS
<1>5. /\ e \in Seq(AllEffects) /\ r \in Seq(AllEffects)
      /\ e = EnvEffects(envs) \o EnvEffects(rest)
      /\ r = RunEffects(scripts, settings) \o RunEffects(rest, settings)
  BY <1>1, <1>4, EnvEffectsParts, RunEffectsParts
<1>6. ToCome(inp, envs, rest, scripts, opts, dump) = ((a \o e) \o r) \o d
  BY DEF ToCome, DumpOf
<1> HIDE DEF a, e, r, d
<1>7. ToCome(inp, envs, rest, scripts, opts, dump) = Both(Both(Both(a, e), r), d)
  BY <1>6 DEF Both
<1>8. Both(Both(Both(a, e), r), d) = Both(a, Both(e, Both(r, d)))
  <2> DEFINE T == Seq(AllEffects)
  <2>1. a \in T /\ e \in T /\ r \in T /\ d \in T
    BY <1>2, <1>3, <1>5
  <2>2. (\A s, u \in T : Both(s, u) \in T)
        /\ \A s, u, v \in T : Both(Both(s, u), v) = Both(s, Both(u, v))
    BY BothFacts
  <2> HIDE DEF T
  <2>3. Both(Both(Both(a, e), r), d) = Both(Both(a, e), Both(r, d))
    BY <2>1, <2>2
  <2>4. Both(Both(a, e), Both(r, d)) = Both(a, Both(e, Both(r, d)))
    BY <2>1, <2>2
  <2> QED BY <2>3, <2>4
<1>9. e = Both(EnvEffects(envs), EnvEffects(rest))
      /\ r = Both(RunEffects(scripts, settings), RunEffects(rest, settings))
  BY <1>5 DEF Both
<1> QED BY <1>1, <1>2, <1>3, <1>7, <1>8, <1>9 DEF a, d

\* The effects of one more argument, in front or behind.
LEMMA OneMore ==
  ASSUME NEW s \in Seq(Arguments), NEW a \in Arguments, NEW settings \in Settable
  PROVE  /\ Both(<<a>>, s) \in Seq(Arguments) /\ Append(s, a) \in Seq(Arguments)
         /\ EnvEffects(s) \in Seq(AllEffects) /\ EnvEffect(a) \in Seq(AllEffects)
         /\ RunEffects(s, settings) \in Seq(AllEffects)
         /\ RunEffect(a, settings) \in Seq(AllEffects)
         /\ EnvEffects(Both(<<a>>, s)) = Both(EnvEffect(a), EnvEffects(s))
         /\ EnvEffects(Append(s, a)) = Both(EnvEffects(s), EnvEffect(a))
         /\ RunEffects(Both(<<a>>, s), settings) =
              Both(RunEffect(a, settings), RunEffects(s, settings))
         /\ RunEffects(Append(s, a), settings) =
              Both(RunEffects(s, settings), RunEffect(a, settings))
<1>1. <<a>> \in Seq(Arguments) /\ <<a>> \o s \in Seq(Arguments) /\ Append(s, a) \in Seq(Arguments)
  OBVIOUS
<1>2. Append(s, a) = s \o <<a>>
  BY AppendIsConcat
<1>3. EnvEffects(<<a>>) = EnvEffect(a) /\ EnvEffect(a) \in Seq(AllEffects)
  BY <1>1, EnvEffectsParts
<1>4. RunEffects(<<a>>, settings) = RunEffect(a, settings)
      /\ RunEffect(a, settings) \in Seq(AllEffects)
  BY <1>1, RunEffectsParts
<1>5. /\ EnvEffects(<<a>> \o s) = EnvEffects(<<a>>) \o EnvEffects(s)
      /\ EnvEffects(s \o <<a>>) = EnvEffects(s) \o EnvEffects(<<a>>)
      /\ EnvEffects(s) \in Seq(AllEffects)
  BY <1>1, EnvEffectsParts
<1>6. /\ RunEffects(<<a>> \o s, settings) = RunEffects(<<a>>, settings) \o RunEffects(s, settings)
      /\ RunEffects(s \o <<a>>, settings) = RunEffects(s, settings) \o RunEffects(<<a>>, settings)
      /\ RunEffects(s, settings) \in Seq(AllEffects)
  BY <1>1, RunEffectsParts
<1>7. Both(<<a>>, s) \in Seq(Arguments)
  BY <1>1 DEF Both
<1>8. EnvEffects(Both(<<a>>, s)) = Both(EnvEffect(a), EnvEffects(s))
  BY <1>3, <1>5 DEF Both
<1>9. EnvEffects(Append(s, a)) = Both(EnvEffects(s), EnvEffect(a))
  BY <1>2, <1>3, <1>5 DEF Both
<1>10. RunEffects(Both(<<a>>, s), settings) = Both(RunEffect(a, settings), RunEffects(s, settings))
  BY <1>4, <1>6 DEF Both
<1>11. RunEffects(Append(s, a), settings) = Both(RunEffects(s, settings), RunEffect(a, settings))
  BY <1>2, <1>4, <1>6 DEF Both
<1> QED BY <1>1, <1>3, <1>4, <1>5, <1>6, <1>7, <1>8, <1>9, <1>10, <1>11

\* What is to come when a, the first of more, is read and the others are rest.
Reads(inp, envs, rest, scripts, opts, dump, a, more) ==
  LET all == ToCome(inp, envs, more, scripts, opts, dump)
      next == [opts EXCEPT ![a.field] = a.value]
  IN  /\ a.is = "set" =>
           next \in Settable /\ all = ToCome(inp, envs, rest, scripts, next, dump)
      /\ a.is = "print" => all = ToCome(inp, envs, rest, scripts, opts, dump)
      /\ a.is = "env" => all = ToCome(inp, Append(envs, a), rest, scripts, opts, dump)
      /\ a.is = "script" => all = ToCome(inp, envs, rest, Append(scripts, a), opts, dump)
      /\ a.is \in {"env", "script"} =>
           Cuts(all, ToCome(inp, envs, rest, scripts, opts, dump))

\* Reading an argument leaves what is to come as it is, or, if it cannot be kept, cuts
\* out what it asked for.
LEMMA ArgumentRead ==
  ASSUME NEW inp \in Seq(Inputs), NEW envs \in Seq(Arguments), NEW rest \in Seq(Arguments),
         NEW scripts \in Seq(Arguments), NEW opts \in Settable, NEW dump,
         NEW a \in Arguments, NEW more, more = Both(<<a>>, rest)
  PROVE  Reads(inp, envs, rest, scripts, opts, dump, a, more)
<1> DEFINE S == Settings(opts, more)
           T == Seq(AllEffects)
           all == ToCome(inp, envs, more, scripts, opts, dump)
           next == [opts EXCEPT ![a.field] = a.value]
           p == Assignments(inp)
           d == DumpOf(dump, S)
           e1 == EnvEffects(envs)
           e2 == EnvEffect(a)
           e3 == EnvEffects(rest)
           r1 == RunEffects(scripts, S)
           r2 == RunEffect(a, S)
           r3 == RunEffects(rest, S)
<1>1. more \in Seq(Arguments) /\ more = <<a>> \o rest
  BY DEF Both
<1>2. S \in Settable
  BY <1>1, SettingsAre
<1>3. /\ a.is # "set" => S = Settings(opts, rest)
      /\ a.is = "set" => next \in Settable /\ S = Settings(next, rest)
  BY <1>1, SettingsFirst
<1> HIDE DEF S, next
<1>4. p \in T /\ d \in T /\ e1 \in T /\ e2 \in T /\ e3 \in T /\ r1 \in T /\ r2 \in T /\ r3 \in T
  <2>1. p \in T
    BY AssignmentsParts
  <2>2. e1 \in T /\ r1 \in T
    BY <1>2, OneMore
  <2>3. e2 \in T /\ r2 \in T /\ e3 \in T /\ r3 \in T
    BY <1>2, OneMore
  <2>4. d \in T
    BY <1>1, ToComeIs DEF S
  <2> QED BY <2>1, <2>2, <2>3, <2>4
<1>5. all = Both(p, Both(Both(e1, EnvEffects(more)), Both(Both(r1, RunEffects(more, S)), d)))
  BY <1>1, ToComeIs DEF S
<1>6. EnvEffects(more) = Both(e2, e3) /\ RunEffects(more, S) = Both(r2, r3)
  BY <1>2, OneMore
<1>7. ASSUME NEW o \in Settable, S = Settings(o, rest)
      PROVE  ToCome(inp, envs, rest, scripts, o, dump) =
               Both(p, Both(Both(e1, e3), Both(Both(r1, r3), d)))
  BY <1>7, ToComeIs
<1>8. a.is # "env" => e2 = <<>>
  BY DEF EnvEffect
<1>9. a.is # "script" => r2 = <<>>
  BY DEF RunEffect
<1>10. /\ <<>> \in T
       /\ \A r, s \in T : Both(r, s) \in T
       /\ \A r, s, u \in T : Both(Both(r, s), u) = Both(r, Both(s, u))
       /\ \A s \in T : Both(<<>>, s) = s /\ Both(s, <<>>) = s
  BY BothFacts
<1>11. ASSUME a.is = "env"
       PROVE  ToCome(inp, Append(envs, a), rest, scripts, opts, dump) =
                Both(p, Both(Both(Both(e1, e2), e3), Both(Both(r1, r3), d)))
  <2>1. S = Settings(opts, rest) /\ Append(envs, a) \in Seq(Arguments)
    BY <1>3, <1>11
  <2>2. EnvEffects(Append(envs, a)) = Both(e1, e2)
    BY <1>2, OneMore
  <2> DEFINE w == Append(envs, a)
  <2>3. w \in Seq(Arguments)
    BY <2>1
  <2> HIDE DEF w
  <2>4. ToCome(inp, w, rest, scripts, opts, dump) =
          Both(p, Both(Both(EnvEffects(w), e3), Both(Both(r1, r3), d)))
    BY <2>1, <2>3, ToComeIs
  <2> QED BY <2>2, <2>4 DEF w
<1>12. ASSUME a.is = "script"
       PROVE  ToCome(inp, envs, rest, Append(scripts, a), opts, dump) =
                Both(p, Both(Both(e1, e3), Both(Both(Both(r1, r2), r3), d)))
  <2>1. S = Settings(opts, rest) /\ Append(scripts, a) \in Seq(Arguments)
    BY <1>3, <1>12
  <2>2. RunEffects(Append(scripts, a), S) = Both(r1, r2)
    BY <1>2, OneMore
  <2> DEFINE w == Append(scripts, a)
  <2>3. w \in Seq(Arguments)
    BY <2>1
  <2> HIDE DEF w
  <2>4. ToCome(inp, envs, rest, w, opts, dump) =
          Both(p, Both(Both(e1, e3), Both(Both(RunEffects(w, S), r3), d)))
    BY <2>1, <2>3, ToComeIs
  <2> QED BY <2>2, <2>4 DEF w
<1> HIDE DEF T, all, p, d, e1, e2, e3, r1, r2, r3
<1>13. ASSUME a.is # "env", a.is # "script"
       PROVE  all = Both(p, Both(Both(e1, e3), Both(Both(r1, r3), d)))
  BY <1>4, <1>5, <1>6, <1>8, <1>9, <1>10, <1>13
<1>14. ASSUME a.is = "set"
       PROVE  next \in Settable /\ all = ToCome(inp, envs, rest, scripts, next, dump)
  BY <1>3, <1>7, <1>13, <1>14
<1>15. ASSUME a.is = "print" PROVE all = ToCome(inp, envs, rest, scripts, opts, dump)
  BY <1>3, <1>7, <1>13, <1>15
<1>16. ASSUME a.is = "env"
       PROVE  /\ all = ToCome(inp, Append(envs, a), rest, scripts, opts, dump)
              /\ Cuts(all, ToCome(inp, envs, rest, scripts, opts, dump))
  <2>1. all = Both(p, Both(Both(e1, Both(e2, e3)), Both(Both(r1, r3), d)))
    BY <1>4, <1>5, <1>6, <1>9, <1>10, <1>16
  <2>2. all = ToCome(inp, Append(envs, a), rest, scripts, opts, dump)
    BY <1>4, <1>10, <1>11, <1>16, <2>1
  <2> DEFINE x == Both(p, e1)
             y == Both(e3, Both(Both(r1, r3), d))
  <2>3. x \in T /\ y \in T /\ all = Both(x, Both(e2, y))
    <3>1. x \in T
      BY <1>4, <1>10
    <3>2. y \in T
      <4>1. Both(r1, r3) \in T
        BY <1>4, <1>10
      <4>2. Both(Both(r1, r3), d) \in T
        BY <1>4, <1>10, <4>1
      <4> QED BY <1>4, <1>10, <4>2
    <3> DEFINE v == Both(Both(r1, r3), d)
    <3>3. v \in T
      BY <1>4, <1>10
    <3> HIDE DEF v
    <3>4. Both(e2, e3) \in T /\ Both(e3, v) \in T
      BY <1>4, <1>10, <3>3
    <3>5. Both(Both(e1, Both(e2, e3)), v) = Both(e1, Both(Both(e2, e3), v))
      BY <1>4, <1>10, <3>3, <3>4
    <3>6. Both(Both(e2, e3), v) = Both(e2, Both(e3, v)) /\ Both(e2, Both(e3, v)) \in T
      BY <1>4, <1>10, <3>3, <3>4
    <3>7. Both(p, Both(e1, Both(e2, Both(e3, v)))) = Both(Both(p, e1), Both(e2, Both(e3, v)))
      BY <1>4, <1>10, <3>6
    <3>8. all = Both(p, Both(Both(e1, Both(e2, e3)), v))
      BY <2>1 DEF v
    <3>9. all = Both(Both(p, e1), Both(e2, Both(e3, v)))
      BY <3>5, <3>6, <3>7, <3>8
    <3> QED BY <3>1, <3>2, <3>9 DEF v
  <2>4. ToCome(inp, envs, rest, scripts, opts, dump) = Both(x, y)
    BY <1>3, <1>4, <1>7, <1>10, <1>16
  <2> HIDE DEF x, y
  <2>5. Cuts(Both(x, Both(e2, y)), Both(x, y))
    BY <1>4, <2>3, CutMiddle DEF T
  <2> QED BY <2>2, <2>3, <2>4, <2>5
<1>17. ASSUME a.is = "script"
       PROVE  /\ all = ToCome(inp, envs, rest, Append(scripts, a), opts, dump)
              /\ Cuts(all, ToCome(inp, envs, rest, scripts, opts, dump))
  <2>1. all = Both(p, Both(Both(e1, e3), Both(Both(r1, Both(r2, r3)), d)))
    BY <1>4, <1>5, <1>6, <1>8, <1>10, <1>17
  <2>2. all = ToCome(inp, envs, rest, Append(scripts, a), opts, dump)
    BY <1>4, <1>10, <1>12, <1>17, <2>1
  <2> DEFINE x == Both(p, Both(Both(e1, e3), r1))
             y == Both(r3, d)
  <2>3. x \in T /\ y \in T /\ all = Both(x, Both(r2, y))
    <3> DEFINE v == Both(e1, e3)
    <3>1. v \in T
      BY <1>4, <1>10
    <3> HIDE DEF v
    <3>2. y \in T /\ Both(r2, r3) \in T /\ Both(v, r1) \in T
      BY <1>4, <1>10, <3>1
    <3>3. Both(r2, y) \in T /\ Both(Both(r2, r3), d) = Both(r2, y)
      BY <1>4, <1>10, <3>2
    <3>4. Both(Both(r1, Both(r2, r3)), d) = Both(r1, Both(Both(r2, r3), d))
      BY <1>4, <1>10, <3>2
    <3>5. Both(v, Both(r1, Both(r2, y))) = Both(Both(v, r1), Both(r2, y))
      BY <1>4, <1>10, <3>1, <3>3
    <3>6. Both(p, Both(Both(v, r1), Both(r2, y))) = Both(Both(p, Both(v, r1)), Both(r2, y))
      BY <1>4, <1>10, <3>2, <3>3
    <3>7. Both(p, Both(v, r1)) \in T
      BY <1>4, <1>10, <3>2
    <3>8. all = Both(p, Both(v, Both(Both(r1, Both(r2, r3)), d)))
      BY <2>1 DEF v
    <3>9. all = Both(Both(p, Both(v, r1)), Both(r2, y))
      BY <3>3, <3>4, <3>5, <3>6, <3>8
    <3> QED BY <3>2, <3>7, <3>9 DEF v
  <2>4. ToCome(inp, envs, rest, scripts, opts, dump) = Both(x, y)
    BY <1>3, <1>4, <1>7, <1>10, <1>17
  <2> HIDE DEF x, y
  <2>5. Cuts(Both(x, Both(r2, y)), Both(x, y))
    BY <1>4, <2>3, CutMiddle DEF T
  <2> QED BY <2>2, <2>3, <2>4, <2>5
<1> QED BY <1>14, <1>15, <1>16, <1>17 DEF all, next, Reads

\* A file in the list that cannot be opened is cut out; one that can be is opened with
\* its assignments to come.
LEMMA FileTaken ==
  ASSUME NEW inp \in Seq(Inputs), NEW more \in Seq(Arguments), NEW rest \in Seq(Arguments),
         NEW scripts \in Seq(Arguments), NEW opts \in Settable, NEW dump,
         NEW a \in Arguments, NEW envs, envs = Both(<<a>>, more)
  PROVE  /\ Cuts(ToCome(inp, envs, rest, scripts, opts, dump),
                 ToCome(inp, more, rest, scripts, opts, dump))
         /\ a.is = "env" =>
              /\ EnvInput(a.str) \in Seq(Inputs)
              /\ ToCome(<<>>, envs, rest, scripts, opts, dump) =
                   ToCome(EnvInput(a.str), more, rest, scripts, opts, dump)
<1> DEFINE S == Settings(opts, rest)
           T == Seq(AllEffects)
           d == DumpOf(dump, S)
           e1 == EnvEffect(a)
           e2 == EnvEffects(more)
           e3 == EnvEffects(rest)
           r == Both(RunEffects(scripts, S), RunEffects(rest, S))
<1>1. envs \in Seq(Arguments) /\ envs = <<a>> \o more
  BY DEF Both
<1>2. S \in Settable
  BY SettingsAre
<1> HIDE DEF S
<1>3. e1 \in T /\ e2 \in T /\ e3 \in T /\ EnvEffects(envs) = Both(e1, e2)
  BY <1>2, OneMore
<1>4. r \in T
  BY <1>2, OneMore, BothFacts
<1>5. d \in T
  BY ToComeIs DEF S
<1>6. ASSUME NEW x \in Seq(Inputs)
      PROVE  /\ Assignments(x) \in T
             /\ ToCome(x, envs, rest, scripts, opts, dump) =
                  Both(Assignments(x), Both(Both(Both(e1, e2), e3), Both(r, d)))
             /\ ToCome(x, more, rest, scripts, opts, dump) =
                  Both(Assignments(x), Both(Both(e2, e3), Both(r, d)))
  <2>1. ToCome(x, envs, rest, scripts, opts, dump) =
          Both(Assignments(x), Both(Both(EnvEffects(envs), e3), Both(r, d)))
    BY <1>1, ToComeIs DEF S
  <2>2. ToCome(x, more, rest, scripts, opts, dump) =
          Both(Assignments(x), Both(Both(e2, e3), Both(r, d)))
    BY ToComeIs DEF S
  <2>3. Assignments(x) \in T
    BY AssignmentsParts
  <2> QED BY <1>3, <2>1, <2>2, <2>3
<1>7. /\ \A s, u \in T : Both(s, u) \in T
      /\ \A s, u, v \in T : Both(Both(s, u), v) = Both(s, Both(u, v))
      /\ \A s \in T : Both(<<>>, s) = s
  BY BothFacts
<1>8. Cuts(ToCome(inp, envs, rest, scripts, opts, dump),
           ToCome(inp, more, rest, scripts, opts, dump))
  <2> DEFINE x == Assignments(inp)
             y == Both(Both(e2, e3), Both(r, d))
  <2>1. /\ x \in T /\ ToCome(inp, more, rest, scripts, opts, dump) = Both(x, y)
        /\ ToCome(inp, envs, rest, scripts, opts, dump) =
             Both(x, Both(Both(Both(e1, e2), e3), Both(r, d)))
    BY <1>6
  <2> HIDE DEF T, x, e1, e2, e3, r, d
  <2>2. Both(e2, e3) \in T /\ Both(r, d) \in T
    BY <1>3, <1>4, <1>5, <1>7
  <2>3. y \in T /\ Both(Both(Both(e1, e2), e3), Both(r, d)) = Both(e1, y)
    <3>1. Both(Both(e1, e2), e3) = Both(e1, Both(e2, e3))
      BY <1>3, <1>7
    <3> QED BY <1>3, <1>7, <2>2, <3>1
  <2> HIDE DEF y
  <2>4. Cuts(Both(x, Both(e1, y)), Both(x, y))
    BY <1>3, <2>1, <2>3, CutMiddle DEF T
  <2> QED BY <2>1, <2>3, <2>4
<1>9. ASSUME a.is = "env"
      PROVE  /\ EnvInput(a.str) \in Seq(Inputs)
             /\ ToCome(<<>>, envs, rest, scripts, opts, dump) =
                  ToCome(EnvInput(a.str), more, rest, scripts, opts, dump)
  <2> DEFINE w == EnvFiles[a.str]
             x == EnvInput(a.str)
             fault == [is |-> "error"]
  <2>1. w \in Seq(Lines)
    BY <1>9, FileLines
  <2>2. w \in Seq(Inputs) /\ fault \in Inputs /\ <<>> \in Seq(Inputs)
    <3> HIDE DEF w
    <3>1. w \in Seq(Inputs)
      BY <2>1, SeqMonotonic DEF Inputs
    <3> QED BY <3>1 DEF Inputs
  <2>3. Assignments(<<fault>>) = <<>> /\ Assignments(<<>>) = <<>> /\ <<fault>> \in Seq(Inputs)
    <3>1. Assignment(fault) = <<>>
      BY DEF Assignment
    <3> QED BY <2>2, <3>1, AssignmentsParts
  <2>4. x \in Seq(Inputs) /\ Assignments(x) = Assignments(w)
    BY <2>2, <2>3 DEF EnvInput
  <2>5. Assignments(x) = e1
    BY <1>9, <2>4 DEF EnvEffect
  <2> HIDE DEF x
  <2>6. ToCome(<<>>, envs, rest, scripts, opts, dump) =
          Both(<<>>, Both(Both(Both(e1, e2), e3), Both(r, d)))
    BY <1>6, <2>2, <2>3
  <2>7. ToCome(x, more, rest, scripts, opts, dump) =
          Both(e1, Both(Both(e2, e3), Both(r, d)))
    BY <1>6, <2>4, <2>5
  <2> HIDE DEF T, e1, e2, e3, r, d
  <2>8. Both(r, d) \in T /\ Both(e2, e3) \in T
    BY <1>3, <1>4, <1>5, <1>7
  <2>9. Both(Both(e1, e2), e3) = Both(e1, Both(e2, e3)) /\ Both(e1, Both(e2, e3)) \in T
    BY <1>3, <1>7, <2>8
  <2>10. Both(Both(e1, Both(e2, e3)), Both(r, d)) = Both(e1, Both(Both(e2, e3), Both(r, d)))
         /\ Both(Both(e1, Both(e2, e3)), Both(r, d)) \in T
    BY <1>3, <1>7, <2>8, <2>9
  <2>11. ToCome(<<>>, envs, rest, scripts, opts, dump) =
           ToCome(x, more, rest, scripts, opts, dump)
    BY <1>7, <2>6, <2>7, <2>9, <2>10
  <2> QED BY <2>4, <2>11 DEF x
<1> QED BY <1>8, <1>9

\* An assignment is the next effect, or is cut out; an error cuts out what is left of its file.
LEMMA LineRead ==
  ASSUME NEW lines \in Seq(Inputs), NEW envs \in Seq(Arguments), NEW rest \in Seq(Arguments),
         NEW scripts \in Seq(Arguments), NEW opts \in Settable, NEW dump,
         NEW l \in Inputs, NEW inp, inp = Both(<<l>>, lines)
  PROVE  LET all == ToCome(inp, envs, rest, scripts, opts, dump)
             left == ToCome(lines, envs, rest, scripts, opts, dump)
         IN  /\ left \in Seq(AllEffects)
             /\ l.is = "assign" => l \in AllEffects /\ all = Both(<<l>>, left)
             /\ Cuts(all, left)
             /\ Cuts(all, ToCome(<<>>, envs, rest, scripts, opts, dump))
<1> DEFINE S == Settings(opts, rest)
           T == Seq(AllEffects)
           x == Assignment(l)
           y == Assignments(lines)
           z == Both(Both(EnvEffects(envs), EnvEffects(rest)),
                  Both(Both(RunEffects(scripts, S), RunEffects(rest, S)), DumpOf(dump, S)))
<1>1. inp \in Seq(Inputs) /\ <<l>> \in Seq(Inputs) /\ <<>> \in Seq(Inputs) /\ inp = <<l>> \o lines
  BY DEF Both
<1>2. S \in Settable
  BY SettingsAre
<1>3. x \in T /\ y \in T /\ Assignments(inp) = Both(x, y) /\ Assignments(<<>>) = <<>>
  <2>1. Assignments(<<l>>) = x /\ x \in T /\ y \in T /\ Assignments(<<>>) = <<>>
    BY <1>1, AssignmentsParts
  <2>2. Assignments(<<l>> \o lines) = Assignments(<<l>>) \o y
    BY <1>1, AssignmentsParts
  <2> QED BY <1>1, <2>1, <2>2 DEF Both
<1>4. z \in T
  <2> DEFINE a == EnvEffects(envs)
             b == EnvEffects(rest)
             c == RunEffects(scripts, S)
             e == RunEffects(rest, S)
             f == DumpOf(dump, S)
  <2>1. a \in T /\ b \in T /\ c \in T /\ e \in T
    BY <1>2, EnvEffectsParts, RunEffectsParts
  <2>2. f \in T
    BY <1>1, ToComeIs
  <2>3. \A s, u \in T : Both(s, u) \in T
    BY BothFacts
  <2> HIDE DEF a, b, c, e, f, T
  <2>4. Both(a, b) \in T /\ Both(c, e) \in T
    BY <2>1, <2>3
  <2>5. Both(Both(a, b), Both(Both(c, e), f)) \in T
    BY <2>2, <2>3, <2>4
  <2> QED BY <2>5 DEF a, b, c, e, f
<1>5. /\ ToCome(inp, envs, rest, scripts, opts, dump) = Both(Assignments(inp), z)
      /\ ToCome(lines, envs, rest, scripts, opts, dump) = Both(y, z)
      /\ ToCome(<<>>, envs, rest, scripts, opts, dump) = Both(Assignments(<<>>), z)
  <2>1. ASSUME NEW w \in Seq(Inputs)
        PROVE  ToCome(w, envs, rest, scripts, opts, dump) = Both(Assignments(w), z)
    BY ToComeIs
  <2> HIDE DEF z
  <2>2. ToCome(inp, envs, rest, scripts, opts, dump) = Both(Assignments(inp), z)
    BY <1>1, <2>1
  <2>3. ToCome(lines, envs, rest, scripts, opts, dump) = Both(y, z)
    BY <2>1
  <2> DEFINE none == <<>>
  <2>4. none \in Seq(Inputs)
    BY <1>1
  <2> HIDE DEF none
  <2>5. ToCome(none, envs, rest, scripts, opts, dump) = Both(Assignments(none), z)
    BY <2>1, <2>4
  <2> QED BY <2>2, <2>3, <2>5 DEF none
<1>6. l.is = "assign" => l \in AllEffects /\ x = <<l>>
  BY DEF Assignment, Inputs, AllEffects
<1>7. /\ <<>> \in T /\ \A s, u \in T : Both(s, u) \in T
      /\ \A s, u, v \in T : Both(Both(s, u), v) = Both(s, Both(u, v))
      /\ \A s \in T : Both(<<>>, s) = s
  BY BothFacts
<1> DEFINE all == ToCome(inp, envs, rest, scripts, opts, dump)
           left == ToCome(lines, envs, rest, scripts, opts, dump)
           none == ToCome(<<>>, envs, rest, scripts, opts, dump)
<1>8. all = Both(Both(x, y), z) /\ left = Both(y, z) /\ none = Both(<<>>, z)
  BY <1>3, <1>5
<1> HIDE DEF T, x, y, z, all, left, none
<1>9. left \in T /\ all = Both(x, left) /\ none = z /\ Both(x, y) \in T
  BY <1>3, <1>4, <1>7, <1>8
<1>10. Cuts(Both(<<>>, Both(x, left)), Both(<<>>, left))
  BY <1>3, <1>7, <1>9, CutMiddle DEF T
<1>11. Cuts(Both(<<>>, Both(Both(x, y), z)), Both(<<>>, z))
  BY <1>4, <1>7, <1>9, CutMiddle DEF T
<1>12. Cuts(all, left)
  <2>1. Both(<<>>, left) = left /\ Both(x, left) \in T
    BY <1>3, <1>7, <1>9
  <2>2. Both(<<>>, Both(x, left)) = Both(x, left)
    BY <1>7, <2>1
  <2> QED BY <1>9, <1>10, <2>1, <2>2
<1>13. Cuts(all, none)
  <2>1. Both(Both(x, y), z) \in T
    BY <1>4, <1>7, <1>9
  <2>2. Both(<<>>, Both(Both(x, y), z)) = Both(Both(x, y), z) /\ Both(<<>>, z) = z
    BY <1>4, <1>7, <2>1
  <2> QED BY <1>8, <1>9, <1>11, <2>2
<1>14. l.is = "assign" => l \in AllEffects /\ all = Both(<<l>>, left)
  BY <1>6, <1>9
<1> QED BY <1>9, <1>12, <1>13, <1>14 DEF all, left, none, T

\* A script in the list that does not run is cut out; when all arguments and files are
\* read it is the next effect.
LEMMA ScriptTaken ==
  ASSUME NEW more \in Seq(Arguments), NEW opts \in Settable, NEW dump,
         NEW a \in Arguments, NEW scripts, scripts = Both(<<a>>, more)
  PROVE  LET all == ToCome(<<>>, <<>>, <<>>, scripts, opts, dump)
             left == ToCome(<<>>, <<>>, <<>>, more, opts, dump)
         IN  /\ left \in Seq(AllEffects) /\ Cuts(all, left)
             /\ a.is = "script" =>
                  Run(a, opts) \in AllEffects /\ all = Both(<<Run(a, opts)>>, left)
<1> DEFINE T == Seq(AllEffects)
           x == RunEffect(a, opts)
           y == RunEffects(more, opts)
           d == DumpOf(dump, opts)
           all == ToCome(<<>>, <<>>, <<>>, scripts, opts, dump)
           left == ToCome(<<>>, <<>>, <<>>, more, opts, dump)
<1>1. scripts \in Seq(Arguments) /\ <<>> \in Seq(Arguments) /\ <<>> \in Seq(Inputs)
  BY DEF Both
<1>2. Settings(opts, <<>>) = opts
  BY SettingsOfNone
<1>3. x \in T /\ y \in T /\ RunEffects(scripts, opts) = Both(x, y)
  BY OneMore
<1>4. /\ Assignments(<<>>) = <<>> /\ EnvEffects(<<>>) = <<>> /\ RunEffects(<<>>, opts) = <<>>
  BY AssignmentsParts, EnvEffectsParts, RunEffectsParts
<1>5. d \in T
  BY <1>1, <1>2, ToComeIs
<1>6. ASSUME NEW s \in Seq(Arguments)
      PROVE  ToCome(<<>>, <<>>, <<>>, s, opts, dump) =
               Both(<<>>, Both(Both(<<>>, <<>>), Both(Both(RunEffects(s, opts), <<>>), d)))
  <2> DEFINE none == <<>>
  <2>1. none \in Seq(Arguments) /\ none \in Seq(Inputs) /\ Settings(opts, none) = opts
    BY <1>1, <1>2
  <2>2. /\ Assignments(none) = none /\ EnvEffects(none) = none /\ RunEffects(none, opts) = none
    BY <1>4
  <2> HIDE DEF none
  <2>3. ToCome(none, none, none, s, opts, dump) =
          Both(Assignments(none), Both(Both(EnvEffects(none), EnvEffects(none)),
            Both(Both(RunEffects(s, opts), RunEffects(none, opts)), d)))
    BY <2>1, ToComeIs
  <2>4. ToCome(none, none, none, s, opts, dump) =
          Both(none, Both(Both(none, none), Both(Both(RunEffects(s, opts), none), d)))
    BY <2>2, <2>3
  <2> QED BY <2>4 DEF none
<1>7. /\ <<>> \in T /\ \A s, u \in T : Both(s, u) \in T
      /\ \A s, u, v \in T : Both(Both(s, u), v) = Both(s, Both(u, v))
      /\ \A s \in T : Both(<<>>, s) = s /\ Both(s, <<>>) = s
  BY BothFacts
<1>8. all = Both(<<>>, Both(Both(<<>>, <<>>), Both(Both(Both(x, y), <<>>), d)))
  BY <1>1, <1>3, <1>6
<1>9. left = Both(<<>>, Both(Both(<<>>, <<>>), Both(Both(y, <<>>), d)))
  BY <1>6
<1>10. a.is = "script" => Run(a, opts) \in AllEffects /\ x = <<Run(a, opts)>>
  BY DEF RunEffect, AllEffects
<1> DEFINE none == <<>>
<1> HIDE DEF T, x, y, d, all, left
<1>11. Both(<<>>, <<>>) = <<>> /\ Both(y, <<>>) = y /\ Both(Both(x, y), <<>>) = Both(x, y)
  <2>1. Both(x, y) \in T
    BY <1>3, <1>7
  <2> QED BY <1>3, <1>7, <2>1
<1>12. left \in T /\ left = Both(y, d)
  <2>1. Both(y, d) \in T
    BY <1>3, <1>5, <1>7
  <2> QED BY <1>7, <1>9, <1>11, <2>1
<1>13. all = Both(x, left)
  <2>1. Both(Both(x, y), d) = Both(x, Both(y, d)) /\ Both(x, Both(y, d)) \in T
    BY <1>3, <1>5, <1>7, <1>12
  <2> QED BY <1>7, <1>8, <1>11, <1>12, <2>1
<1>14. Cuts(all, left)
  <2>1. Cuts(Both(<<>>, Both(x, left)), Both(<<>>, left))
    BY <1>3, <1>7, <1>12, CutMiddle DEF T
  <2>2. Both(x, left) \in T
    BY <1>3, <1>7, <1>12
  <2>3. Both(<<>>, left) = left /\ Both(<<>>, Both(x, left)) = Both(x, left)
    BY <1>7, <1>12, <2>2
  <2> QED BY <1>13, <2>1, <2>3
<1> QED BY <1>10, <1>12, <1>13, <1>14 DEF T, all, left

\* When everything is read and has run there is only the dump to come.
LEMMA NothingElse ==
  ASSUME NEW opts \in Settable, NEW dump
  PROVE  ToCome(<<>>, <<>>, <<>>, <<>>, opts, dump) = DumpOf(dump, opts)
<1>1. <<>> \in Seq(Arguments) /\ <<>> \in Seq(Inputs)
  OBVIOUS
<1>2. Settings(opts, <<>>) = opts
  BY SettingsOfNone
<1>3. Assignments(<<>>) = <<>> /\ EnvEffects(<<>>) = <<>> /\ RunEffects(<<>>, opts) = <<>>
  BY AssignmentsParts, EnvEffectsParts, RunEffectsParts
<1>4. <<>> \o <<>> = <<>>
  OBVIOUS
<1>5. ToCome(<<>>, <<>>, <<>>, <<>>, opts, dump) =
        ((Assignments(<<>>) \o EnvEffects(<<>>)) \o RunEffects(<<>>, opts)) \o DumpOf(dump, opts)
  BY <1>2, <1>4 DEF ToCome, DumpOf
<1>6. DumpOf(dump, opts) \in Seq(AllEffects)
  BY <1>1, <1>2, ToComeIs
<1>7. <<>> \o DumpOf(dump, opts) = DumpOf(dump, opts)
  BY <1>6, ConcatEmptySeq
<1> QED BY <1>3, <1>4, <1>5, <1>7

-----------------------------------------------------------------------------
(* The arguments in a list                                                 *)

\* What the entries of s hold.
Entries(x, s) == [i \in 1..Len(s) |-> x[s[i]]]

\* All entries of s hold arguments.
Hold(x, s) == s \in Seq(Node) /\ \A i \in 1..Len(s) : x[s[i]] \in Arguments

\* The arguments are a sequence like that of their entries.
LEMMA EntriesAre ==
  ASSUME NEW x, NEW s, Hold(x, s)
  PROVE  /\ Entries(x, s) \in Seq(Arguments) /\ Len(Entries(x, s)) = Len(s)
         /\ \A i \in 1..Len(s) : Entries(x, s)[i] = x[s[i]]
<1>1. Len(s) \in Nat
  BY DEF Hold
<1>2. Entries(x, s) \in [1..Len(s) -> Arguments]
  BY DEF Hold, Entries
<1> QED BY <1>1, <1>2, SeqDef DEF Entries

\* The entry in front leaves, and the others hold what they held.
LEMMA EntriesTail ==
  ASSUME NEW x, NEW y, NEW s, Hold(x, s), s # <<>>,
         \A i \in 1..Len(s) : i # 1 => y[s[i]] = x[s[i]]
  PROVE  /\ x[s[1]] \in Arguments /\ Entries(y, Tail(s)) \in Seq(Arguments)
         /\ Entries(x, s) = Both(<<x[s[1]]>>, Entries(y, Tail(s)))
         /\ Entries(y, Tail(s)) = Tail(Entries(x, s))
<1> DEFINE t == Tail(s)
           e == Entries(x, s)
           f == Entries(y, t)
<1>1. /\ s \in Seq(Node) /\ Len(s) \in Nat /\ 1 \in 1..Len(s)
      /\ t \in Seq(Node) /\ Len(t) = Len(s) - 1
      /\ \A i \in 1..Len(t) : t[i] = s[i + 1] /\ i + 1 \in 1..Len(s) /\ i + 1 # 1
  <2>1. s \in Seq(Node)
    BY DEF Hold
  <2>2. Len(s) \in Nat /\ Len(s) # 0
    BY <2>1, EmptySeq
  <2> QED BY <2>1, <2>2
<1>2. /\ e \in Seq(Arguments) /\ Len(e) = Len(s) /\ \A i \in 1..Len(s) : e[i] = x[s[i]]
  BY EntriesAre
<1> HIDE DEF t, e
<1>3. Hold(y, t)
  BY <1>1 DEF Hold
<1>4. /\ f \in Seq(Arguments) /\ Len(f) = Len(t) /\ \A i \in 1..Len(t) : f[i] = y[t[i]]
  BY <1>3, EntriesAre
<1> HIDE DEF f
<1>5. \A i \in 1..Len(f) : f[i] = e[i + 1]
  <2> TAKE i \in 1..Len(f)
  <2>1. f[i] = y[t[i]] /\ t[i] = s[i + 1] /\ i + 1 \in 1..Len(s) /\ i + 1 # 1
    BY <1>1, <1>4
  <2> DEFINE j == i + 1
  <2>2. y[s[j]] = x[s[j]] /\ e[j] = x[s[j]]
    BY <1>2, <2>1
  <2> QED BY <2>1, <2>2
<1>6. e # <<>> /\ Len(e) # 0
  BY <1>1, <1>2, EmptySeq
<1>7. Tail(e) \in Seq(Arguments) /\ Len(Tail(e)) = Len(f) /\ \A i \in 1..Len(f) : Tail(e)[i] = f[i]
  BY <1>1, <1>2, <1>4, <1>5, <1>6
<1>8. Tail(e) = f
  BY <1>4, <1>7, SeqEqual
<1>9. e[1] = x[s[1]] /\ x[s[1]] \in Arguments
  BY <1>1, <1>2
<1>10. e = <<e[1]>> \o Tail(e)
  BY <1>2, <1>6
<1> QED BY <1>4, <1>8, <1>9, <1>10 DEF t, e, f, Both

\* One more entry, and the others hold what they held.
LEMMA EntriesAppend ==
  ASSUME NEW x, NEW y, NEW s, Hold(x, s), NEW n \in Node, y[n] \in Arguments,
         \A i \in 1..Len(s) : y[s[i]] = x[s[i]]
  PROVE  Entries(y, Append(s, n)) = Append(Entries(x, s), y[n])
<1> DEFINE t == Append(s, n)
           e == Entries(x, s)
           f == Entries(y, t)
<1>1. /\ s \in Seq(Node) /\ Len(s) \in Nat
      /\ t \in Seq(Node) /\ Len(t) = Len(s) + 1 /\ t[Len(s) + 1] = n
      /\ \A i \in 1..Len(s) : t[i] = s[i]
  BY DEF Hold
<1>2. /\ e \in Seq(Arguments) /\ Len(e) = Len(s) /\ \A i \in 1..Len(s) : e[i] = x[s[i]]
  BY EntriesAre
<1> HIDE DEF t, e
<1>3. \A i \in 1..Len(t) : i = Len(s) + 1 \/ i \in 1..Len(s)
  BY <1>1
<1>4. Hold(y, t)
  BY <1>1, <1>3 DEF Hold
<1>5. /\ f \in Seq(Arguments) /\ Len(f) = Len(t) /\ \A i \in 1..Len(t) : f[i] = y[t[i]]
  BY <1>4, EntriesAre
<1> HIDE DEF f
<1> DEFINE g == Append(e, y[n])
<1>6. /\ g \in Seq(Arguments) /\ Len(g) = Len(s) + 1 /\ g[Len(s) + 1] = y[n]
      /\ \A i \in 1..Len(s) : g[i] = e[i]
  BY <1>1, <1>2
<1> HIDE DEF g
<1>7. \A i \in 1..Len(t) : f[i] = g[i]
  BY <1>1, <1>2, <1>3, <1>5, <1>6
<1>8. f = g
  BY <1>1, <1>5, <1>6, <1>7, SeqEqual
<1> QED BY <1>8 DEF t, e, f, g

\* Entries that hold what they held.
LEMMA EntriesSame ==
  ASSUME NEW x, NEW y, NEW s, \A i \in 1..Len(s) : y[s[i]] = x[s[i]]
  PROVE  Entries(y, s) = Entries(x, s)
BY DEF Entries

-----------------------------------------------------------------------------
(* What main has read                                                      *)

\* It was on the command line, and a list that a loop has gone through is empty.
Reading ==
  /\ options \in Settable
  /\ \A n \in Node : node[n] = Free \/ node[n] \in Arguments
  /\ input \in Seq(Inputs)
  /\ phase # "env" => input = <<>>
  /\ phase # "options" => optind > Len(args)
  /\ phase \in {"scripts", "script", "cleanup"} => Ring(links, EnvsHead) = <<>>
  /\ phase = "cleanup" => Ring(links, ScriptsHead) = <<>>

\* The arguments that have not been read.
Rest == SubSeq(args, optind, Len(args))

\* The environment files that have not been opened.
EnvsLeft == IF phase = "env" THEN Tail(Listed(EnvsHead)) ELSE Listed(EnvsHead)

\* The list of a head is what its entries hold.
LEMMA ListedIs ==
  ASSUME NEW head
  PROVE  /\ Listed(head) = Entries(node, Ring(links, head))
         /\ Listed(head)' = Entries(node', Ring(links', head))
<1>1. Listed(head) = Entries(node, Ring(links, head))
  BY DEF Listed, Entries
<1>2. Listed(head)' = Entries(node', Ring(links', head))
  BY DEF Listed, Entries, Ring, Walk
<1> QED BY <1>1, <1>2

\* The first of the arguments that have not been read.
LEMMA RestIs ==
  ASSUME Typed
  PROVE  /\ Rest \in Seq(Arguments)
         /\ optind <= Len(args) =>
              /\ Arg \in Arguments /\ SubSeq(args, optind + 1, Len(args)) \in Seq(Arguments)
              /\ Rest = Both(<<Arg>>, SubSeq(args, optind + 1, Len(args)))
         /\ optind > Len(args) => Rest = <<>>
<1> DEFINE n == Len(args)
           more == SubSeq(args, optind + 1, n)
<1>1. args \in Seq(Arguments) /\ optind \in Nat \ {0}
  BY LineArguments DEF Typed
<1>2. n \in Nat
  BY <1>1
<1>3. Rest \in Seq(Arguments) /\ more \in Seq(Arguments)
  BY <1>1, <1>2 DEF Rest
<1>4. ASSUME optind <= n PROVE Arg \in Arguments /\ Rest = Both(<<Arg>>, more)
  <2>1. Arg \in Arguments /\ args[optind] = Arg
    BY <1>1, <1>2, <1>4 DEF Arg
  <2>2. Len(Rest) = n - optind + 1 /\ \A i \in 1..(n - optind + 1) : Rest[i] = args[optind + i - 1]
    BY <1>1, <1>2, <1>4 DEF Rest
  <2>3. Len(more) = n - optind /\ \A i \in 1..(n - optind) : more[i] = args[optind + i]
    BY <1>1, <1>2, <1>4
  <2> HIDE DEF more, n
  <2> DEFINE f == <<Arg>> \o more
  <2>4. /\ f \in Seq(Arguments) /\ Len(f) = n - optind + 1 /\ f[1] = Arg
        /\ \A i \in 2..(n - optind + 1) : f[i] = more[i - 1]
    <3> DEFINE one == <<Arg>>
    <3>1. one \in Seq(Arguments) /\ Len(one) = 1 /\ one[1] = Arg
      BY <2>1
    <3> HIDE DEF one
    <3>2. /\ one \o more \in Seq(Arguments) /\ Len(one \o more) = 1 + Len(more)
          /\ (one \o more)[1] = one[1]
          /\ \A i \in 2..(1 + Len(more)) : (one \o more)[i] = more[i - 1]
      <4>1. /\ one \o more \in Seq(Arguments) /\ Len(one \o more) = Len(one) + Len(more)
            /\ \A i \in 1..(Len(one) + Len(more)) :
                 (one \o more)[i] = IF i <= Len(one) THEN one[i] ELSE more[i - Len(one)]
        BY <1>3, <3>1, ConcatProperties
      <4>2. Len(more) \in Nat
        BY <1>3
      <4> QED BY <3>1, <4>1, <4>2
    <3>3. n - optind \in Nat /\ 1 + Len(more) = n - optind + 1
      BY <1>1, <1>2, <1>4, <2>3
    <3> QED BY <3>1, <3>2, <3>3 DEF f, one
  <2> HIDE DEF f
  <2>5. ASSUME NEW i \in 1..(n - optind + 1) PROVE Rest[i] = f[i]
    <3>1. CASE i = 1
      BY <1>1, <1>2, <1>4, <2>1, <2>2, <2>4, <3>1
    <3>2. CASE i # 1
      <4>1. /\ i \in 2..(n - optind + 1) /\ i - 1 \in 1..(n - optind)
            /\ optind + (i - 1) = optind + i - 1
        BY <1>1, <1>2, <3>2
      <4> QED BY <2>2, <2>3, <2>4, <4>1
    <3> QED BY <3>1, <3>2
  <2>6. Rest = f
    BY <1>3, <2>2, <2>4, <2>5, SeqEqual
  <2> QED BY <2>1, <2>6 DEF f, Both
<1>5. ASSUME optind > n PROVE Rest = <<>>
  <2>1. Len(Rest) = 0
    BY <1>1, <1>2, <1>5 DEF Rest
  <2> QED BY <1>3, <2>1, EmptySeq
<1> QED BY <1>3, <1>4, <1>5

\* The effects to come are those of what has not been read and of what is in the lists.
LEMMA TodoIs ==
  /\ phase # "exited" =>
       Todo = ToCome(input, EnvsLeft, Rest, Listed(ScriptsHead), options, phase # "cleanup")
  /\ phase' # "exited" =>
       Todo' = ToCome(input', EnvsLeft', Rest', Listed(ScriptsHead)', options', phase' # "cleanup")
  /\ phase = "exited" => Todo = <<>>
  /\ phase' = "exited" => Todo' = <<>>
<1>1. phase # "exited" =>
       Todo = ToCome(input, EnvsLeft, Rest, Listed(ScriptsHead), options, phase # "cleanup")
  BY DEF Todo, ToCome, EnvsLeft, Rest
<1>2. phase' # "exited" =>
       Todo' = ToCome(input', EnvsLeft', Rest', Listed(ScriptsHead)', options', phase' # "cleanup")
  BY DEF Todo, ToCome, EnvsLeft, Rest
<1>3. phase = "exited" => Todo = <<>>
  BY DEF Todo
<1>4. phase' = "exited" => Todo' = <<>>
  BY DEF Todo
<1> QED BY <1>1, <1>2, <1>3, <1>4

-----------------------------------------------------------------------------
(* What becomes of the lists                                               *)

\* Each list is of arguments of its kind.
LEMMA ListedAre ==
  ASSUME IInv, Reading, phase # "exited", NEW head \in Heads
  PROVE  /\ Hold(node, Ring(links, head))
         /\ \A i \in 1..Len(Ring(links, head)) :
              Ring(links, head)[i] \in Node /\ node[Ring(links, head)[i]].is = Is(head)
         /\ Listed(head) = Entries(node, Ring(links, head)) /\ Listed(head) \in Seq(Arguments)
<1> DEFINE s == Ring(links, head)
<1>1. s \in Seq(Node) /\ Has(node, head, s)
  BY DEF IInv, Whole, Holds, Sorted
<1>2. Listed(head) = Entries(node, s)
  BY ListedIs
<1> HIDE DEF s
<1>3. \A i \in 1..Len(s) : s[i] \in Node /\ node[s[i]].is = Is(head)
  <2>1. \A i \in 1..Len(s) : s[i] \in Node
    BY <1>1
  <2> QED BY <1>1, <2>1 DEF Has
<1>4. \A i \in 1..Len(s) : node[s[i]] \in Arguments
  <2> TAKE i \in 1..Len(s)
  <2>1. node[s[i]] # Free
    BY <1>3 DEF Free, Is
  <2> QED BY <1>3, <2>1 DEF Reading
<1>5. Hold(node, s)
  BY <1>1, <1>4 DEF Hold
<1>6. Listed(head) \in Seq(Arguments)
  BY <1>2, <1>5, EntriesAre
<1> QED BY <1>2, <1>3, <1>5, <1>6 DEF s

\* A loop that is at the end of its list has left nothing in it.
LEMMA NothingListed ==
  ASSUME IInv, NEW head \in Heads, links.next[head] = head
  PROVE  Ring(links, head) = <<>>
<1> DEFINE s == Ring(links, head)
<1>1. s \in Seq(Node) /\ IsList(links, head, s) /\ head \notin Node
  BY HandlesFacts DEF IInv, Whole, Holds
<1> HIDE DEF s
<1>2. Len(s) \in Nat /\ 0 \in 0..Len(s) /\ 0 + 1 = 1
  BY <1>1
<1>3. RingAt(head, s, 0) = head
  BY DEF RingAt
<1>4. head = RingAt(head, s, 1)
  BY <1>1, <1>2, <1>3 DEF IsList
<1>5. Len(s) = 0
  <2> SUFFICES ASSUME Len(s) # 0 PROVE FALSE
    OBVIOUS
  <2>1. 1 \in 1..Len(s)
    BY <1>2
  <2> QED BY <1>1, <1>4, <2>1 DEF RingAt
<1>6. s = <<>>
  BY <1>1, <1>5, EmptySeq
<1> QED BY <1>6 DEF s

\* The argument at which a loop is leaves its list.
LEMMA ListedDrop ==
  ASSUME IInv, Reading, phase \in {"envs", "env", "scripts", "script"}, inx # LoopHead, DropNode,
         phase' = IF InEnvs THEN "envs" ELSE "scripts", NEW head \in Heads, head = LoopHead
  PROVE  /\ node[inx] \in Arguments /\ node[inx].is = Is(head)
         /\ Listed(head)' \in Seq(Arguments)
         /\ Listed(head) = Both(<<node[inx]>>, Listed(head)')
         /\ Listed(head)' = Tail(Listed(head))
         /\ \A other \in Heads \ {head} :
              Listed(other)' = Listed(other) /\ Ring(links', other) = Ring(links, other)
         /\ \A n \in Node : node'[n] = Free \/ node'[n] \in Arguments
<1> DEFINE s == Ring(links, head)
<1>1. /\ inx \in Node /\ s # <<>> /\ inx = s[1] /\ Ring(links', head) = Tail(s)
      /\ \A other \in Heads \ {head} : Ring(links', other) = Ring(links, other)
  BY DropKeeps
<1>2. phase # "exited" /\ DOMAIN node = Node /\ node' = [node EXCEPT ![inx] = Free]
  BY DEF IInv, Typed, DropNode
<1>3. node'[inx] = Free /\ \A d \in Node : d # inx => node'[d] = node[d]
  BY <1>1, <1>2
<1>4. /\ Hold(node, s) /\ \A i \in 1..Len(s) : s[i] \in Node /\ node[s[i]].is = Is(head)
      /\ Listed(head) = Entries(node, s)
  BY <1>2, ListedAre
<1>5. Listed(head)' = Entries(node', Tail(s))
  BY <1>1, ListedIs
<1>6. IsList(links, head, s)
  BY DEF IInv, Whole, Holds
<1> HIDE DEF s
<1>7. Len(s) \in Nat /\ 1 \in 1..Len(s)
  <2>1. s \in Seq(Node)
    BY <1>4 DEF Hold
  <2>2. Len(s) # 0
    BY <1>1, <2>1, EmptySeq
  <2> QED BY <2>1, <2>2
<1>8. \A i \in 1..Len(s) : i # 1 => node'[s[i]] = node[s[i]]
  <2>1. \A i \in 1..Len(s) : i # 1 => s[i] # s[1]
    BY <1>6, <1>7 DEF IsList
  <2> QED BY <1>1, <1>3, <1>4, <2>1
<1>9. /\ node[s[1]] \in Arguments /\ Entries(node', Tail(s)) \in Seq(Arguments)
      /\ Entries(node, s) = Both(<<node[s[1]]>>, Entries(node', Tail(s)))
      /\ Entries(node', Tail(s)) = Tail(Entries(node, s))
  BY <1>1, <1>4, <1>8, EntriesTail
<1>10. ASSUME NEW other \in Heads, other # head
       PROVE  Listed(other)' = Listed(other)
  <2> DEFINE u == Ring(links, other)
  <2>1. \A i \in 1..Len(u) : u[i] \in Node /\ node[u[i]].is = Is(other)
    BY <1>2, ListedAre
  <2>2. Listed(other) = Entries(node, u) /\ Listed(other)' = Entries(node', u)
    BY <1>1, <1>10, ListedIs
  <2> HIDE DEF u
  <2>3. \A i \in 1..Len(u) : node'[u[i]] = node[u[i]]
    BY <1>1, <1>3, <1>4, <1>7, <1>10, <2>1, HandlesFacts
  <2> QED BY <2>2, <2>3, EntriesSame
<1>11. \A n \in Node : node'[n] = Free \/ node'[n] \in Arguments
  BY <1>3 DEF Reading
<1>12. node[inx].is = Is(head)
  BY <1>1, <1>4, <1>7
<1> QED BY <1>1, <1>4, <1>5, <1>9, <1>10, <1>11, <1>12

\* The argument that is read is the last of its list.
LEMMA ListedAdd ==
  ASSUME IInv, Reading, phase = "options", optind <= Len(args), Arg.is \in {"env", "script"},
         NEW n, n = CHOOSE d \in Node \ Allocated : TRUE,
         node' = [node EXCEPT ![n] = Arg], links' = Insert(n, ListOf(Arg)), NEW head \in Heads
  PROVE  /\ Listed(head)' = IF head = ListOf(Arg) THEN Append(Listed(head), Arg) ELSE Listed(head)
         /\ \A d \in Node : node'[d] = Free \/ node'[d] \in Arguments
<1>1. /\ n \in Node /\ n \notin Allocated /\ node[n] = Free
      /\ Ring(links', ListOf(Arg)) = Append(Ring(links, ListOf(Arg)), n)
      /\ \A other \in Heads \ {ListOf(Arg)} : Ring(links', other) = Ring(links, other)
  BY OptionAdds
<1>2. DOMAIN node = Node /\ Typed
  BY DEF IInv, Typed
<1>3. node'[n] = Arg /\ \A d \in Node : d # n => node'[d] = node[d]
  BY <1>1, <1>2
<1>4. Arg \in Arguments
  BY <1>2, RestIs
<1> DEFINE s == Ring(links, head)
<1>5. /\ Hold(node, s) /\ \A i \in 1..Len(s) : s[i] \in Node /\ node[s[i]].is = Is(head)
      /\ Listed(head) = Entries(node, s)
  BY ListedAre
<1>6. Listed(head)' = Entries(node', Ring(links', head))
  BY ListedIs
<1>7. Ring(links', head) = IF head = ListOf(Arg) THEN Append(s, n) ELSE s
  BY <1>1
<1> HIDE DEF s
<1>8. \A i \in 1..Len(s) : node'[s[i]] = node[s[i]]
  <2> TAKE i \in 1..Len(s)
  <2>1. s[i] \in Node /\ node[s[i]] # Free
    BY <1>5 DEF Free, Is
  <2>2. s[i] # n
    BY ONLY <1>1, <2>1
  <2> QED BY ONLY <1>3, <2>1, <2>2
<1>9. ASSUME NEW y, y[n] = Arg, \A i \in 1..Len(s) : y[s[i]] = node[s[i]]
      PROVE  /\ Entries(y, Append(s, n)) = Append(Entries(node, s), Arg)
             /\ Entries(y, s) = Entries(node, s)
  <2> DEFINE a == Arg
  <2> HIDE DEF a
  <2>1. a \in Arguments /\ y[n] = a
    BY <1>4, <1>9 DEF a
  <2>2. Entries(y, Append(s, n)) = Append(Entries(node, s), a)
    BY ONLY <1>1, <1>5, <1>9, <2>1, EntriesAppend
  <2>3. Entries(y, s) = Entries(node, s)
    BY ONLY <1>9, EntriesSame
  <2> QED BY <2>2, <2>3 DEF a
<1>10. /\ Entries(node', Append(s, n)) = Append(Entries(node, s), Arg)
       /\ Entries(node', s) = Entries(node, s)
  BY ONLY <1>3, <1>8, <1>9
<1>11. \A d \in Node : node'[d] = Free \/ node'[d] \in Arguments
  BY <1>3, <1>4 DEF Reading
<1> QED BY ONLY <1>5, <1>6, <1>7, <1>10, <1>11

-----------------------------------------------------------------------------
(* Steps of the promise                                                    *)

PromiseStep ==
  [Promise!Do \/ Promise!Skip \/ Promise!Exit]_<<args, Todo, environ, done, phase = "exited">>

\* What is cut out of the effects to come has been reported.
LEMMA Skips ==
  ASSUME UNCHANGED <<args, environ, done>>, phase # "exited", phase' # "exited",
         Cuts(Todo, Todo'), reports' > reports \/ Todo' = Todo
  PROVE  PromiseStep
<1>1. (phase = "exited")' = (phase = "exited")
  OBVIOUS
<1>2. CASE Todo' = Todo
  BY <1>1, <1>2 DEF PromiseStep
<1>3. CASE Todo' # Todo
  <2>1. \E i \in 1..Len(Todo), j \in 0..Len(Todo) :
          i <= j /\ Todo' = SubSeq(Todo, 1, i - 1) \o SubSeq(Todo, j + 1, Len(Todo))
    BY <1>3 DEF Cuts
  <2>2. Promise!Skip
    BY <1>1, <1>3, <2>1 DEF Promise!Skip
  <2> QED BY <2>2 DEF PromiseStep
<1> QED BY <1>2, <1>3

\* What is done is the first of the effects to come.
LEMMA Does ==
  ASSUME UNCHANGED args, phase # "exited", phase' # "exited", NEW effect \in AllEffects,
         Todo' \in Seq(AllEffects), Todo = Both(<<effect>>, Todo'),
         \/ /\ effect.is = "assign" /\ UNCHANGED done
            /\ \E v \in EnvValues(effect.value) : environ' = [environ EXCEPT ![effect.key] = v]
         \/ effect.is # "assign" /\ done' = Append(done, effect) /\ UNCHANGED environ
  PROVE  PromiseStep
<1>1. (phase = "exited")' = (phase = "exited")
  OBVIOUS
<1>2. ASSUME NEW s \in Seq(AllEffects), NEW t, t = <<effect>> \o s
      PROVE  t # <<>> /\ Head(t) = effect /\ Tail(t) = s
  <2> DEFINE one == <<effect>>
  <2>1. one \in Seq(AllEffects) /\ Len(one) = 1 /\ one[1] = effect
    OBVIOUS
  <2> HIDE DEF one
  <2>2. /\ one \o s \in Seq(AllEffects) /\ Len(one \o s) = Len(one) + Len(s)
        /\ \A i \in 1..(Len(one) + Len(s)) :
             (one \o s)[i] = IF i <= Len(one) THEN one[i] ELSE s[i - Len(one)]
    BY <2>1, ConcatProperties
  <2>3. t = one \o s
    BY <1>2 DEF one
  <2>4. /\ t \in Seq(AllEffects) /\ Len(t) = 1 + Len(s) /\ t[1] = effect /\ Len(s) \in Nat
        /\ \A i \in 1..Len(s) : t[i + 1] = s[i]
    BY <2>1, <2>2, <2>3
  <2>5. t # <<>>
    BY <2>4, EmptySeq
  <2>6. /\ Tail(t) \in Seq(AllEffects) /\ Len(Tail(t)) = Len(s)
        /\ \A i \in 1..Len(s) : Tail(t)[i] = s[i]
    BY ONLY <2>4, <2>5
  <2>7. Tail(t) = s
    BY <2>6, SeqEqual
  <2>8. Head(t) = effect
    BY ONLY <2>4, <2>5
  <2> QED BY <2>5, <2>7, <2>8
<1>3. Todo = <<effect>> \o Todo'
  BY DEF Both
<1>4. Todo # <<>> /\ Head(Todo) = effect /\ Todo' = Tail(Todo)
  BY <1>2, <1>3
<1>5. EnvValues(effect.value) = Promise!Meaning(effect.value)
  BY DEF EnvValues, Promise!Meaning
<1>6. Promise!Do
  BY <1>1, <1>4, <1>5 DEF Promise!Do
<1> QED BY <1>6 DEF PromiseStep

\* Reading the options.
LEMMA OptionsRefine ==
  IInv /\ Reading /\ (OptionSet \/ OptionPrint \/ OptionAdd \/ OptionsRead)
    => Reading' /\ PromiseStep
<1> SUFFICES ASSUME IInv, Reading, OptionSet \/ OptionPrint \/ OptionAdd \/ OptionsRead
             PROVE  Reading' /\ PromiseStep
  OBVIOUS
<1>1. /\ phase = "options" /\ phase' \in {"options", "envs"}
      /\ UNCHANGED <<args, input, environ, done>>
  BY DEF OptionSet, OptionPrint, OptionAdd, OptionsRead, NextArg
<1>2. Typed
  BY DEF IInv
<1> DEFINE e == Listed(EnvsHead)
           s == Listed(ScriptsHead)
           more == SubSeq(args, optind + 1, Len(args))
<1>3. /\ e \in Seq(Arguments) /\ s \in Seq(Arguments) /\ Rest \in Seq(Arguments)
      /\ input \in Seq(Inputs) /\ options \in Settable
  BY <1>1, <1>2, ListedAre, RestIs DEF Heads, Reading
<1>4. Todo = ToCome(input, e, Rest, s, options, TRUE)
  BY <1>1, TodoIs DEF EnvsLeft
<1>5. Todo' = ToCome(input, e', Rest', s', options', TRUE)
  BY <1>1, TodoIs DEF EnvsLeft
<1>6. CASE OptionsRead
  <2>1. UNCHANGED <<optind, options, node, links, reports>> /\ optind > Len(args) /\ phase' = "envs"
    BY <1>6 DEF OptionsRead
  <2>2. e' = e /\ s' = s /\ Rest' = Rest
    BY <1>1, <2>1, ListedIs DEF Rest
  <2>3. Reading'
    BY <1>1, <2>1 DEF Reading
  <2>4. Todo' = Todo
    BY <1>4, <1>5, <2>1, <2>2
  <2>5. PromiseStep
    BY <1>1, <2>4, Skips DEF Cuts
  <2> QED BY <2>3, <2>5
<1>7. CASE OptionSet \/ OptionPrint \/ OptionAdd
  <2>1. /\ phase' = "options" /\ optind <= Len(args) /\ optind' = optind + 1
        /\ Arg.is \in {"set", "print", "env", "script"}
    BY <1>7 DEF OptionSet, OptionPrint, OptionAdd, NextArg
  <2>2. /\ Arg \in Arguments /\ more \in Seq(Arguments) /\ Rest = Both(<<Arg>>, more)
        /\ Rest' = more
    BY <1>1, <1>2, <2>1, RestIs DEF Rest
  <2> DEFINE a == Arg
             next == [options EXCEPT ![a.field] = a.value]
  <2> HIDE DEF a, more, e, s
  <2>3. /\ a.is = "set" =>
             next \in Settable /\ Todo = ToCome(input, e, more, s, next, TRUE)
        /\ a.is = "print" => Todo = ToCome(input, e, more, s, options, TRUE)
        /\ a.is = "env" => Todo = ToCome(input, Append(e, a), more, s, options, TRUE)
        /\ a.is = "script" => Todo = ToCome(input, e, more, Append(s, a), options, TRUE)
        /\ a.is \in {"env", "script"} => Cuts(Todo, ToCome(input, e, more, s, options, TRUE))
    <3>1. a \in Arguments /\ Rest = Both(<<a>>, more)
      BY <2>2 DEF a
    <3> DEFINE yes == TRUE
    <3>2. Todo = ToCome(input, e, Rest, s, options, yes)
      BY <1>4
    <3> HIDE DEF yes
    <3>3. Reads(input, e, more, s, options, yes, a, Rest)
      BY ONLY <1>3, <2>2, <3>1, ArgumentRead
    <3> QED BY <3>2, <3>3 DEF yes, Reads
  <2>4. CASE OptionSet
    <3>1. options' = next /\ a.is = "set" /\ UNCHANGED <<node, links>>
      BY <2>4 DEF OptionSet, NextArg, lists, a
    <3>2. e' = e /\ s' = s
      BY <3>1, ListedIs DEF e, s
    <3>3. Todo' = Todo
      BY <1>5, <2>2, <2>3, <3>1, <3>2
    <3>4. Reading'
      BY <1>1, <2>1, <2>3, <3>1 DEF Reading
    <3>5. PromiseStep
      BY <1>1, <3>3, Skips DEF Cuts
    <3> QED BY <3>4, <3>5
  <2>5. CASE OptionPrint
    <3>1. a.is = "print" /\ UNCHANGED <<options, node, links>>
      BY <2>5 DEF OptionPrint, NextArg, lists, a
    <3>2. e' = e /\ s' = s
      BY <3>1, ListedIs DEF e, s
    <3>3. Todo' = Todo
      BY <1>5, <2>2, <2>3, <3>1, <3>2
    <3>4. Reading'
      BY <1>1, <2>1, <3>1 DEF Reading
    <3>5. PromiseStep
      BY <1>1, <3>3, Skips DEF Cuts
    <3> QED BY <3>4, <3>5
  <2>6. CASE OptionAdd
    <3>1. options' = options /\ a.is \in {"env", "script"}
      BY <2>6 DEF OptionAdd, NextArg, a
    <3>2. CASE Fails /\ UNCHANGED <<node, links>>
      <4>1. e' = e /\ s' = s
        BY <3>2, ListedIs DEF e, s
      <4>2. Cuts(Todo, Todo')
        BY <1>5, <2>2, <2>3, <3>1, <4>1
      <4>3. reports' > reports
        BY <1>2, <3>2 DEF Typed, Fails
      <4>4. Reading'
        BY <1>1, <2>1, <3>1, <3>2 DEF Reading
      <4>5. PromiseStep
        BY <1>1, <4>2, <4>3, Skips
      <4> QED BY <4>4, <4>5
    <3>3. CASE ~(Fails /\ UNCHANGED <<node, links>>)
      <4> DEFINE n == CHOOSE d \in Node \ Allocated : TRUE
      <4>1. node' = [node EXCEPT ![n] = Arg] /\ links' = Insert(n, ListOf(Arg))
        BY <2>6, <3>3 DEF OptionAdd
      <4> HIDE DEF n
      <4>2. ASSUME NEW d, d = CHOOSE c \in Node \ Allocated : TRUE,
                   node' = [node EXCEPT ![d] = Arg], links' = Insert(d, ListOf(Arg)),
                   NEW head \in Heads
            PROVE  /\ Listed(head)' =
                        IF head = ListOf(Arg) THEN Append(Listed(head), Arg) ELSE Listed(head)
                   /\ \A b \in Node : node'[b] = Free \/ node'[b] \in Arguments
        <5>1. Arg.is \in {"env", "script"}
          BY <3>1 DEF a
        <5> QED BY <1>1, <2>1, <4>2, <5>1, ListedAdd
      <4>3. ASSUME NEW head \in Heads
            PROVE  /\ Listed(head)' =
                        IF head = ListOf(Arg) THEN Append(Listed(head), Arg) ELSE Listed(head)
                   /\ \A b \in Node : node'[b] = Free \/ node'[b] \in Arguments
        BY <4>1, <4>2 DEF n
      <4>4. /\ e' = IF EnvsHead = ListOf(Arg) THEN Append(e, Arg) ELSE e
            /\ s' = IF ScriptsHead = ListOf(Arg) THEN Append(s, Arg) ELSE s
            /\ \A b \in Node : node'[b] = Free \/ node'[b] \in Arguments
        BY <4>3 DEF e, s, Heads
      <4>5. /\ e' = IF a.is = "env" THEN Append(e, a) ELSE e
            /\ s' = IF a.is = "env" THEN s ELSE Append(s, a)
        BY <4>4, HandlesFacts DEF ListOf, a
      <4>6. Todo' = Todo
        <5>1. CASE a.is = "env"
          BY <1>5, <2>2, <2>3, <3>1, <4>5, <5>1
        <5>2. CASE a.is = "script"
          BY <1>5, <2>2, <2>3, <3>1, <4>5, <5>2
        <5> QED BY <3>1, <5>1, <5>2
      <4>7. Reading'
        BY <1>1, <2>1, <3>1, <4>4 DEF Reading
      <4>8. PromiseStep
        BY <1>1, <4>6, Skips DEF Cuts
      <4> QED BY <4>7, <4>8
    <3> QED BY <3>2, <3>3
  <2> QED BY <1>7, <2>4, <2>5, <2>6
<1> QED BY <1>6, <1>7

\* What a loop is at is the first in its list.
LEMMA ListedFirst ==
  ASSUME IInv, Reading, phase \in {"envs", "env", "scripts", "script"}, inx # LoopHead,
         NEW head \in Heads, head = LoopHead
  PROVE  /\ node[inx] \in Arguments /\ node[inx].is = Is(head)
         /\ Tail(Listed(head)) \in Seq(Arguments)
         /\ Listed(head) = Both(<<node[inx]>>, Tail(Listed(head)))
<1> DEFINE s == Ring(links, head)
<1>1. Holds(links, head, s) /\ inx = links.next[head]
  BY DEF IInv, Whole, Loops, Looping
<1>2. /\ Hold(node, s) /\ \A i \in 1..Len(s) : s[i] \in Node /\ node[s[i]].is = Is(head)
      /\ Listed(head) = Entries(node, s)
  BY ListedAre
<1> HIDE DEF s
<1>3. 1 \in 1..Len(s) /\ inx = s[1]
  BY <1>1, FirstEntry
<1>4. s # <<>>
  BY <1>3, EmptySeq
<1>5. /\ node[s[1]] \in Arguments /\ Entries(node, Tail(s)) \in Seq(Arguments)
      /\ Entries(node, s) = Both(<<node[s[1]]>>, Entries(node, Tail(s)))
      /\ Entries(node, Tail(s)) = Tail(Entries(node, s))
  BY <1>2, <1>4, EntriesTail
<1> QED BY <1>2, <1>3, <1>5

\* The line at which a file is.
LEMMA InputFirst ==
  ASSUME NEW s \in Seq(Inputs), s # <<>>
  PROVE  Head(s) \in Inputs /\ Tail(s) \in Seq(Inputs) /\ s = Both(<<Head(s)>>, Tail(s))
BY DEF Both

\* Loading the environment files.
LEMMA EnvsRefine ==
  /\ IInv /\ Reading
  /\ EnvUnopened \/ EnvOpened \/ EnvAssign \/ EnvError \/ EnvLoaded \/ EnvsLoaded
  => Reading' /\ PromiseStep
<1> SUFFICES ASSUME IInv, Reading,
                    EnvUnopened \/ EnvOpened \/ EnvAssign \/ EnvError \/ EnvLoaded \/ EnvsLoaded
             PROVE  Reading' /\ PromiseStep
  OBVIOUS
<1>1. /\ phase \in {"envs", "env"} /\ phase' \in {"envs", "env", "scripts"}
      /\ UNCHANGED <<args, optind, options, done>>
  BY DEF EnvUnopened, EnvOpened, EnvAssign, EnvError, EnvLoaded, EnvsLoaded
<1>2. Typed /\ LoopHead = EnvsHead
  BY <1>1 DEF IInv, LoopHead, InEnvs
<1> DEFINE e == Listed(EnvsHead)
           s == Listed(ScriptsHead)
           a == node[inx]
           yes == TRUE
<1>3. /\ e \in Seq(Arguments) /\ s \in Seq(Arguments) /\ Rest \in Seq(Arguments)
      /\ input \in Seq(Inputs) /\ options \in Settable /\ Rest' = Rest
      /\ optind' > Len(args')
  BY <1>1, <1>2, ListedAre, RestIs DEF Heads, Reading, Rest
<1>4. /\ phase = "envs" => input = <<>> /\ Todo = ToCome(<<>>, e, Rest, s, options, yes)
      /\ phase = "env" => Todo = ToCome(input, Tail(e), Rest, s, options, yes)
  BY <1>1, TodoIs DEF EnvsLeft, Reading
<1>5. /\ phase' # "env" => Todo' = ToCome(input', e', Rest, s', options, yes)
      /\ phase' = "env" => Todo' = ToCome(input', Tail(e'), Rest, s', options, yes)
  BY <1>1, <1>3, TodoIs DEF EnvsLeft
<1>6. inx # EnvsHead =>
        /\ a \in Arguments /\ a.is = "env" /\ Tail(e) \in Seq(Arguments)
        /\ e = Both(<<a>>, Tail(e))
  <2> SUFFICES ASSUME inx # EnvsHead
               PROVE  /\ a \in Arguments /\ a.is = "env" /\ Tail(e) \in Seq(Arguments)
                      /\ e = Both(<<a>>, Tail(e))
    OBVIOUS
  <2>1. EnvsHead \in Heads /\ EnvsHead = LoopHead /\ Is(EnvsHead) = "env"
    BY <1>2 DEF Heads, Is
  <2> QED BY <1>1, <2>1, ListedFirst
<1>7. phase = "env" => inx # EnvsHead
  BY <1>1, <1>2 DEF IInv, Loops, Looping
<1>8. ASSUME DropNode, phase' = "envs", inx # EnvsHead
      PROVE  /\ e' = Tail(e) /\ s' = s
             /\ \A n \in Node : node'[n] = Free \/ node'[n] \in Arguments
  <2>1. /\ EnvsHead \in Heads /\ EnvsHead = LoopHead /\ ScriptsHead \in Heads \ {EnvsHead}
        /\ phase' = IF InEnvs THEN "envs" ELSE "scripts"
    BY <1>1, <1>2, <1>8, HandlesFacts DEF Heads, InEnvs
  <2>2. /\ Listed(EnvsHead)' = Tail(Listed(EnvsHead))
        /\ \A other \in Heads \ {EnvsHead} :
             Listed(other)' = Listed(other) /\ Ring(links', other) = Ring(links, other)
        /\ \A n \in Node : node'[n] = Free \/ node'[n] \in Arguments
    BY <1>1, <1>8, <2>1, ListedDrop
  <2> QED BY <2>1, <2>2
<1>9. UNCHANGED <<node, links>> => e' = e /\ s' = s
  BY ListedIs
<1> HIDE DEF e, s, a, yes
<1>10. input # <<>> =>
         Head(input) \in Inputs /\ Tail(input) \in Seq(Inputs)
         /\ input = Both(<<Head(input)>>, Tail(input))
  BY <1>3, InputFirst
<1>11. CASE EnvUnopened
  <2>1. /\ phase = "envs" /\ phase' = "envs" /\ inx # EnvsHead /\ Fails /\ DropNode
        /\ UNCHANGED <<input, environ>>
    BY <1>11 DEF EnvUnopened
  <2>2. Cuts(ToCome(input, e, Rest, s, options, yes), ToCome(input, Tail(e), Rest, s, options, yes))
    BY <1>3, <1>6, <2>1, FileTaken
  <2>3. Cuts(Todo, Todo')
    BY <1>4, <1>5, <1>8, <2>1, <2>2
  <2>4. reports' > reports
    BY <1>2, <2>1 DEF Typed, Fails
  <2>5. Reading'
    BY <1>1, <1>3, <1>4, <1>8, <2>1 DEF Reading
  <2>6. PromiseStep
    BY <1>1, <2>1, <2>3, <2>4, Skips
  <2> QED BY <2>5, <2>6
<1>12. CASE EnvOpened
  <2>1. /\ phase = "envs" /\ phase' = "env" /\ inx # EnvsHead /\ input' = EnvInput(a.str)
        /\ UNCHANGED <<node, links, environ, reports>>
    BY <1>12 DEF EnvOpened, lists, a
  <2> DEFINE left == Tail(e)
  <2>2. a \in Arguments /\ a.is = "env" /\ left \in Seq(Arguments) /\ e = Both(<<a>>, left)
    BY <1>6, <2>1
  <2> HIDE DEF left
  <2>3. /\ EnvInput(a.str) \in Seq(Inputs)
        /\ ToCome(<<>>, e, Rest, s, options, yes) =
             ToCome(EnvInput(a.str), left, Rest, s, options, yes)
    BY <1>3, <2>2, FileTaken
  <2>4. Todo' = Todo
    BY <1>4, <1>5, <1>9, <2>1, <2>3 DEF left
  <2>5. Reading'
    BY <1>1, <1>3, <2>1, <2>3 DEF Reading
  <2>6. PromiseStep
    BY <1>1, <2>1, <2>4, Skips DEF Cuts
  <2> QED BY <2>5, <2>6
<1>13. ASSUME phase = "env", input # <<>>
       PROVE  LET left == ToCome(Tail(input), Tail(e), Rest, s, options, yes)
              IN  /\ left \in Seq(AllEffects)
                  /\ Head(input).is = "assign" =>
                       Head(input) \in AllEffects /\ Todo = Both(<<Head(input)>>, left)
                  /\ Cuts(Todo, left)
                  /\ Cuts(Todo, ToCome(<<>>, Tail(e), Rest, s, options, yes))
  <2> DEFINE l == Head(input)
             lines == Tail(input)
             left == Tail(e)
  <2>1. /\ l \in Inputs /\ lines \in Seq(Inputs) /\ input = Both(<<l>>, lines)
        /\ left \in Seq(Arguments) /\ Todo = ToCome(input, left, Rest, s, options, yes)
    BY <1>4, <1>6, <1>7, <1>10, <1>13
  <2> HIDE DEF l, lines, left
  <2>2. LET all == ToCome(input, left, Rest, s, options, yes)
            others == ToCome(lines, left, Rest, s, options, yes)
        IN  /\ others \in Seq(AllEffects)
            /\ l.is = "assign" => l \in AllEffects /\ all = Both(<<l>>, others)
            /\ Cuts(all, others)
            /\ Cuts(all, ToCome(<<>>, left, Rest, s, options, yes))
    BY <1>3, <2>1, LineRead
  <2> QED BY <2>1, <2>2 DEF l, lines, left
<1>14. CASE EnvAssign
  <2>1. /\ phase = "env" /\ phase' = "env" /\ input # <<>> /\ Head(input).is = "assign"
        /\ input' = Tail(input) /\ UNCHANGED <<node, links>>
        /\ \/ EnvSet(Head(input).key, Head(input).value) /\ Works
           \/ Fails /\ UNCHANGED environ
    BY <1>14 DEF EnvAssign, lists
  <2>2. Todo' = ToCome(Tail(input), Tail(e), Rest, s, options, yes)
    BY <1>5, <1>9, <2>1
  <2>3. Reading'
    BY <1>1, <1>3, <1>10, <2>1 DEF Reading
  <2>4. CASE EnvSet(Head(input).key, Head(input).value)
    <3> DEFINE l == Head(input)
    <3>1. /\ l \in AllEffects /\ Todo' \in Seq(AllEffects) /\ Todo = Both(<<l>>, Todo')
          /\ l.is = "assign"
      BY <1>13, <2>1, <2>2
    <3>2. \E v \in EnvValues(l.value) : environ' = [environ EXCEPT ![l.key] = v]
      BY <2>4 DEF EnvSet
    <3> HIDE DEF l
    <3>3. PromiseStep
      BY <1>1, <2>1, <3>1, <3>2, Does
    <3> QED BY <2>3, <3>3
  <2>5. CASE Fails /\ UNCHANGED environ
    <3>1. Cuts(Todo, Todo')
      BY <1>13, <2>1, <2>2
    <3>2. reports' > reports
      BY <1>2, <2>5 DEF Typed, Fails
    <3>3. PromiseStep
      BY <1>1, <2>1, <2>5, <3>1, <3>2, Skips
    <3> QED BY <2>3, <3>3
  <2> QED BY <2>1, <2>4, <2>5
<1>15. CASE EnvError
  <2>1. /\ phase = "env" /\ phase' = "envs" /\ input # <<>> /\ Reported /\ DropNode
        /\ input' = <<>> /\ UNCHANGED environ
    BY <1>15 DEF EnvError
  <2>2. Cuts(Todo, Todo')
    BY <1>5, <1>7, <1>8, <1>13, <2>1
  <2>3. reports' > reports
    BY <1>2, <2>1 DEF Typed, Reported
  <2>4. <<>> \in Seq(Inputs)
    OBVIOUS
  <2>5. Reading'
    BY <1>1, <1>3, <1>7, <1>8, <2>1, <2>4 DEF Reading
  <2>6. PromiseStep
    BY <1>1, <2>1, <2>2, <2>3, Skips
  <2> QED BY <2>5, <2>6
<1>16. CASE EnvLoaded
  <2>1. /\ phase = "env" /\ phase' = "envs" /\ input = <<>> /\ DropNode
        /\ UNCHANGED <<input, environ>>
    BY <1>16 DEF EnvLoaded
  <2>2. Todo' = Todo
    BY <1>4, <1>5, <1>7, <1>8, <2>1
  <2>3. Reading'
    BY <1>1, <1>3, <1>7, <1>8, <2>1 DEF Reading
  <2>4. PromiseStep
    BY <1>1, <2>1, <2>2, Skips DEF Cuts
  <2> QED BY <2>3, <2>4
<1>17. CASE EnvsLoaded
  <2>1. /\ phase = "envs" /\ phase' = "scripts" /\ inx = EnvsHead
        /\ UNCHANGED <<node, links, input, environ>>
    BY <1>17 DEF EnvsLoaded
  <2>2. links.next[EnvsHead] = EnvsHead /\ EnvsHead \in Heads
    BY <1>2, <2>1 DEF IInv, Loops, Looping, Heads
  <2>3. Ring(links, EnvsHead) = <<>>
    BY <2>2, NothingListed
  <2>4. Ring(links, EnvsHead)' = <<>>
    BY <2>1, <2>3 DEF Ring, Walk
  <2>5. Todo' = Todo
    BY <1>4, <1>5, <1>9, <2>1
  <2>6. Reading'
    BY <1>1, <1>3, <1>4, <2>1, <2>4 DEF Reading
  <2>7. PromiseStep
    BY <1>1, <2>1, <2>5, Skips DEF Cuts
  <2> QED BY <2>6, <2>7
<1> QED BY <1>11, <1>12, <1>14, <1>15, <1>16, <1>17

\* When the scripts run, only they and the dump are to come.
LEMMA ScriptsLeft ==
  ASSUME IInv, Reading, phase \in {"scripts", "script", "cleanup"}
  PROVE  /\ input = <<>> /\ Rest = <<>> /\ Listed(EnvsHead) = <<>>
         /\ Listed(ScriptsHead) \in Seq(Arguments) /\ options \in Settable
         /\ Todo = ToCome(<<>>, <<>>, <<>>, Listed(ScriptsHead), options, phase # "cleanup")
<1>1. input = <<>> /\ options \in Settable /\ Ring(links, EnvsHead) = <<>>
  BY DEF Reading
<1>2. Rest = <<>>
  BY RestIs DEF IInv, Reading
<1>3. Listed(EnvsHead) = <<>>
  <2>1. Listed(EnvsHead) = Entries(node, <<>>)
    BY <1>1, ListedIs
  <2> QED BY <2>1 DEF Entries
<1>4. Listed(ScriptsHead) \in Seq(Arguments)
  BY ListedAre DEF Heads
<1>5. Todo = ToCome(<<>>, <<>>, <<>>, Listed(ScriptsHead), options, phase # "cleanup")
  BY <1>1, <1>2, <1>3, TodoIs DEF EnvsLeft
<1> QED BY <1>1, <1>2, <1>3, <1>4, <1>5

\* Running the scripts.
LEMMA ScriptsRefine ==
  /\ IInv /\ Reading
  /\ NoScanner \/ ScriptUnopened \/ ScriptOpened \/ ScriptDone \/ ScriptsDone
  => Reading' /\ PromiseStep
<1> SUFFICES ASSUME IInv, Reading,
                    NoScanner \/ ScriptUnopened \/ ScriptOpened \/ ScriptDone \/ ScriptsDone
             PROVE  Reading' /\ PromiseStep
  OBVIOUS
<1>1. /\ phase \in {"scripts", "script"} /\ phase' \in {"scripts", "script", "cleanup", "exited"}
      /\ UNCHANGED <<args, optind, options, input, environ>>
  BY DEF NoScanner, ScriptUnopened, ScriptOpened, ScriptDone, ScriptsDone
<1>2. Typed /\ LoopHead = ScriptsHead
  BY <1>1 DEF IInv, LoopHead, InEnvs
<1> DEFINE e == Listed(EnvsHead)
           s == Listed(ScriptsHead)
           a == node[inx]
           yes == TRUE
<1>3. /\ input = <<>> /\ Rest = <<>> /\ e = <<>> /\ s \in Seq(Arguments) /\ options \in Settable
      /\ Todo = ToCome(<<>>, <<>>, <<>>, s, options, yes)
      /\ optind > Len(args) /\ input \in Seq(Inputs) /\ Ring(links, EnvsHead) = <<>>
  BY <1>1, ScriptsLeft DEF Reading
<1>4. Rest' = <<>>
  BY <1>1, <1>3 DEF Rest
<1>5. e' = e /\ phase' \in {"scripts", "script"} =>
        Todo' = ToCome(<<>>, <<>>, <<>>, s', options, yes)
  BY <1>1, <1>3, <1>4, TodoIs DEF EnvsLeft
<1>6. e' = e /\ phase' = "cleanup" => Todo' = ToCome(<<>>, <<>>, <<>>, s', options, ~yes)
  BY <1>1, <1>3, <1>4, TodoIs DEF EnvsLeft
<1>7. ASSUME DropNode, phase' = "scripts", inx # ScriptsHead
      PROVE  /\ a \in Arguments /\ a.is = "script"
             /\ s' \in Seq(Arguments) /\ s = Both(<<a>>, s') /\ e' = e
             /\ Ring(links, EnvsHead)' = <<>>
             /\ \A n \in Node : node'[n] = Free \/ node'[n] \in Arguments
  <2>1. /\ ScriptsHead \in Heads /\ ScriptsHead = LoopHead /\ EnvsHead \in Heads \ {ScriptsHead}
        /\ phase' = IF InEnvs THEN "envs" ELSE "scripts"
        /\ Is(ScriptsHead) = "script"
    BY <1>1, <1>2, <1>7, HandlesFacts DEF Heads, InEnvs, Is
  <2>2. /\ a \in Arguments /\ a.is = Is(ScriptsHead)
        /\ Listed(ScriptsHead)' \in Seq(Arguments)
        /\ Listed(ScriptsHead) = Both(<<a>>, Listed(ScriptsHead)')
        /\ \A other \in Heads \ {ScriptsHead} :
             Listed(other)' = Listed(other) /\ Ring(links', other) = Ring(links, other)
        /\ \A n \in Node : node'[n] = Free \/ node'[n] \in Arguments
    BY <1>1, <1>7, <2>1, ListedDrop
  <2>3. Ring(links', EnvsHead) = <<>>
    BY <1>3, <2>1, <2>2
  <2>4. Ring(links, EnvsHead)' = <<>>
    BY <2>3 DEF Ring, Walk
  <2> QED BY <2>1, <2>2, <2>4
<1>8. UNCHANGED <<node, links>> => e' = e /\ s' = s
  BY ListedIs
<1>9. UNCHANGED links => \A head : Ring(links, head)' = Ring(links, head)
  BY DEF Ring, Walk
<1>10. phase = "script" => inx # ScriptsHead
  BY <1>1, <1>2 DEF IInv, Loops, Looping
<1>11. \A n \in Node : node[n] = Free \/ node[n] \in Arguments
  BY DEF Reading
<1> HIDE DEF e, s, a, yes
<1>12. CASE NoScanner
  <2>1. /\ phase = "scripts" /\ phase' = "exited" /\ Fails /\ UNCHANGED <<node, done>>
    BY <1>12 DEF NoScanner, lists
  <2>2. Todo' = <<>>
    BY <2>1, TodoIs
  <2>3. reports' > reports
    BY <1>2, <2>1 DEF Typed, Fails
  <2>4. Promise!Exit
    BY <1>1, <2>1, <2>2, <2>3 DEF Promise!Exit
  <2>5. Reading'
    BY <1>1, <1>3, <1>11, <2>1 DEF Reading
  <2> QED BY <2>4, <2>5 DEF PromiseStep
<1>13. ASSUME DropNode, phase' = "scripts", inx # ScriptsHead
       PROVE  /\ Todo' \in Seq(AllEffects) /\ Cuts(Todo, Todo')
              /\ Run(a, options) \in AllEffects /\ Todo = Both(<<Run(a, options)>>, Todo')
              /\ Reading'
  <2> DEFINE more == s'
  <2>1. /\ a \in Arguments /\ a.is = "script" /\ more \in Seq(Arguments) /\ s = Both(<<a>>, more)
        /\ Todo' = ToCome(<<>>, <<>>, <<>>, more, options, yes)
    BY <1>5, <1>7, <1>13
  <2> HIDE DEF more
  <2>2. LET all == ToCome(<<>>, <<>>, <<>>, s, options, yes)
            left == ToCome(<<>>, <<>>, <<>>, more, options, yes)
        IN  /\ left \in Seq(AllEffects) /\ Cuts(all, left)
            /\ a.is = "script" =>
                 Run(a, options) \in AllEffects /\ all = Both(<<Run(a, options)>>, left)
    BY <1>3, <2>1, ScriptTaken
  <2>3. Reading'
    BY <1>1, <1>3, <1>7, <1>13 DEF Reading
  <2> QED BY <1>3, <2>1, <2>2, <2>3
<1>14. CASE ScriptUnopened
  <2>1. /\ phase = "scripts" /\ phase' = "scripts" /\ inx # ScriptsHead /\ Fails /\ DropNode
        /\ UNCHANGED done
    BY <1>14 DEF ScriptUnopened
  <2>2. reports' > reports
    BY <1>2, <2>1 DEF Typed, Fails
  <2>3. Reading' /\ Cuts(Todo, Todo')
    BY <1>13, <2>1
  <2>4. PromiseStep
    BY <1>1, <2>1, <2>2, <2>3, Skips
  <2> QED BY <2>3, <2>4
<1>15. CASE ScriptOpened
  <2>1. /\ phase = "scripts" /\ phase' = "script" /\ UNCHANGED <<node, links, done>>
    BY <1>15 DEF ScriptOpened, lists
  <2>2. Todo' = Todo
    BY <1>3, <1>5, <1>8, <2>1
  <2>3. Reading'
    BY <1>1, <1>3, <1>9, <1>11, <2>1 DEF Reading
  <2>4. PromiseStep
    BY <1>1, <2>1, <2>2, Skips DEF Cuts
  <2> QED BY <2>3, <2>4
<1>16. CASE ScriptDone
  <2>1. /\ phase = "script" /\ phase' = "scripts" /\ inx # ScriptsHead /\ DropNode
        /\ \/ done' = Append(done, Running) /\ Works
           \/ Reported /\ UNCHANGED done
    BY <1>10, <1>16 DEF ScriptDone
  <2>2. Running = Run(a, options) /\ Run(a, options).is = "run"
    BY DEF Running, a, Run
  <2>3. CASE done' = Append(done, Running)
    <3> DEFINE r == Run(a, options)
    <3>1. /\ r \in AllEffects /\ Todo' \in Seq(AllEffects) /\ Todo = Both(<<r>>, Todo')
          /\ r.is # "assign" /\ done' = Append(done, r)
      BY <1>13, <2>1, <2>2, <2>3
    <3> HIDE DEF r
    <3>2. PromiseStep
      BY <1>1, <2>1, <3>1, Does
    <3> QED BY <1>13, <2>1, <3>2
  <2>4. CASE Reported /\ UNCHANGED done
    <3>1. reports' > reports
      BY <1>2, <2>4 DEF Typed, Reported
    <3>2. PromiseStep
      BY <1>1, <1>13, <2>1, <2>4, <3>1, Skips
    <3> QED BY <1>13, <2>1, <3>2
  <2> QED BY <2>1, <2>3, <2>4
<1>17. CASE ScriptsDone
  <2>1. /\ phase = "scripts" /\ phase' = "cleanup" /\ inx = ScriptsHead
        /\ done' = IF options.dump THEN Append(done, [is |-> "dump"]) ELSE done
        /\ UNCHANGED <<node, links>>
    BY <1>17 DEF ScriptsDone, lists
  <2>2. links.next[ScriptsHead] = ScriptsHead /\ ScriptsHead \in Heads
    BY <1>2, <2>1 DEF IInv, Loops, Looping, Heads
  <2>3. Ring(links, ScriptsHead) = <<>>
    BY <2>2, NothingListed
  <2>4. s = <<>>
    <3>1. s = Entries(node, <<>>)
      BY <2>3, ListedIs DEF s
    <3> QED BY <3>1 DEF Entries
  <2>5. Todo = DumpOf(yes, options)
    BY <1>3, <2>4, NothingElse
  <2>6. Todo' = <<>>
    <3> DEFINE no == ~yes
    <3>1. Todo' = ToCome(<<>>, <<>>, <<>>, <<>>, options, no)
      BY <1>6, <1>8, <2>1, <2>4
    <3>2. ~no
      BY DEF yes
    <3> HIDE DEF no
    <3>3. Todo' = DumpOf(no, options)
      BY <1>3, <3>1, NothingElse
    <3> QED BY <3>2, <3>3 DEF DumpOf
  <2>7. Reading'
    BY <1>1, <1>3, <1>9, <1>11, <2>1, <2>3 DEF Reading
  <2>8. CASE options.dump
    <3> DEFINE d == [is |-> "dump"]
    <3>1. Todo = <<d>>
      BY <2>5, <2>8 DEF DumpOf, DumpEffects, yes
    <3>2. Todo = Both(<<d>>, Todo')
      <4>1. <<d>> \o <<>> = <<d>>
        OBVIOUS
      <4> QED BY <2>6, <3>1, <4>1 DEF Both
    <3>3. d \in AllEffects /\ d.is # "assign" /\ done' = Append(done, d)
      BY <2>1, <2>8 DEF AllEffects
    <3>4. Todo' \in Seq(AllEffects)
      BY <2>6
    <3> HIDE DEF d
    <3>5. PromiseStep
      BY <1>1, <2>1, <3>2, <3>3, <3>4, Does
    <3> QED BY <2>7, <3>5
  <2>9. CASE ~options.dump
    <3>1. Todo = <<>>
      BY <2>5, <2>9 DEF DumpOf, DumpEffects
    <3>2. PromiseStep
      BY <1>1, <2>1, <2>6, <2>9, <3>1, Skips DEF Cuts
    <3> QED BY <2>7, <3>2
  <2> QED BY <2>8, <2>9
<1> QED BY <1>12, <1>14, <1>15, <1>16, <1>17

\* The end.
LEMMA CleanupRefines == IInv /\ Reading /\ Cleanup => Reading' /\ PromiseStep
<1> SUFFICES ASSUME IInv, Reading, Cleanup PROVE Reading' /\ PromiseStep
  OBVIOUS
<1>1. /\ phase = "cleanup" /\ phase' = "exited"
      /\ UNCHANGED <<args, optind, options, input, environ, done>>
      /\ \A n \in Node : node'[n] = Free \/ node'[n] = node[n]
  BY DEF Cleanup
<1>2. /\ Ring(links, ScriptsHead) = <<>> /\ options \in Settable
      /\ Todo = ToCome(<<>>, <<>>, <<>>, Listed(ScriptsHead), options, FALSE)
  BY <1>1, ScriptsLeft DEF Reading
<1>3. Listed(ScriptsHead) = <<>>
  <2>1. Listed(ScriptsHead) = Entries(node, <<>>)
    BY <1>2, ListedIs
  <2> QED BY <2>1 DEF Entries
<1>4. Todo = <<>>
  <2> DEFINE no == FALSE
  <2>1. Todo = ToCome(<<>>, <<>>, <<>>, <<>>, options, no)
    BY <1>2, <1>3
  <2>2. ~no
    OBVIOUS
  <2> HIDE DEF no
  <2>3. Todo = DumpOf(no, options)
    BY <1>2, <2>1, NothingElse
  <2> QED BY <2>2, <2>3 DEF DumpOf
<1>5. Todo' = <<>>
  BY <1>1, TodoIs
<1>6. Promise!Exit
  BY <1>1, <1>4, <1>5 DEF Promise!Exit
<1>7. Reading'
  BY <1>1 DEF Reading
<1> QED BY <1>6, <1>7 DEF PromiseStep

\* Every step of main is one that the command line promises, or none.
LEMMA NextRefines == IInv /\ Reading /\ [Next]_vars => Reading' /\ PromiseStep
<1> SUFFICES ASSUME IInv, Reading, [Next]_vars PROVE Reading' /\ PromiseStep
  OBVIOUS
<1>1. CASE Exited \/ UNCHANGED vars
  <2>1. UNCHANGED <<phase, args, optind, options, node, links, input, environ, done>>
    BY <1>1 DEF Exited, vars, lists
  <2>2. \A head : Ring(links, head)' = Ring(links, head)
    BY <2>1 DEF Ring, Walk
  <2>3. Reading'
    BY <2>1, <2>2 DEF Reading
  <2>4. \A head : Listed(head)' = Listed(head)
    BY <2>1, <2>2 DEF Listed
  <2>5. Todo' = Todo
    BY <2>1, <2>4 DEF Todo
  <2>6. (phase = "exited")' = (phase = "exited")
    BY <2>1
  <2> QED BY <2>1, <2>3, <2>5, <2>6 DEF PromiseStep
<1> QED BY <1>1, OptionsRefine, EnvsRefine, ScriptsRefine, CleanupRefines DEF Next

\* Before anything is read, what is to come is what the command line asks for.
LEMMA InitRefines == Init => Reading /\ Promise!Init
<1> SUFFICES ASSUME Init PROVE Reading /\ Promise!Init
  OBVIOUS
<1>1. /\ IInv /\ phase = "options" /\ options = Default /\ input = <<>> /\ optind = 1
      /\ args \in CommandLines /\ environ \in Environments /\ done = <<>> /\ reports = 0
      /\ \A n \in Node : node[n] = Free
  BY InitIInv DEF Init
<1>2. Default \in Settable
  <2>1. Default \in [DOMAIN Default -> Values]
    <3>1. Default = [field \in DOMAIN Default |-> Default[field]]
      BY DEF Default
    <3>2. \A field \in DOMAIN Default : Default[field] \in Values
      BY DEF Values
    <3> HIDE DEF Default
    <3> QED BY <3>1, <3>2
  <2> QED BY <2>1 DEF Settable
<1>3. Reading
  BY <1>1, <1>2 DEF Reading
<1>4. ASSUME NEW head \in Heads PROVE Listed(head) = <<>>
  <2>1. links.next[head] = head
    BY DEF Init, Heads
  <2>2. Ring(links, head) = <<>>
    BY <1>1, <2>1, NothingListed
  <2>3. Listed(head) = Entries(node, <<>>)
    BY <2>2, ListedIs
  <2> QED BY <2>3 DEF Entries
<1>5. args \in Seq(Arguments)
  BY <1>1, LineArguments
<1>6. SubSeq(args, 1, Len(args)) = args
  BY <1>5
<1>7. Listed(EnvsHead) = <<>> /\ Listed(ScriptsHead) = <<>>
  BY <1>4 DEF Heads
<1>8. Todo = Effects(Default, args)
  <2>1. <<>> \o args = args
    BY <1>5, ConcatEmptySeq
  <2>2. Todo = Assignments(<<>>) \o EnvEffects(args) \o RunEffects(args, Settings(Default, args))
                 \o DumpEffects(Settings(Default, args))
    BY <1>1, <1>6, <1>7, <2>1 DEF Todo
  <2>3. Assignments(<<>>) = <<>> /\ EnvEffects(args) \in Seq(AllEffects)
    BY <1>5, AssignmentsParts, EnvEffectsParts
  <2>4. <<>> \o EnvEffects(args) = EnvEffects(args)
    BY <2>3, ConcatEmptySeq
  <2> QED BY <2>2, <2>3, <2>4 DEF Effects
<1>9. Promise!Effects(Default, args) = Effects(Default, args)
  BY Zenon DEF Promise!Effects, Effects, Promise!Settings, Settings, Promise!Max, Max,
       Promise!EnvEffects, EnvEffects, Promise!EnvEffect, EnvEffect,
       Promise!Assignments, Assignments, Promise!Assignment, Assignment,
       Promise!RunEffects, RunEffects, Promise!RunEffect, RunEffect, Promise!Run, Run,
       Promise!DumpEffects, DumpEffects
<1>10. Promise!Init
  BY <1>1, <1>8, <1>9 DEF Promise!Init
<1> QED BY <1>3, <1>10

\* main.c:56, main.c:73: the program does what its command line promises.
THEOREM CommandLineKept == Spec => RunsCommandLine
<1>1. Init => IInv /\ Reading /\ Promise!Init
  BY InitIInv, InitRefines
<1>2. IInv /\ Reading /\ [Next]_vars => IInv' /\ Reading' /\ PromiseStep
  BY NextIInv, NextRefines
<1> QED BY <1>1, <1>2, PTL DEF Spec, RunsCommandLine, Promise!Spec, PromiseStep

=============================================================================
