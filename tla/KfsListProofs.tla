---------------------------- MODULE KfsListProofs ----------------------------
(***************************************************************************)
(* The operations of ll.h on rings of pointers do what a list is for: each *)
(* maps to an operation on sequences, and leaves other lists alone.        *)
(***************************************************************************)
EXTENDS KfsList, TLAPS

\* The links of a set of nodes.
Links(Node) == [next: [Node -> Node \cup {NULL}], prev: [Node -> Node \cup {NULL}]]

\* KFS_LST_INIT keeps links what they are.
LEMMA InitTyped ==
  ASSUME NEW Node, NEW m \in Links(Node), NEW n \in Node
  PROVE  ListInit(m, n) \in Links(Node)
BY DEF Links, ListInit

\* list_add keeps links what they are.
LEMMA AddTyped ==
  ASSUME NEW Node, NEW m \in Links(Node), NEW n \in Node, NEW h \in Node,
         m.next[h] \in Node
  PROVE  ListAdd(m, n, h) \in Links(Node)
BY DEF Links, ListAdd, ListInsert

\* list_add_tail keeps links what they are.
LEMMA AddTailTyped ==
  ASSUME NEW Node, NEW m \in Links(Node), NEW n \in Node, NEW h \in Node,
         m.prev[h] \in Node
  PROVE  ListAddTail(m, n, h) \in Links(Node)
BY DEF Links, ListAddTail, ListInsert

\* list_del keeps links what they are.
LEMMA DelTyped ==
  ASSUME NEW Node, NEW m \in Links(Node), NEW n \in Node, Deletable(m, n)
  PROVE  ListDel(m, n) \in Links(Node)
BY DEF Links, ListDel, ListJoinNodes, Deletable

\* A head that was just set up is the empty list.
LEMMA InitIsEmpty ==
  ASSUME NEW Node, NEW m \in Links(Node), NEW h \in Node
  PROVE  IsList(ListInit(m, h), h, <<>>)
BY DEF Links, ListInit, IsList, RingAt

\* Links that agree on the nodes of a list represent the same list.
LEMMA SameLinks ==
  ASSUME NEW m, NEW k, NEW h, NEW s, IsList(m, h, s), Len(s) \in Nat,
         m.next[h] = k.next[h], m.prev[h] = k.prev[h],
         \A i \in 1..Len(s) : m.next[s[i]] = k.next[s[i]] /\ m.prev[s[i]] = k.prev[s[i]]
  PROVE  IsList(k, h, s)
<1>1. \A i \in 0..(Len(s) + 1) :
        /\ k.next[RingAt(h, s, i)] = m.next[RingAt(h, s, i)]
        /\ k.prev[RingAt(h, s, i)] = m.prev[RingAt(h, s, i)]
  BY DEF RingAt
<1> QED
  BY <1>1 DEF IsList

\* list_add puts a node in front of the others.
THEOREM AddInFront ==
  ASSUME NEW Node, NULL \notin Node, NEW m \in Links(Node), NEW h \in Node,
         NEW s \in Seq(Node), IsList(m, h, s),
         NEW n \in Node, n # h, \A i \in 1..Len(s) : s[i] # n
  PROVE  IsList(ListAdd(m, n, h), h, <<n>> \o s)
<1> DEFINE t == <<n>> \o s
           k == ListAdd(m, n, h)
           first == RingAt(h, s, 1)
<1>1. m.next[h] = first /\ first \in Node /\ first # n
  BY DEF IsList, RingAt
<1>2. /\ t \in Seq(Node) /\ Len(t) = Len(s) + 1 /\ t[1] = n
      /\ \A i \in 1..Len(s) : t[i + 1] = s[i]
      /\ \A i \in 2..Len(t) : t[i] = s[i - 1]
  OBVIOUS
<1>3. \A i \in 1..(Len(s) + 1) : RingAt(h, t, i + 1) = RingAt(h, s, i)
  BY <1>2 DEF RingAt
<1>4. RingAt(h, t, 0) = h /\ RingAt(h, t, 1) = n /\ RingAt(h, t, 2) = first
  BY <1>2, <1>3 DEF RingAt
<1>5. /\ k.next = [m.next EXCEPT ![n] = first, ![h] = n]
      /\ k.prev = [m.prev EXCEPT ![first] = n, ![n] = h]
  BY <1>1 DEF ListAdd, ListInsert
<1>6. /\ k.next[h] = n /\ k.next[n] = first /\ k.prev[n] = h /\ k.prev[first] = n
      /\ \A x \in Node \ {n, h} : k.next[x] = m.next[x]
      /\ \A x \in Node \ {n, first} : k.prev[x] = m.prev[x]
  BY <1>1, <1>5 DEF Links
<1>7. \A i, j \in 1..Len(t) : t[i] = t[j] => i = j
  BY <1>2 DEF IsList
<1>8. \A i \in 1..Len(t) : t[i] # h
  BY <1>2 DEF IsList
<1>9. ASSUME NEW i \in 0..Len(t)
      PROVE  /\ k.next[RingAt(h, t, i)] = RingAt(h, t, i + 1)
             /\ k.prev[RingAt(h, t, i + 1)] = RingAt(h, t, i)
  <2>1. CASE i = 0
    BY <1>4, <1>6, <2>1
  <2>2. CASE i = 1
    BY <1>4, <1>6, <2>2
  <2>3. CASE i \in 2..Len(t)
    <3> DEFINE j == i - 1
    <3>1. j \in 1..Len(s) /\ i = j + 1 /\ j \in 0..Len(s) /\ j + 1 \in 1..(Len(s) + 1)
      BY <1>2, <2>3
    <3>2. RingAt(h, t, i) = s[j] /\ RingAt(h, t, i + 1) = RingAt(h, s, j + 1)
      BY <1>3, <3>1 DEF RingAt
    <3>3. m.next[s[j]] = RingAt(h, s, j + 1) /\ m.prev[RingAt(h, s, j + 1)] = s[j]
      BY <3>1 DEF IsList, RingAt
    <3>4. s[j] \in Node \ {n, h}
      BY <3>1 DEF IsList
    <3>5. RingAt(h, s, j + 1) \in Node \ {n}
      BY <3>1 DEF RingAt
    <3>6. RingAt(h, s, j + 1) # first
      BY <3>1 DEF IsList, RingAt
    <3> QED
      BY <1>6, <3>2, <3>3, <3>4, <3>5, <3>6
  <2> QED
    BY <1>2, <2>1, <2>2, <2>3
<1> QED
  BY <1>7, <1>8, <1>9 DEF IsList

\* list_add_tail puts a node behind the others.
THEOREM AddBehind ==
  ASSUME NEW Node, NULL \notin Node, NEW m \in Links(Node), NEW h \in Node,
         NEW s \in Seq(Node), IsList(m, h, s),
         NEW n \in Node, n # h, \A i \in 1..Len(s) : s[i] # n
  PROVE  IsList(ListAddTail(m, n, h), h, Append(s, n))
<1> DEFINE t == Append(s, n)
           k == ListAddTail(m, n, h)
           last == RingAt(h, s, Len(s))
<1>1. Len(s) \in Nat /\ RingAt(h, s, Len(s) + 1) = h
  BY DEF RingAt
<1>2. m.prev[h] = last /\ last \in Node /\ last # n
  BY <1>1 DEF IsList, RingAt
<1>3. /\ t \in Seq(Node) /\ Len(t) = Len(s) + 1 /\ t[Len(s) + 1] = n
      /\ \A i \in 1..Len(s) : t[i] = s[i]
  OBVIOUS
<1>4. /\ \A i \in 0..Len(s) : RingAt(h, t, i) = RingAt(h, s, i)
      /\ RingAt(h, t, Len(s) + 1) = n /\ RingAt(h, t, Len(s) + 2) = h
  BY <1>1, <1>3 DEF RingAt
<1>5. /\ k.next = [m.next EXCEPT ![n] = h, ![last] = n]
      /\ k.prev = [m.prev EXCEPT ![h] = n, ![n] = last]
  BY <1>2 DEF ListAddTail, ListInsert
<1>6. /\ k.next[last] = n /\ k.next[n] = h /\ k.prev[n] = last /\ k.prev[h] = n
      /\ \A x \in Node \ {n, last} : k.next[x] = m.next[x]
      /\ \A x \in Node \ {n, h} : k.prev[x] = m.prev[x]
  BY <1>2, <1>5 DEF Links
<1>7. \A i, j \in 1..Len(t) : t[i] = t[j] => i = j
  BY <1>3 DEF IsList
<1>8. \A i \in 1..Len(t) : t[i] # h
  BY <1>3 DEF IsList
<1>9. ASSUME NEW i \in 0..Len(t)
      PROVE  /\ k.next[RingAt(h, t, i)] = RingAt(h, t, i + 1)
             /\ k.prev[RingAt(h, t, i + 1)] = RingAt(h, t, i)
  <2>1. CASE i = Len(s)
    BY <1>1, <1>4, <1>6, <2>1
  <2>2. CASE i = Len(s) + 1
    BY <1>1, <1>4, <1>6, <2>2
  <2>3. CASE i \in 0..(Len(s) - 1)
    <3>1. i \in 0..Len(s) /\ i + 1 \in 0..Len(s) /\ i + 1 \in 1..Len(s)
      BY <1>1, <2>3
    <3>2. RingAt(h, t, i) = RingAt(h, s, i) /\ RingAt(h, t, i + 1) = s[i + 1]
      BY <1>3, <1>4, <3>1 DEF RingAt
    <3>3. m.next[RingAt(h, s, i)] = s[i + 1] /\ m.prev[s[i + 1]] = RingAt(h, s, i)
      BY <3>1 DEF IsList, RingAt
    <3>4. s[i + 1] \in Node \ {n, h}
      BY <3>1 DEF IsList
    <3>5. RingAt(h, s, i) \in Node \ {n}
      BY <3>1 DEF RingAt
    <3>6. RingAt(h, s, i) # last
      BY <1>1, <2>3, <3>1 DEF IsList, RingAt
    <3> QED
      BY <1>6, <3>2, <3>3, <3>4, <3>5, <3>6
  <2> QED
    BY <1>1, <1>3, <2>1, <2>2, <2>3
<1> QED
  BY <1>7, <1>8, <1>9 DEF IsList

\* list_del takes one node out, wherever it is, and keeps the order.
THEOREM DelTakesOut ==
  ASSUME NEW Node, NULL \notin Node, NEW m \in Links(Node), NEW h \in Node,
         NEW s \in Seq(Node), IsList(m, h, s), NEW p \in 1..Len(s)
  PROVE  /\ Deletable(m, s[p])
         /\ IsList(ListDel(m, s[p]), h, Without(s, p))
         /\ IsAlone(ListDel(m, s[p]), s[p])
<1> DEFINE n == s[p]
           t == Without(s, p)
           k == ListDel(m, n)
           before == RingAt(h, s, p - 1)
           after == RingAt(h, s, p + 1)
<1>1. Len(s) \in Nat /\ p \in Nat /\ p - 1 \in 0..Len(s) /\ p \in 0..Len(s) /\ p - 1 + 1 = p
  OBVIOUS
<1>2. m.next[n] = after /\ m.prev[n] = before
  <2>1. RingAt(h, s, p) = n
    BY DEF RingAt
  <2> QED
    BY <1>1, <2>1 DEF IsList
<1>3. n \in Node /\ before \in Node /\ after \in Node
  BY DEF RingAt
<1>4. before # n /\ after # n
  BY <1>1 DEF IsList, RingAt
<1>5. /\ k.next = [m.next EXCEPT ![before] = after, ![n] = NULL]
      /\ k.prev = [m.prev EXCEPT ![after] = before, ![n] = NULL]
  BY <1>2 DEF ListDel, ListJoinNodes
<1>6. /\ k.next[before] = after /\ k.prev[after] = before
      /\ k.next[n] = NULL /\ k.prev[n] = NULL
      /\ \A x \in Node \ {n, before} : k.next[x] = m.next[x]
      /\ \A x \in Node \ {n, after} : k.prev[x] = m.prev[x]
  BY <1>3, <1>4, <1>5 DEF Links
<1>7. /\ Len(t) = Len(s) - 1
      /\ \A i \in 1..Len(t) : t[i] = IF i < p THEN s[i] ELSE s[i + 1]
  BY <1>1 DEF Without
<1>8. ASSUME NEW i \in 1..Len(t), NEW j \in 1..Len(t), t[i] = t[j]
      PROVE  i = j
  <2> DEFINE from(c) == IF c < p THEN c ELSE c + 1
  <2>1. from(i) \in 1..Len(s) /\ from(j) \in 1..Len(s)
    BY <1>1, <1>7
  <2>2. t[i] = s[from(i)] /\ t[j] = s[from(j)]
    BY <1>7
  <2>3. from(i) = from(j)
    BY <1>8, <2>1, <2>2 DEF IsList
  <2> QED
    BY <1>1, <1>7, <2>3
<1>9. ASSUME NEW i \in 1..Len(t)
      PROVE  t[i] # h
  <2>1. CASE i < p
    <3>1. t[i] = s[i] /\ i \in 1..Len(s)
      BY <1>1, <1>7, <2>1
    <3> QED
      BY <3>1 DEF IsList
  <2>2. CASE ~(i < p)
    <3>1. t[i] = s[i + 1] /\ i + 1 \in 1..Len(s)
      BY <1>1, <1>7, <2>2
    <3> QED
      BY <3>1 DEF IsList
  <2> QED
    BY <2>1, <2>2
<1>10. \A i \in 0..Len(s) :
         RingAt(h, t, i) = IF i < p THEN RingAt(h, s, i) ELSE RingAt(h, s, i + 1)
  BY <1>1, <1>7 DEF RingAt
<1>11. ASSUME NEW i \in 0..Len(t)
       PROVE  /\ k.next[RingAt(h, t, i)] = RingAt(h, t, i + 1)
              /\ k.prev[RingAt(h, t, i + 1)] = RingAt(h, t, i)
  <2>1. CASE i + 1 = p
    <3>1. RingAt(h, t, i) = before /\ RingAt(h, t, i + 1) = after
      BY <1>1, <1>7, <1>10, <2>1
    <3> QED
      BY <1>6, <3>1
  <2>2. CASE i + 1 < p
    <3>1. RingAt(h, t, i) = RingAt(h, s, i) /\ RingAt(h, t, i + 1) = RingAt(h, s, i + 1)
      BY <1>1, <1>7, <1>10, <2>2
    <3>2. /\ m.next[RingAt(h, s, i)] = RingAt(h, s, i + 1)
          /\ m.prev[RingAt(h, s, i + 1)] = RingAt(h, s, i)
      BY <1>1, <1>7 DEF IsList
    <3>3. RingAt(h, s, i) \in Node \ {n, before} /\ RingAt(h, s, i + 1) \in Node \ {n, after}
      BY <1>1, <1>7, <2>2 DEF IsList, RingAt
    <3> QED
      BY <1>6, <3>1, <3>2, <3>3
  <2>3. CASE i + 1 > p
    <3> DEFINE j == i + 1
    <3>1. j \in 0..Len(s) /\ j \in Nat /\ j > p
      BY <1>1, <1>7, <2>3
    <3>2. RingAt(h, t, i) = RingAt(h, s, j) /\ RingAt(h, t, i + 1) = RingAt(h, s, j + 1)
      <4>1. CASE i = Len(t)
        BY <1>1, <1>7, <1>10, <2>3, <4>1 DEF RingAt
      <4>2. CASE i # Len(t)
        BY <1>1, <1>7, <1>10, <2>3, <4>2
      <4> QED
        BY <4>1, <4>2
    <3>3. /\ m.next[RingAt(h, s, j)] = RingAt(h, s, j + 1)
          /\ m.prev[RingAt(h, s, j + 1)] = RingAt(h, s, j)
      BY <3>1 DEF IsList
    <3>4. RingAt(h, s, j) \in Node \ {n, before} /\ RingAt(h, s, j + 1) \in Node \ {n, after}
      BY <1>1, <3>1 DEF IsList, RingAt
    <3> QED
      BY <1>6, <3>2, <3>3, <3>4
  <2> QED
    BY <1>1, <1>7, <2>1, <2>2, <2>3
<1>12. Deletable(m, n)
  BY <1>2, <1>3 DEF Deletable
<1>13. IsAlone(k, n)
  BY <1>6 DEF IsAlone
<1> QED
  BY <1>8, <1>9, <1>11, <1>12, <1>13 DEF IsList

\* list_del of a node that was set up and never added, such as most nodes of
\* expressions, changes only that node.
LEMMA DelAlone ==
  ASSUME NEW Node, NULL \notin Node, NEW m \in Links(Node), NEW n \in Node,
         IsAlone(m, n), Deletable(m, n)
  PROVE  /\ IsAlone(ListDel(m, n), n)
         /\ \A x \in Node \ {n} : /\ ListDel(m, n).next[x] = m.next[x]
                                 /\ ListDel(m, n).prev[x] = m.prev[x]
BY DEF Links, IsAlone, Deletable, ListDel, ListJoinNodes

\* A node outside of a list is left as it is when one is added to the list.
LEMMA AddLeavesOthers ==
  ASSUME NEW Node, NULL \notin Node, NEW m \in Links(Node), NEW h \in Node,
         NEW s \in Seq(Node), IsList(m, h, s), NEW n \in Node,
         NEW x \in Node \ {n, h}, \A i \in 1..Len(s) : s[i] # x
  PROVE  /\ ListAdd(m, n, h).next[x] = m.next[x] /\ ListAdd(m, n, h).prev[x] = m.prev[x]
         /\ ListAddTail(m, n, h).next[x] = m.next[x]
         /\ ListAddTail(m, n, h).prev[x] = m.prev[x]
<1>1. m.next[h] \in Node \ {x}
  BY DEF IsList, RingAt
<1>2. m.prev[h] \in Node \ {x}
  <2>1. Len(s) \in 0..Len(s) /\ RingAt(h, s, Len(s) + 1) = h
    BY DEF RingAt
  <2> QED
    BY <2>1 DEF IsList, RingAt
<1> QED
  BY <1>1, <1>2 DEF Links, ListAdd, ListAddTail, ListInsert

\* A node outside of a list is left as it is when one is taken out.
LEMMA DelLeavesOthers ==
  ASSUME NEW Node, NULL \notin Node, NEW m \in Links(Node), NEW h \in Node,
         NEW s \in Seq(Node), IsList(m, h, s), NEW p \in 1..Len(s),
         NEW x \in Node \ {h}, \A i \in 1..Len(s) : s[i] # x
  PROVE  /\ ListDel(m, s[p]).next[x] = m.next[x]
         /\ ListDel(m, s[p]).prev[x] = m.prev[x]
<1>1. Len(s) \in Nat /\ p - 1 \in 0..Len(s) /\ p \in 0..Len(s) /\ p - 1 + 1 = p
  OBVIOUS
<1>2. RingAt(h, s, p) = s[p] /\ s[p] # x
  BY DEF RingAt
<1>3. \A i \in 0..(Len(s) + 1) : RingAt(h, s, i) \in Node \ {x}
  BY DEF RingAt
<1>4. m.next[s[p]] = RingAt(h, s, p + 1) /\ m.prev[s[p]] = RingAt(h, s, p - 1)
  BY <1>1, <1>2 DEF IsList
<1>5. m.next[s[p]] \in Node \ {x} /\ m.prev[s[p]] \in Node \ {x}
  BY <1>1, <1>3, <1>4
<1> QED
  BY <1>2, <1>5 DEF Links, ListDel, ListJoinNodes

=============================================================================
