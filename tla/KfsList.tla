------------------------------ MODULE KfsList -------------------------------
(***************************************************************************)
(* The doubly linked lists of src/ll/ll.h, which everything in the program  *)
(* is kept in.  A node is an ll_head in some struct, a list is a ring of   *)
(* nodes through a head.  The links of all nodes are one record            *)
(*   m.next, m.prev : node -> node or NULL                                 *)
(* The writes are in the order of the code: two of the pointers may be one. *)
(***************************************************************************)
EXTENDS Naturals, Sequences

CONSTANT NULL

\* KFS_LST_INIT: an empty list, or a node that is in none.
ListInit(m, n) ==
  [next |-> [m.next EXCEPT ![n] = n], prev |-> [m.prev EXCEPT ![n] = n]]

ListInsert(m, n, before, after) ==
  [next |-> [m.next EXCEPT ![n] = after, ![before] = n],
   prev |-> [m.prev EXCEPT ![after] = n, ![n] = before]]

ListAdd(m, n, head) == ListInsert(m, n, head, m.next[head])
ListAddTail(m, n, head) == ListInsert(m, n, m.prev[head], head)

ListJoinNodes(m, before, after) ==
  [next |-> [m.next EXCEPT ![before] = after],
   prev |-> [m.prev EXCEPT ![after] = before]]

\* list_del writes through both pointers of the node: a node that has been
\* deleted before has none.
Deletable(m, n) == m.next[n] # NULL /\ m.prev[n] # NULL
ListDel(m, n) ==
  LET joined == ListJoinNodes(m, m.prev[n], m.next[n])
  IN  [next |-> [joined.next EXCEPT ![n] = NULL],
       prev |-> [joined.prev EXCEPT ![n] = NULL]]

-----------------------------------------------------------------------------
(* What a list is                                                          *)

\* The i-th node of the ring of head and the sequence s.
RingAt(head, s, i) == IF i \in 1..Len(s) THEN s[i] ELSE head

\* The list of head holds the nodes of s in their order: both directions
\* agree, from the head and back to it, and no node is there twice.
IsList(m, head, s) ==
  /\ \A i, j \in 1..Len(s) : s[i] = s[j] => i = j
  /\ \A i \in 1..Len(s) : s[i] # head
  /\ \A i \in 0..Len(s) :
       /\ m.next[RingAt(head, s, i)] = RingAt(head, s, i + 1)
       /\ m.prev[RingAt(head, s, i + 1)] = RingAt(head, s, i)

\* A node that is in no list: as it was set up, or as list_del leaves it.
IsAlone(m, n) ==
  \/ m.next[n] = n /\ m.prev[n] = n
  \/ m.next[n] = NULL /\ m.prev[n] = NULL

\* s without its i-th element.
Without(s, i) ==
  [j \in 1..(Len(s) - 1) |-> IF j < i THEN s[j] ELSE s[j + 1]]

=============================================================================
