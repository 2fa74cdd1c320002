-------------------------------- MODULE Ring --------------------------------
(***************************************************************************)
(* The intrusive queue of src/utils/queue.h: a ring of nodes, each with a  *)
(* pointer to the next and to the previous one, and a head that is a node  *)
(* itself but stands for the queue.  A ring is a record of two functions   *)
(* on nodes; the macros that the servers use are operators on it.          *)
(*                                                                         *)
(* QUEUE_ADD, QUEUE_SPLIT, QUEUE_MOVE and QUEUE_INSERT_HEAD are used       *)
(* nowhere and left out.                                                   *)
(***************************************************************************)
EXTENDS Naturals, Sequences, FiniteSets

CONSTANTS
  Nodes,    \* the nodes that may ever be in the queue
  Anchor    \* the queue, which is none of them

Places == Nodes \cup {Anchor}

Rings == [next : [Places -> Places], prev : [Places -> Places]]

\* QUEUE_INIT of the head.  A node points nowhere until it is inserted; here
\* it points to itself, where QUEUE_INIT(&conn->node) puts it.
EmptyRing == [next |-> [p \in Places |-> p], prev |-> [p \in Places |-> p]]

\* QUEUE_EMPTY, QUEUE_HEAD, and the step of QUEUE_FOREACH.
IsEmpty(r) == r.next[Anchor] = Anchor
First(r) == r.next[Anchor]
Following(r, q) == r.next[q]

\* Mutant: the old tail is not linked to the new one.
InsertTailUnlinked(r, q) ==
  [next |-> [r.next EXCEPT ![q] = Anchor],
   prev |-> [r.prev EXCEPT ![q] = r.prev[Anchor], ![Anchor] = q]]

InsertTail(r, q) ==
  [next |-> [r.next EXCEPT ![q] = Anchor, ![r.prev[Anchor]] = q],
   prev |-> [r.prev EXCEPT ![q] = r.prev[Anchor], ![Anchor] = q]]

\* Mutant: the link back to the removed node stays.
RemoveHalf(r, q) ==
  [next |-> [r.next EXCEPT ![r.prev[q]] = r.next[q]], prev |-> r.prev]

\* The pointers of the removed node itself stay as they are.
Remove(r, q) ==
  [next |-> [r.next EXCEPT ![r.prev[q]] = r.next[q]],
   prev |-> [r.prev EXCEPT ![r.next[q]] = r.prev[q]]]

\* Where k steps of QUEUE_FOREACH lead: it stops when it is back at the head.
Reached(r) ==
  LET at[k \in 0 .. Cardinality(Places)] ==
        IF k = 0 \/ (k > 1 /\ at[k - 1] = Anchor) THEN Anchor
                                                 ELSE Following(r, at[k - 1])
  IN at

\* The nodes it visits: all of them, as long as the ring is one.
Elements(r) ==
  LET at == Reached(r)
      back == {k \in DOMAIN at : k > 0 /\ at[k] = Anchor}
      n == IF back = {} THEN Cardinality(Nodes)
           ELSE (CHOOSE k \in back : \A j \in back : k <= j) - 1
  IN [i \in 1 .. n |-> at[i]]

\* The two directions agree on the nodes in S and the head.
IsRing(r, S) ==
  \A p \in S \cup {Anchor} : /\ r.next[p] \in S \cup {Anchor}
                            /\ r.prev[p] \in S \cup {Anchor}
                            /\ r.next[r.prev[p]] = p
                            /\ r.prev[r.next[p]] = p

=============================================================================
