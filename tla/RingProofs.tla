----------------------------- MODULE RingProofs -----------------------------
(***************************************************************************)
(* What the macros of Ring do to the queue that a ring stands for, for any *)
(* number of nodes.                                                        *)
(***************************************************************************)
EXTENDS Ring, FiniteSetTheorems, TLAPS

\* The head of the queue is not one of its nodes, and there are only so many.
Setting == Anchor \notin Nodes /\ IsFiniteSet(Nodes)

\* The place that i steps from the head lead to, when q is the queue.
At(q, i) == IF i \in 1 .. Len(q) THEN q[i] ELSE Anchor

\* The links of r go through q forwards and backwards, and through each of
\* its nodes once.
Represents(r, q) ==
  /\ r \in Rings
  /\ q \in Seq(Nodes)
  /\ \A i, j \in 1 .. Len(q) : q[i] = q[j] => i = j
  /\ \A i \in 0 .. Len(q) : r.next[At(q, i)] = At(q, i + 1)
  /\ \A i \in 1 .. Len(q) + 1 : r.prev[At(q, i)] = At(q, i - 1)

Members(q) == {q[i] : i \in 1 .. Len(q)}

\* The empty ring stands for the empty queue.
LEMMA EmptyRingIsEmpty == Represents(EmptyRing, << >>)
BY DEF Represents, EmptyRing, Rings, Places, At

\* QUEUE_INSERT_TAIL appends a node that is not in the queue.
THEOREM InsertTailAppends ==
  ASSUME Setting, NEW r, NEW q, Represents(r, q), NEW c \in Nodes,
         c \notin Members(q)
  PROVE  Represents(InsertTail(r, c), Append(q, c))
<1> DEFINE n == Len(q)
           p == Append(q, c)
           t == InsertTail(r, c)
<1> USE DEF Setting
<1>1. /\ n \in Nat
      /\ p \in Seq(Nodes)
      /\ Len(p) = n + 1
      /\ \A i \in 1 .. n : p[i] = q[i]
      /\ p[n + 1] = c
      /\ \A i \in 1 .. n : q[i] \in Nodes /\ q[i] # c
  BY DEF Represents, Members
<1>2. /\ r.next \in [Places -> Places] /\ r.prev \in [Places -> Places]
      /\ c \in Places /\ Anchor \in Places /\ Nodes \subseteq Places
      /\ c # Anchor
  BY DEF Represents, Rings, Places
<1>3. r.prev[Anchor] = At(q, n)
  <2>1. n + 1 \in 1 .. n + 1 /\ At(q, n + 1) = Anchor
    BY <1>1 DEF At
  <2> QED
    BY <1>1, <2>1 DEF Represents
<1>4. At(q, n) \in Places /\ At(q, n) # c
  BY <1>1, <1>2 DEF At
<1>5. /\ t.next = [r.next EXCEPT ![c] = Anchor, ![At(q, n)] = c]
      /\ t.prev = [r.prev EXCEPT ![c] = At(q, n), ![Anchor] = c]
  BY <1>3 DEF InsertTail
<1>6. t \in Rings
  BY <1>2, <1>4, <1>5 DEF InsertTail, Rings
<1>7. \A i, j \in 1 .. Len(p) : p[i] = p[j] => i = j
  <2> SUFFICES ASSUME NEW i \in 1 .. n + 1, NEW j \in 1 .. n + 1, p[i] = p[j]
               PROVE  i = j
    BY <1>1
  <2>1. CASE i \in 1 .. n /\ j \in 1 .. n
    BY <1>1, <2>1 DEF Represents
  <2>2. CASE i = n + 1 \/ j = n + 1
    BY <1>1, <2>2
  <2> QED
    BY <1>1, <2>1, <2>2
<1>8. \A i \in 0 .. n : At(p, i) = At(q, i)
  BY <1>1 DEF At
<1>9. At(p, n + 1) = c /\ At(p, n + 2) = Anchor
  BY <1>1 DEF At
<1>10. \A i \in 0 .. n : At(q, i) \in Places /\ At(q, i) # c
  BY <1>1, <1>2 DEF At
<1>11. \A i \in 0 .. n : i # n => At(q, i) # At(q, n)
  BY <1>1, <1>2 DEF At, Represents
<1>12. \A i \in 0 .. Len(p) : t.next[At(p, i)] = At(p, i + 1)
  <2> SUFFICES ASSUME NEW i \in 0 .. n + 1
               PROVE  t.next[At(p, i)] = At(p, i + 1)
    BY <1>1
  <2>1. CASE i = n + 1
    BY <1>2, <1>4, <1>5, <1>9, <1>1, <2>1
  <2>2. CASE i = n
    BY <1>1, <1>2, <1>4, <1>5, <1>8, <1>9, <2>2
  <2>3. CASE i < n
    <3>1. i \in 0 .. n /\ i + 1 \in 0 .. n
      BY <1>1, <2>3
    <3>2. t.next[At(q, i)] = r.next[At(q, i)]
      BY <1>2, <1>5, <1>10, <1>11, <2>3, <3>1, <1>1
    <3> QED
      BY <1>8, <3>1, <3>2 DEF Represents
  <2> QED
    BY <1>1, <2>1, <2>2, <2>3
<1>13. \A i \in 1 .. Len(p) + 1 : t.prev[At(p, i)] = At(p, i - 1)
  <2> SUFFICES ASSUME NEW i \in 1 .. n + 2
               PROVE  t.prev[At(p, i)] = At(p, i - 1)
    BY <1>1
  <2>1. CASE i = n + 2
    <3>1. t.prev[Anchor] = c
      BY <1>2, <1>5
    <3> QED
      BY <1>9, <1>1, <2>1, <3>1
  <2>2. CASE i = n + 1
    <3>1. t.prev[c] = At(q, n)
      BY <1>2, <1>4, <1>5
    <3> QED
      BY <1>1, <1>8, <1>9, <2>2, <3>1
  <2>3. CASE i \in 1 .. n
    <3>1. At(q, i) \in Places /\ At(q, i) # c /\ At(q, i) # Anchor
      BY <1>1, <1>2, <2>3 DEF At
    <3>2. t.prev[At(q, i)] = r.prev[At(q, i)]
      BY <1>2, <1>5, <3>1
    <3>3. i \in 0 .. n /\ i - 1 \in 0 .. n /\ i \in 1 .. n + 1
      BY <1>1, <2>3
    <3> QED
      BY <1>8, <3>2, <3>3 DEF Represents
  <2> QED
    BY <1>1, <2>1, <2>2, <2>3
<1> QED
  BY <1>1, <1>6, <1>7, <1>12, <1>13 DEF Represents

\* q without its k-th node.
Without(q, k) == [i \in 1 .. Len(q) - 1 |-> IF i < k THEN q[i] ELSE q[i + 1]]

LEMMA WithoutShortens ==
  ASSUME NEW r, NEW q, Represents(r, q), NEW k \in 1 .. Len(q)
  PROVE  /\ Without(q, k) \in Seq(Nodes)
         /\ Len(Without(q, k)) = Len(q) - 1
         /\ \A i \in 1 .. Len(q) - 1 :
              Without(q, k)[i] = IF i < k THEN q[i] ELSE q[i + 1]
         /\ Members(Without(q, k)) = Members(q) \ {q[k]}
<1> DEFINE n == Len(q)
           w == Without(q, k)
<1>1. n \in Nat /\ n - 1 \in Nat /\ q \in Seq(Nodes)
  BY DEF Represents
<1>2. \A i \in 1 .. n : q[i] \in Nodes
  BY <1>1
<1>3. \A i \in 1 .. n - 1 : (IF i < k THEN q[i] ELSE q[i + 1]) \in Nodes
  BY <1>1, <1>2
<1>4. w \in [1 .. n - 1 -> Nodes]
  BY <1>3 DEF Without
<1>5. w \in Seq(Nodes) /\ Len(w) = n - 1
  BY <1>1, <1>4
<1>6. \A i \in 1 .. n - 1 : w[i] = IF i < k THEN q[i] ELSE q[i + 1]
  BY DEF Without
<1>7. \A i, j \in 1 .. n : q[i] = q[j] => i = j
  BY DEF Represents
<1>8. Members(w) \subseteq Members(q) \ {q[k]}
  BY <1>1, <1>5, <1>6, <1>7 DEF Members
<1>9. ASSUME NEW i \in 1 .. n, q[i] # q[k] PROVE q[i] \in Members(w)
  <2>1. CASE i < k
    <3>1. i \in 1 .. n - 1 /\ w[i] = q[i]
      BY <1>1, <1>6, <2>1
    <3> QED
      BY <1>5, <3>1 DEF Members
  <2>2. CASE i > k
    <3>1. i - 1 \in 1 .. n - 1 /\ w[i - 1] = q[i]
      BY <1>1, <1>6, <2>2
    <3> QED
      BY <1>5, <3>1 DEF Members
  <2> QED
    BY <1>1, <1>9, <2>1, <2>2
<1> QED
  BY <1>5, <1>6, <1>8, <1>9 DEF Members

\* QUEUE_REMOVE takes its node out of the queue, and leaves the others in
\* their order.
THEOREM RemoveTakesOut ==
  ASSUME Setting, NEW r, NEW q, Represents(r, q), NEW k \in 1 .. Len(q)
  PROVE  Represents(Remove(r, q[k]), Without(q, k))
<1> DEFINE n == Len(q)
           w == Without(q, k)
           t == Remove(r, q[k])
<1> USE DEF Setting
<1>1. /\ n \in Nat /\ n >= 1 /\ k >= 1 /\ k <= n
      /\ w \in Seq(Nodes)
      /\ Len(w) = n - 1
      /\ \A i \in 1 .. n - 1 : w[i] = IF i < k THEN q[i] ELSE q[i + 1]
  <2>1. n \in Nat
    BY DEF Represents
  <2>2. n >= 1 /\ k >= 1 /\ k <= n
    BY <2>1
  <2> HIDE DEF w
  <2>3. /\ w \in Seq(Nodes)
        /\ Len(w) = n - 1
        /\ \A i \in 1 .. n - 1 : w[i] = IF i < k THEN q[i] ELSE q[i + 1]
    BY WithoutShortens DEF w
  <2> QED
    BY <2>1, <2>2, <2>3
<1>2. \A i \in 1 .. n : At(q, i) = q[i] /\ q[i] \in Nodes
  BY DEF Represents, At
<1>3. At(q, 0) = Anchor /\ At(q, n + 1) = Anchor
  BY <1>1 DEF At
<1>4. \A i \in 0 .. n + 1 : At(q, i) \in Places
  BY <1>1, <1>2, <1>3 DEF Places
<1>5. \A i, j \in 0 .. n : At(q, i) = At(q, j) => i = j
  <2> SUFFICES ASSUME NEW i \in 0 .. n, NEW j \in 0 .. n, At(q, i) = At(q, j)
               PROVE  i = j
    OBVIOUS
  <2>1. CASE i \in 1 .. n /\ j \in 1 .. n
    BY <1>2, <2>1 DEF Represents
  <2>2. CASE i = 0 \/ j = 0
    BY <1>1, <1>2, <1>3, <2>2
  <2> QED
    BY <1>1, <2>1, <2>2
<1>6. \A i, j \in 1 .. n + 1 : At(q, i) = At(q, j) => i = j
  <2> SUFFICES ASSUME NEW i \in 1 .. n + 1, NEW j \in 1 .. n + 1,
                      At(q, i) = At(q, j)
               PROVE  i = j
    OBVIOUS
  <2>1. CASE i \in 1 .. n /\ j \in 1 .. n
    BY <1>2, <2>1 DEF Represents
  <2>2. CASE i = n + 1 \/ j = n + 1
    BY <1>1, <1>2, <1>3, <2>2
  <2> QED
    BY <1>1, <2>1, <2>2
<1>7. /\ r.next[q[k]] = At(q, k + 1)
      /\ r.prev[q[k]] = At(q, k - 1)
  BY <1>1, <1>2 DEF Represents
<1>8. /\ t.next = [r.next EXCEPT ![At(q, k - 1)] = At(q, k + 1)]
      /\ t.prev = [r.prev EXCEPT ![At(q, k + 1)] = At(q, k - 1)]
  BY <1>7 DEF Remove
<1>9. r.next \in [Places -> Places] /\ r.prev \in [Places -> Places]
  BY DEF Represents, Rings
<1>10. k - 1 \in 0 .. n /\ k + 1 \in 1 .. n + 1
  BY <1>1
<1>11. t \in Rings
  <2>1. At(q, k - 1) \in Places /\ At(q, k + 1) \in Places
    BY <1>1, <1>4
  <2>2. t = [next |-> t.next, prev |-> t.prev]
    BY DEF Remove
  <2>3. t.next \in [Places -> Places] /\ t.prev \in [Places -> Places]
    BY <1>8, <1>9, <2>1
  <2> HIDE DEF t
  <2> QED
    BY <2>2, <2>3 DEF Rings
<1>12. \A i, j \in 1 .. Len(w) : w[i] = w[j] => i = j
  <2> SUFFICES ASSUME NEW i \in 1 .. n - 1, NEW j \in 1 .. n - 1, w[i] = w[j]
               PROVE  i = j
    BY <1>1
  <2> DEFINE e == IF i < k THEN i ELSE i + 1
             f == IF j < k THEN j ELSE j + 1
  <2>1. e \in 1 .. n /\ f \in 1 .. n /\ q[e] = q[f]
    BY <1>1
  <2>2. e = f
    BY <2>1 DEF Represents
  <2> QED
    BY <1>1, <2>2
<1>13. \A i \in 0 .. n : At(w, i) = IF i < k THEN At(q, i) ELSE At(q, i + 1)
  <2> SUFFICES ASSUME NEW i \in 0 .. n
               PROVE  At(w, i) = IF i < k THEN At(q, i) ELSE At(q, i + 1)
    OBVIOUS
  <2>1. CASE i \in 1 .. n - 1
    BY <1>1, <2>1 DEF At
  <2>2. CASE i = 0
    BY <1>1, <2>2 DEF At
  <2>3. CASE i = n
    BY <1>1, <2>3 DEF At
  <2> QED
    BY <1>1, <2>1, <2>2, <2>3
<1>14. \A i \in 0 .. Len(w) : t.next[At(w, i)] = At(w, i + 1)
  <2> SUFFICES ASSUME NEW i \in 0 .. n - 1
               PROVE  t.next[At(w, i)] = At(w, i + 1)
    BY <1>1
  <2>1. i \in 0 .. n /\ i + 1 \in 0 .. n /\ i + 2 \in 1 .. n + 1
    BY <1>1
  <2>2. CASE i = k - 1
    <3>1. At(w, i) = At(q, k - 1) /\ At(w, i + 1) = At(q, k + 1)
      BY <1>1, <1>13, <2>1, <2>2
    <3> QED
      BY <1>4, <1>8, <1>9, <1>10, <1>1, <3>1
  <2>3. CASE i < k - 1
    <3>1. At(w, i) = At(q, i) /\ At(w, i + 1) = At(q, i + 1)
      BY <1>1, <1>13, <2>1, <2>3
    <3>2. At(q, i) # At(q, k - 1)
      BY <1>1, <1>5, <1>10, <2>1, <2>3
    <3>3. t.next[At(q, i)] = r.next[At(q, i)]
      BY <1>1, <1>4, <1>8, <1>9, <1>10, <2>1, <3>2
    <3> QED
      BY <2>1, <3>1, <3>3 DEF Represents
  <2>4. CASE i > k - 1
    <3>1. At(w, i) = At(q, i + 1) /\ At(w, i + 1) = At(q, i + 2)
      BY <1>1, <1>13, <2>1, <2>4
    <3>2. At(q, i + 1) # At(q, k - 1)
      BY <1>1, <1>5, <1>10, <2>1, <2>4
    <3>3. t.next[At(q, i + 1)] = r.next[At(q, i + 1)]
      BY <1>1, <1>4, <1>8, <1>9, <1>10, <2>1, <3>2
    <3>4. r.next[At(q, i + 1)] = At(q, i + 2)
      BY <2>1 DEF Represents
    <3> QED
      BY <3>1, <3>3, <3>4
  <2> QED
    BY <1>1, <2>2, <2>3, <2>4
<1>15. \A i \in 1 .. Len(w) + 1 : t.prev[At(w, i)] = At(w, i - 1)
  <2> SUFFICES ASSUME NEW i \in 1 .. n
               PROVE  t.prev[At(w, i)] = At(w, i - 1)
    <3>1. Len(w) + 1 = n
      BY <1>1
    <3> QED
      BY <3>1
  <2>1. i \in 0 .. n /\ i - 1 \in 0 .. n /\ i + 1 \in 1 .. n + 1
    BY <1>1
  <2>2. CASE i = k
    <3>1. At(w, i) = At(q, k + 1) /\ At(w, i - 1) = At(q, k - 1)
      BY <1>1, <1>13, <2>1, <2>2
    <3> QED
      BY <1>4, <1>8, <1>9, <1>10, <1>1, <3>1
  <2>3. CASE i < k
    <3>1. At(w, i) = At(q, i) /\ At(w, i - 1) = At(q, i - 1)
      BY <1>1, <1>13, <2>1, <2>3
    <3>2. At(q, i) # At(q, k + 1)
      BY <1>1, <1>6, <1>10, <2>1, <2>3
    <3>3. t.prev[At(q, i)] = r.prev[At(q, i)]
      BY <1>1, <1>4, <1>8, <1>9, <1>10, <2>1, <3>2
    <3>4. r.prev[At(q, i)] = At(q, i - 1)
      BY <1>1 DEF Represents
    <3> QED
      BY <3>1, <3>3, <3>4
  <2>4. CASE i > k
    <3>1. At(w, i) = At(q, i + 1) /\ At(w, i - 1) = At(q, i)
      BY <1>1, <1>13, <2>1, <2>4
    <3>2. At(q, i + 1) # At(q, k + 1)
      BY <1>1, <1>6, <1>10, <2>1, <2>4
    <3>3. t.prev[At(q, i + 1)] = r.prev[At(q, i + 1)]
      BY <1>1, <1>4, <1>8, <1>9, <1>10, <2>1, <3>2
    <3>4. r.prev[At(q, i + 1)] = At(q, i)
      BY <2>1 DEF Represents
    <3> QED
      BY <3>1, <3>3, <3>4
  <2> QED
    BY <1>1, <2>2, <2>3, <2>4
<1> QED
  BY <1>1, <1>11, <1>12, <1>14, <1>15 DEF Represents

-----------------------------------------------------------------------------
(* The walk                                                                *)

\* A set of natural numbers has a least member.
LEMMA LeastMember ==
  ASSUME NEW T, T \subseteq Nat, T # {}
  PROVE  \E x \in T : \A y \in T : ~(y < x)
<1>1. \E x \in T : \A y \in T : <<y, x>> \notin OpToRel(<, Nat)
  BY NatLessThanWellFounded, WFMin
<1>2. PICK x \in T : \A y \in T : <<y, x>> \notin OpToRel(<, Nat)
  BY <1>1
<1>3. ASSUME NEW y \in T, y < x PROVE FALSE
  <2>1. <<y, x>> \in OpToRel(<, Nat)
    BY <1>2, <1>3 DEF OpToRel
  <2> QED
    BY <1>2, <2>1
<1> QED
  BY <1>2, <1>3

\* A queue is no longer than there are nodes.
LEMMA QueueIsShort ==
  ASSUME Setting, NEW r, NEW q, Represents(r, q)
  PROVE  /\ Cardinality(Nodes) \in Nat
         /\ Cardinality(Places) = Cardinality(Nodes) + 1
         /\ Len(q) <= Cardinality(Nodes)
         /\ IsFiniteSet(Members(q))
         /\ Cardinality(Members(q)) = Len(q)
<1> USE DEF Setting
<1>1. Cardinality(Nodes) \in Nat
  BY FS_CardinalityType
<1>2. Cardinality(Places) = Cardinality(Nodes) + 1
  BY FS_AddElement DEF Places
<1>3. q \in Seq(Nodes) /\ Len(q) \in Nat
  BY DEF Represents
<1>4. IsFiniteSet(1 .. Len(q)) /\ Cardinality(1 .. Len(q)) = Len(q)
  BY <1>3, FS_Interval
<1>5. q \in Injection(1 .. Len(q), Nodes)
  BY <1>3 DEF Injection, Represents, IsInjective
<1>6. Len(q) <= Cardinality(Nodes)
  BY <1>4, <1>5, FS_Injection
<1>7. q \in Bijection(1 .. Len(q), Members(q))
  BY <1>3, <1>5 DEF Bijection, Injection, Surjection, IsInjective, Members
<1>8. ExistsBijection(1 .. Len(q), Members(q))
  BY <1>7 DEF ExistsBijection
<1>9. IsFiniteSet(Members(q)) /\ Cardinality(Members(q)) = Len(q)
  BY <1>4, <1>8, FS_Bijection
<1> QED
  BY <1>1, <1>2, <1>6, <1>9

\* From place to place along q, and at the head for ever.
LEMMA StepsOfWalk ==
  ASSUME Setting, NEW r, NEW q, Represents(r, q), NEW k \in Nat, k > 0
  PROVE  At(q, k) = IF k > 1 /\ At(q, k - 1) = Anchor THEN Anchor
                                              ELSE Following(r, At(q, k - 1))
<1> USE DEF Setting
<1>1. q \in Seq(Nodes) /\ Len(q) \in Nat /\ \A i \in 1 .. Len(q) : q[i] \in Nodes
  BY DEF Represents
<1>2. \A i \in 1 .. Len(q) : At(q, i) # Anchor
  BY <1>1 DEF At
<1>3. CASE k <= Len(q) + 1
  <2>1. k - 1 \in 0 .. Len(q)
    BY <1>1, <1>3
  <2>2. Following(r, At(q, k - 1)) = At(q, k)
    BY <2>1 DEF Following, Represents
  <2>3. k > 1 => At(q, k - 1) # Anchor
    BY <1>1, <1>2, <2>1
  <2> QED
    BY <2>2, <2>3
<1>4. CASE k > Len(q) + 1
  BY <1>1, <1>4 DEF At
<1> QED
  BY <1>1, <1>3, <1>4

LEMMA WalkFollowsQueue ==
  ASSUME Setting, NEW r, NEW q, Represents(r, q)
  PROVE  Reached(r) = [k \in 0 .. Cardinality(Places) |-> At(q, k)]
<1> DEFINE D == 0 .. Cardinality(Places)
           walk(g) == [k \in D |-> IF k = 0 \/ (k > 1 /\ g[k - 1] = Anchor)
                                   THEN Anchor ELSE Following(r, g[k - 1])]
           f == [k \in D |-> At(q, k)]
           a == Reached(r)
<1>1. D \subseteq Nat
  OBVIOUS
<1>2. \A k \in D : k # 0 => k > 0 /\ k - 1 \in D
  BY QueueIsShort
<1>3. a = CHOOSE g : g = walk(g)
  BY DEF Reached
<1>4. At(q, 0) = Anchor
  BY DEF At
<1>5. f = walk(f)
  <2>1. ASSUME NEW k \in D
        PROVE  At(q, k) = IF k = 0 \/ (k > 1 /\ f[k - 1] = Anchor)
                          THEN Anchor ELSE Following(r, f[k - 1])
    <3>1. CASE k = 0
      BY <1>4, <3>1
    <3>2. CASE k # 0
      <4>1. k \in Nat /\ k > 0 /\ f[k - 1] = At(q, k - 1)
        BY <1>1, <1>2, <3>2
      <4> QED
        BY <3>2, <4>1, StepsOfWalk
    <3> QED
      BY <3>1, <3>2
  <2> QED
    BY <2>1
<1>6. a = walk(a)
  <2> HIDE DEF f, walk, a
  <2> QED
    BY <1>3, <1>5
<1>7. \A k \in D : a[k] = IF k = 0 \/ (k > 1 /\ a[k - 1] = Anchor)
                          THEN Anchor ELSE Following(r, a[k - 1])
  <2> HIDE DEF a
  <2> QED
    BY <1>6
<1>8. \A k \in D : a[k] = At(q, k)
  <2> DEFINE T == {k \in D : a[k] # At(q, k)}
  <2> SUFFICES ASSUME T # {} PROVE FALSE
    OBVIOUS
  <2>1. PICK k \in T : \A j \in T : ~(j < k)
    BY <1>1, LeastMember
  <2>2. k # 0
    BY <1>4, <1>7
  <2>3. k \in Nat /\ k > 0 /\ k - 1 \in D /\ k - 1 < k
    BY <1>1, <1>2, <2>2
  <2>4. a[k - 1] = At(q, k - 1)
    BY <2>1, <2>3
  <2>5. a[k] = At(q, k)
    BY <1>7, <2>2, <2>3, <2>4, StepsOfWalk
  <2> QED
    BY <2>5
<1>9. a = [k \in D |-> a[k]]
  <2> HIDE DEF a
  <2> QED
    BY <1>6
<1> QED
  BY <1>8, <1>9

\* QUEUE_FOREACH visits the nodes of the queue, each once and in order.
THEOREM WalkVisitsQueue ==
  ASSUME Setting, NEW r, NEW q, Represents(r, q)
  PROVE  Elements(r) = q
<1> DEFINE D == 0 .. Cardinality(Places)
           at == Reached(r)
           back == {k \in DOMAIN at : k > 0 /\ at[k] = Anchor}
           m == CHOOSE k \in back : \A j \in back : k <= j
           n == Len(q)
<1> USE DEF Setting
<1>1. at = [k \in D |-> At(q, k)]
  BY WalkFollowsQueue
<1>2. n \in Nat /\ n + 1 \in D /\ D \subseteq Nat /\ q \in Seq(Nodes)
  <2>1. n \in Nat /\ q \in Seq(Nodes)
    BY DEF Represents
  <2> QED
    BY <2>1, QueueIsShort
<1>3. \A k \in 1 .. n : At(q, k) = q[k] /\ q[k] # Anchor
  BY <1>2 DEF At
<1>4. At(q, n + 1) = Anchor
  BY <1>2 DEF At
<1>5. back = {k \in D : k > 0 /\ At(q, k) = Anchor}
  BY <1>1
<1>6. n + 1 \in back /\ \A j \in back : n + 1 <= j
  BY <1>2, <1>3, <1>4, <1>5
<1>7. m = n + 1
  <2> HIDE DEF back
  <2>1. back \subseteq Nat
    BY <1>2, <1>5
  <2>2. m \in back /\ \A j \in back : m <= j
    BY <1>6
  <2>3. m <= n + 1 /\ n + 1 <= m /\ m \in Nat /\ n + 1 \in Nat
    BY <1>6, <2>1, <2>2
  <2> HIDE DEF m, n
  <2> QED
    BY <2>3
<1>8. Elements(r) = [i \in 1 .. n |-> at[i]]
  <2>1. back # {}
    BY <1>6
  <2>2. Elements(r) = [i \in 1 .. (IF back = {} THEN Cardinality(Nodes)
                                                ELSE m - 1) |-> at[i]]
    BY DEF Elements
  <2> HIDE DEF back, m, at
  <2> QED
    BY <1>2, <1>7, <2>1, <2>2
<1>9. \A i \in 1 .. n : at[i] = q[i]
  <2>1. ASSUME NEW i \in 1 .. n PROVE i \in D
    <3>1. n \in Nat /\ Cardinality(Nodes) \in Nat
      BY <1>2, QueueIsShort
    <3> QED
      BY <3>1, QueueIsShort
  <2>2. \A i \in D : at[i] = At(q, i)
    BY <1>1
  <2> QED
    BY <1>3, <2>1, <2>2
<1>10. q = [i \in 1 .. n |-> q[i]]
  BY <1>2
<1> QED
  BY <1>8, <1>9, <1>10

-----------------------------------------------------------------------------
(* What the users of a ring rely on                                        *)

\* r is a ring, whose elements are the ones a walk visits.
IsQueue(r) == Represents(r, Elements(r))

\* The two directions of a queue agree.
LEMMA QueueIsRing ==
  ASSUME Setting, NEW r, IsQueue(r)
  PROVE  IsRing(r, Members(Elements(r)))
<1> DEFINE q == Elements(r)
           n == Len(q)
<1>1. n \in Nat /\ q \in Seq(Nodes) /\ Represents(r, q)
  BY DEF IsQueue, Represents
<1> HIDE DEF q
<1>2. \A i \in 0 .. n + 1 : At(q, i) \in Members(q) \cup {Anchor}
  BY <1>1 DEF At, Members
<1>3. ASSUME NEW p \in Members(q) \cup {Anchor}
      PROVE  /\ \E i \in 0 .. n : p = At(q, i)
             /\ \E i \in 1 .. n + 1 : p = At(q, i)
  BY <1>1, <1>3 DEF At, Members
<1>4. ASSUME NEW p \in Members(q) \cup {Anchor}
      PROVE  /\ r.next[p] \in Members(q) \cup {Anchor}
             /\ r.prev[r.next[p]] = p
  <2>1. PICK i \in 0 .. n : p = At(q, i)
    BY <1>3
  <2>2. i + 1 \in 0 .. n + 1 /\ i + 1 \in 1 .. n + 1 /\ (i + 1) - 1 = i
    BY <1>1
  <2>3. r.next[p] = At(q, i + 1)
    BY <1>1, <2>1 DEF Represents
  <2>4. r.prev[At(q, i + 1)] = At(q, i)
    BY <1>1, <2>2 DEF Represents
  <2> QED
    BY <1>2, <2>1, <2>2, <2>3, <2>4
<1>5. ASSUME NEW p \in Members(q) \cup {Anchor}
      PROVE  /\ r.prev[p] \in Members(q) \cup {Anchor}
             /\ r.next[r.prev[p]] = p
  <2>1. PICK i \in 1 .. n + 1 : p = At(q, i)
    BY <1>3
  <2>2. i - 1 \in 0 .. n + 1 /\ i - 1 \in 0 .. n /\ (i - 1) + 1 = i
    BY <1>1
  <2>3. r.prev[p] = At(q, i - 1)
    BY <1>1, <2>1 DEF Represents
  <2>4. r.next[At(q, i - 1)] = At(q, i)
    BY <1>1, <2>2 DEF Represents
  <2> QED
    BY <1>2, <2>1, <2>2, <2>3, <2>4
<1> QED
  BY <1>4, <1>5 DEF IsRing, q

\* QUEUE_EMPTY tells whether there are elements.
LEMMA EmptyHasNone ==
  ASSUME Setting, NEW r, IsQueue(r)
  PROVE  IsEmpty(r) <=> Members(Elements(r)) = {}
<1> DEFINE q == Elements(r)
           n == Len(q)
<1>1. n \in Nat /\ q \in Seq(Nodes) /\ Represents(r, q)
  BY DEF IsQueue, Represents
<1> HIDE DEF q
<1>2. r.next[Anchor] = At(q, 1)
  <2>1. 0 \in 0 .. n /\ At(q, 0) = Anchor /\ 0 + 1 = 1
    BY <1>1 DEF At
  <2> QED
    BY <1>1, <2>1 DEF Represents
<1>3. IsEmpty(r) <=> n = 0
  BY <1>1, <1>2 DEF IsEmpty, At, Setting
<1>4. n = 0 <=> Members(q) = {}
  BY <1>1 DEF Members
<1> QED
  BY <1>3, <1>4 DEF q

\* A queue holds each of its elements once.
LEMMA QueueHoldsEachOnce ==
  ASSUME Setting, NEW r, IsQueue(r)
  PROVE  /\ r \in Rings
         /\ Elements(r) \in Seq(Nodes)
         /\ IsFiniteSet(Members(Elements(r)))
         /\ Cardinality(Members(Elements(r))) = Len(Elements(r))
<1>1. Represents(r, Elements(r))
  BY DEF IsQueue
<1>2. r \in Rings /\ Elements(r) \in Seq(Nodes)
  BY <1>1 DEF Represents
<1> QED
  BY <1>1, <1>2, QueueIsShort

LEMMA QueueStarts ==
  ASSUME Setting
  PROVE  IsQueue(EmptyRing) /\ Elements(EmptyRing) = << >>
BY EmptyRingIsEmpty, WalkVisitsQueue DEF IsQueue

LEMMA QueueGrows ==
  ASSUME Setting, NEW r, IsQueue(r), NEW c \in Nodes,
         c \notin Members(Elements(r))
  PROVE  /\ IsQueue(InsertTail(r, c))
         /\ Members(Elements(InsertTail(r, c))) =
              Members(Elements(r)) \cup {c}
         /\ Len(Elements(InsertTail(r, c))) = Len(Elements(r)) + 1
<1> DEFINE q == Elements(r)
           t == InsertTail(r, c)
<1>1. q \in Seq(Nodes)
  BY QueueHoldsEachOnce
<1>2. Represents(t, Append(q, c))
  BY InsertTailAppends DEF IsQueue
<1>3. Elements(t) = Append(q, c)
  BY <1>2, WalkVisitsQueue
<1>4. Members(Append(q, c)) = Members(q) \cup {c}
  <2> HIDE DEF q
  <2>1. /\ Len(q) \in Nat
        /\ Len(Append(q, c)) = Len(q) + 1
        /\ \A i \in 1 .. Len(q) : Append(q, c)[i] = q[i]
        /\ Append(q, c)[Len(q) + 1] = c
    BY <1>1
  <2> QED
    BY <2>1 DEF Members
<1>5. Len(Append(q, c)) = Len(q) + 1
  BY <1>1
<1> QED
  BY <1>2, <1>3, <1>4, <1>5 DEF IsQueue

LEMMA QueueShrinks ==
  ASSUME Setting, NEW r, IsQueue(r), NEW c \in Members(Elements(r))
  PROVE  /\ IsQueue(Remove(r, c))
         /\ Members(Elements(Remove(r, c))) = Members(Elements(r)) \ {c}
         /\ Len(Elements(Remove(r, c))) = Len(Elements(r)) - 1
<1> DEFINE q == Elements(r)
           t == Remove(r, c)
<1>1. Represents(r, q)
  BY DEF IsQueue
<1>2. PICK k \in 1 .. Len(q) : c = q[k]
  BY DEF Members
<1>3. Represents(t, Without(q, k))
  BY <1>1, <1>2, RemoveTakesOut
<1>4. Elements(t) = Without(q, k)
  BY <1>3, WalkVisitsQueue
<1>5. /\ Members(Without(q, k)) = Members(q) \ {c}
      /\ Len(Without(q, k)) = Len(q) - 1
  BY <1>1, <1>2, WithoutShortens
<1> QED
  BY <1>3, <1>4, <1>5 DEF IsQueue

=============================================================================
