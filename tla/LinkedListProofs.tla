-------------------------- MODULE LinkedListProofs --------------------------
(***************************************************************************)
(* linked_list_t, for any set of nodes: the pointers agree, and they make  *)
(* the sequence of ListSpec.                                               *)
(***************************************************************************)
EXTENDS LinkedList, SeqLemmas, FiniteSetTheorems, TLAPS

\* The links agree as long as they lie between the cells of the list: both
\* are needed to see which fields an operation does not touch.
LEMMA LinksStep == TypeOK /\ LinksAgree /\ [Next]_vars => TypeOK' /\ LinksAgree'
<1> SUFFICES ASSUME TypeOK, LinksAgree, [Next]_vars
             PROVE  TypeOK' /\ LinksAgree'
    OBVIOUS
<1> USE LinkedListAssumption DEF Cell, On, TypeOK
\* Every insertion puts a new node between two neighbours.
<1>1. ASSUME NEW n \in Node, n \notin linked,
             NEW p \in On, NEW s \in On, next[p] = s, prev[s] = p,
             Between(n, p, s), linked' = linked \cup {n}
      PROVE  TypeOK' /\ LinksAgree'
  <2>1. TypeOK'
    BY <1>1 DEF Between
  <2>2. ASSUME NEW c \in On'
        PROVE  /\ next'[c] \in On' /\ prev'[next'[c]] = c
               /\ prev'[c] \in On' /\ next'[prev'[c]] = c
    <3>1. CASE c = n
      BY <1>1, <3>1 DEF Between, LinksAgree
    <3>2. CASE c # n
      BY <1>1, <2>2, <3>2 DEF Between, LinksAgree
    <3> QED  BY <3>1, <3>2
  <2> QED  BY <2>1, <2>2 DEF LinksAgree
<1>2. ASSUME NEW n \in Node, add(n)
      PROVE  TypeOK' /\ LinksAgree'
  <2>1. Root \in On /\ next[Root] \in On /\ prev[next[Root]] = Root
    BY DEF LinksAgree
  <2> QED  BY <1>1, <1>2, <2>1 DEF add
<1>3. ASSUME NEW n \in Node, NEW m \in Node, add_prev(n, m)
      PROVE  TypeOK' /\ LinksAgree'
  <2>1. m \in On /\ prev[m] \in On /\ next[prev[m]] = m
    BY <1>3 DEF LinksAgree, add_prev
  <2> QED  BY <1>1, <1>3, <2>1 DEF add_prev
<1>4. ASSUME NEW n \in Node, NEW m \in Node, add_next(n, m)
      PROVE  TypeOK' /\ LinksAgree'
  <2>1. m \in On /\ next[m] \in On /\ prev[next[m]] = m
    BY <1>4 DEF LinksAgree, add_next
  <2> QED  BY <1>1, <1>4, <2>1 DEF add_next
<1>5. ASSUME NEW n \in Node, del(n)
      PROVE  TypeOK' /\ LinksAgree'
  <2>1. n \in On /\ next[n] \in On /\ prev[n] \in On
    BY <1>5 DEF del, LinksAgree
  <2>2. TypeOK'
    BY <1>5, <2>1 DEF del
  <2>3. ASSUME NEW c \in On'
        PROVE  /\ next'[c] \in On' /\ prev'[next'[c]] = c
               /\ prev'[c] \in On' /\ next'[prev'[c]] = c
    BY <1>5, <2>1, <2>3 DEF del, LinksAgree
  <2> QED  BY <2>2, <2>3 DEF LinksAgree
<1>6. CASE empty
  BY <1>6 DEF empty, LinksAgree
<1>7. CASE UNCHANGED vars
  BY <1>7 DEF vars, LinksAgree
<1> QED  BY <1>2, <1>3, <1>4, <1>5, <1>6, <1>7 DEF Next

\* next and prev stay inverse to each other on the list (linked_list.hpp:23-51),
\* whatever the uninitialised fields of the nodes held at first.
THEOREM LinksStayInverse == Spec => []LinksAgree
<1>1. Init => TypeOK /\ LinksAgree
  BY LinkedListAssumption DEF Init, TypeOK, LinksAgree, On, Cell
<1> QED  BY <1>1, LinksStep, PTL DEF Spec

-----------------------------------------------------------------------------
(* The refinement.  The inductive invariant is that some sequence of nodes *)
(* is threaded through the pointers.                                       *)

\* The cell at place j of s: the root is at both ends.
At(s, j) == IF j \in 1..Len(s) THEN s[j] ELSE Root

IsChain(s) ==
    /\ s \in Seq(Node)
    /\ \A j \in 1..Len(s) : s[j] \in linked
    /\ \A n \in linked : \E j \in 1..Len(s) : s[j] = n
    /\ \A j, k \in 1..Len(s) : s[j] = s[k] => j = k
    /\ \A j \in 0..Len(s) : next[At(s, j)] = At(s, j + 1)

ListInv == TypeOK /\ LinksAgree /\ \E s : IsChain(s)

\* What LinkedList takes as the abstract order.
Order == [i \in 1..Cardinality(linked) |-> After[i]]

\* f is a walk of n steps from the root.
Walks(f, n) == f = [i \in 0..n |-> IF i = 0 THEN Root ELSE next[f[i - 1]]]

LEMMA WalksAt ==
  ASSUME NEW f, NEW n \in Nat, Walks(f, n), NEW i \in 0..n
  PROVE  f[i] = IF i = 0 THEN Root ELSE next[f[i - 1]]
<1> DEFINE e(j) == IF j = 0 THEN Root ELSE next[f[j - 1]]
           g == [j \in 0..n |-> e(j)]
<1>1. f = g
  BY DEF Walks
<1>2. g[i] = e(i)
  OBVIOUS
<1>3. f[i] = e(i)
  <2> HIDE DEF g, e
  <2> QED BY <1>1, <1>2
<1> QED BY <1>3

LEMMA WalksExist == \A n \in Nat : \E f : Walks(f, n)
<1> DEFINE T == {n \in Nat : \E f : Walks(f, n)}
<1>1. 0 \in T
  <2> DEFINE e == [i \in 0..0 |-> Root]
  <2>1. e = [i \in 0..0 |-> IF i = 0 THEN Root ELSE next[e[i - 1]]]
    OBVIOUS
  <2>2. Walks(e, 0)
    <3> HIDE DEF e
    <3> QED BY <2>1 DEF Walks
  <2> QED BY <2>2
<1>2. ASSUME NEW n \in Nat, n \in T PROVE n + 1 \in T
  <2>1. PICK f : Walks(f, n)
    BY <1>2
  <2> DEFINE g == [i \in 0..(n + 1) |-> IF i = n + 1 THEN next[f[n]] ELSE f[i]]
  <2>2. ASSUME NEW i \in 0..(n + 1)
        PROVE  g[i] = IF i = 0 THEN Root ELSE next[g[i - 1]]
    <3>1. CASE i = n + 1
      BY <3>1
    <3>2. CASE i # n + 1
      <4>1. i \in 0..n /\ g[i] = f[i] /\ (i # 0 => i - 1 \in 0..n /\ g[i - 1] = f[i - 1])
        BY <3>2
      <4>2. f[i] = IF i = 0 THEN Root ELSE next[f[i - 1]]
        BY <2>1, <4>1, WalksAt
      <4> HIDE DEF g
      <4> QED BY <4>1, <4>2
    <3> QED BY <3>1, <3>2
  <2>3. g = [i \in 0..(n + 1) |-> g[i]]
    OBVIOUS
  <2>4. Walks(g, n + 1)
    <3> HIDE DEF g
    <3> QED BY <2>2, <2>3 DEF Walks
  <2> HIDE DEF g
  <2> QED BY <2>4
<1> HIDE DEF T
<1>3. Nat \subseteq T
  BY <1>1, <1>2, NatSetInduction
<1> QED BY <1>3 DEF T

\* The threaded sequence is the abstract order.
LEMMA ChainIsOrder ==
  ASSUME IsFiniteSet(Node), linked \subseteq Node, NEW s, IsChain(s)
  PROVE  Order = s
<1> DEFINE L == Len(s)
           N == Cardinality(Node)
<1>1. s \in Seq(Node) /\ L \in Nat /\ s \in [1..L -> Node]
  BY LenProperties DEF IsChain
<1>2. Cardinality(linked) = L
  <2>1. s \in [1..L -> linked]
    BY <1>1 DEF IsChain
  <2>2. DOMAIN s = 1..L
    BY <1>1
  <2>3. IsInjective(s)
    BY <2>2 DEF IsChain, IsInjective
  <2>4. \A n \in linked : \E j \in 1..L : s[j] = n
    BY DEF IsChain
  <2> HIDE DEF L
  <2>5. s \in Bijection(1..L, linked)
    BY <2>1, <2>3, <2>4 DEF Bijection, Injection, Surjection
  <2>6. ExistsBijection(1..L, linked)
    BY <2>5 DEF ExistsBijection
  <2> QED BY <1>1, <2>6, FS_CountingElements
<1>3. N \in Nat /\ L <= N
  <2>1. N \in Nat
    BY FS_CardinalityType
  <2>2. Cardinality(linked) <= N
    BY FS_Subset
  <2> QED BY <1>2, <2>1, <2>2
<1>4. Walks(After, N)
  <2>1. \E f : Walks(f, N)
    BY <1>3, WalksExist
  <2> HIDE DEF N
  <2>2. After = CHOOSE f : f = [n \in 0..N |-> IF n = 0 THEN Root ELSE next[f[n - 1]]]
    BY DEF After, N
  <2>3. \E f : f = [i \in 0..N |-> IF i = 0 THEN Root ELSE next[f[i - 1]]]
    BY <2>1, Zenon DEF Walks
  <2>4. Walks(CHOOSE f : f = [n \in 0..N |-> IF n = 0 THEN Root ELSE next[f[n - 1]]], N)
    BY <2>3, Zenon DEF Walks
  <2> HIDE DEF After
  <2> QED BY <2>2, <2>4, Zenon
<1>5. \A i \in 0..L : next[At(s, i)] = At(s, i + 1)
  BY DEF IsChain
<1>6. At(s, 0) = Root /\ \A i \in 1..L : At(s, i) = s[i]
  BY <1>1 DEF At
<1> HIDE DEF L, N
<1>7. \A i \in 0..L : After[i] = At(s, i)
  <2> DEFINE T == {i \in Nat : i \in 0..L => After[i] = At(s, i)}
  <2>1. 0 \in T
    <3>1. 0 \in 0..N
      BY <1>3
    <3>2. After[0] = Root
      BY <1>3, <1>4, <3>1, WalksAt
    <3> QED BY <1>6, <3>2
  <2>2. ASSUME NEW i \in Nat, i \in T PROVE i + 1 \in T
    <3> SUFFICES ASSUME i + 1 \in 0..L PROVE After[i + 1] = At(s, i + 1)
      OBVIOUS
    <3>1. i \in 0..L /\ i + 1 \in 0..N /\ i + 1 # 0 /\ (i + 1) - 1 = i
      BY <1>1, <1>3
    <3>2. After[i + 1] = next[After[(i + 1) - 1]]
      BY <1>3, <1>4, <3>1, WalksAt
    <3>3. After[i] = At(s, i)
      BY <2>2, <3>1
    <3> QED BY <1>5, <3>1, <3>2, <3>3
  <2> HIDE DEF T
  <2>3. Nat \subseteq T
    BY <2>1, <2>2, NatSetInduction
  <2> QED BY <1>1, <2>3 DEF T
<1>8. \A i \in 1..L : After[i] = s[i]
  <2> SUFFICES ASSUME NEW i \in 1..L PROVE After[i] = s[i]
    OBVIOUS
  <2>1. i \in 0..L
    BY <1>1
  <2> QED BY <1>6, <1>7, <2>1
<1>9. Order = [i \in 1..L |-> After[i]]
  BY <1>2 DEF Order
<1>10. s = [i \in 1..L |-> s[i]]
  BY <1>1
<1> QED BY <1>8, <1>9, <1>10

-----------------------------------------------------------------------------
(* Sequences with a node more, or less. *)

\* t is s with n at place i, and s without place i.
IsInserted(t, s, i, n) ==
    /\ t \in Seq(Node)
    /\ Len(t) = Len(s) + 1
    /\ \A j \in 1..(i - 1) : t[j] = s[j]
    /\ t[i] = n
    /\ \A j \in i..Len(s) : t[j + 1] = s[j]

IsRemoved(t, s, i) ==
    /\ t \in Seq(Node)
    /\ Len(t) = Len(s) - 1
    /\ \A j \in 1..(i - 1) : t[j] = s[j]
    /\ \A j \in i..(Len(s) - 1) : t[j] = s[j + 1]

LEMMA FrontInserts ==
  ASSUME NEW s \in Seq(Node), NEW n \in Node
  PROVE  IsInserted(<<n>> \o s, s, 1, n)
<1> DEFINE L == Len(s)
           u == <<n>>
<1>1. L \in Nat /\ u \in Seq(Node) /\ Len(u) = 1 /\ u[1] = n
  BY LenProperties
<1>2. IsCat(Node, u, s)
  <2> HIDE DEF u
  <2> QED BY <1>1, CatAt
<1> DEFINE t == Cat(u, s)
<1>3. /\ t \in Seq(Node) /\ Len(t) = 1 + L /\ t[1] = n
      /\ \A j \in 1..L : t[1 + j] = s[j]
  <2>1. 1 \in 1..1
    OBVIOUS
  <2> HIDE DEF u
  <2> QED BY <1>1, <1>2, <2>1 DEF IsCat
<1>4. t = <<n>> \o s
  BY DEF Cat
<1> HIDE DEF t
<1>5. Len(t) = L + 1 /\ (1..(1 - 1)) = {} /\ \A j \in 1..L : t[j + 1] = s[j]
  <2> HIDE DEF L
  <2> QED BY <1>1, <1>3
<1>6. IsInserted(t, s, 1, n)
  BY <1>3, <1>5 DEF IsInserted
<1> QED BY <1>4, <1>6

LEMMA InsertAtInserts ==
  ASSUME NEW s \in Seq(Node), NEW n \in Node, NEW i \in 1..(Len(s) + 1)
  PROVE  IsInserted(InsertAt(s, i, n), s, i, n)
<1> DEFINE L == Len(s)
           p == SubSeq(s, 1, i - 1)
           u == <<n>>
           q == SubSeq(s, i, L)
<1>1. L \in Nat /\ i \in Nat \ {0} /\ i - 1 \in Nat /\ i <= L + 1 /\ i - 1 <= L
  <2>1. L \in Nat /\ i \in 1..(L + 1)
    BY LenProperties
  <2> HIDE DEF L
  <2> QED BY <2>1
<1>2. IsSubSeq(Node, s, 1, i - 1) /\ IsSubSeq(Node, s, i, L)
  <2>1. 1 \in Nat \ {0} /\ 1 <= (i - 1) + 1 /\ L <= Len(s)
    BY <1>1
  <2> HIDE DEF L
  <2> QED BY <1>1, <2>1, SubSeqAt DEF L
<1> HIDE DEF L
<1>3. p \in Seq(Node) /\ Len(p) = i - 1 /\ \A j \in 1..(i - 1) : p[j] = s[j]
  <2>1. (i - 1) - 1 + 1 = i - 1 /\ \A j \in 1..(i - 1) : 1 + j - 1 = j
    BY <1>1
  <2> QED BY <1>2, <2>1 DEF IsSubSeq
<1>4. q \in Seq(Node) /\ Len(q) = L - i + 1 /\ \A j \in 1..(L - i + 1) : q[j] = s[i + j - 1]
  BY <1>2 DEF IsSubSeq
<1>5. u \in Seq(Node) /\ Len(u) = 1 /\ u[1] = n
  OBVIOUS
<1> DEFINE pu == Cat(p, u)
           t == Cat(pu, q)
<1>6. t = InsertAt(s, i, n)
  BY DEF InsertAt, Cat, L
<1> HIDE DEF p, q, u
<1>7. IsCat(Node, p, u)
  BY <1>3, <1>5, CatAt
<1>8. /\ pu \in Seq(Node) /\ Len(pu) = i
      /\ (\A j \in 1..(i - 1) : pu[j] = s[j]) /\ pu[i] = n
  <2>1. 1 \in 1..1 /\ (i - 1) + 1 = i
    BY <1>1
  <2> QED BY <1>3, <1>5, <1>7, <2>1 DEF IsCat
<1> HIDE DEF pu
<1>9. IsCat(Node, pu, q)
  BY <1>4, <1>8, CatAt
<1>10. /\ t \in Seq(Node) /\ Len(t) = i + (L - i + 1)
       /\ \A j \in 1..i : t[j] = pu[j]
       /\ \A j \in 1..(L - i + 1) : t[i + j] = q[j]
  BY <1>4, <1>8, <1>9 DEF IsCat
<1> HIDE DEF t
<1>11. Len(t) = L + 1
  BY <1>1, <1>10
<1>12. \A j \in 1..(i - 1) : t[j] = s[j]
  <2>1. \A j \in 1..(i - 1) : j \in 1..i
    BY <1>1
  <2> QED BY <1>8, <1>10, <2>1
<1>13. t[i] = n
  <2>1. i \in 1..i
    BY <1>1
  <2> QED BY <1>8, <1>10, <2>1
<1>14. \A j \in i..L : t[j + 1] = s[j]
  <2> SUFFICES ASSUME NEW j \in i..L PROVE t[j + 1] = s[j]
    OBVIOUS
  <2> DEFINE k == j - i + 1
  <2>1. k \in 1..(L - i + 1) /\ i + k = j + 1 /\ i + k - 1 = j
    BY <1>1
  <2> HIDE DEF k
  <2> QED BY <1>4, <1>10, <2>1
<1>15. IsInserted(t, s, i, n)
  BY <1>10, <1>11, <1>12, <1>13, <1>14 DEF IsInserted, L
<1> QED BY <1>6, <1>15

LEMMA RemoveAtRemoves ==
  ASSUME NEW s \in Seq(Node), NEW i \in 1..Len(s)
  PROVE  IsRemoved(RemoveAt(s, i), s, i)
<1> DEFINE L == Len(s)
           p == SubSeq(s, 1, i - 1)
           q == SubSeq(s, i + 1, L)
<1>1. L \in Nat /\ i \in Nat \ {0} /\ i - 1 \in Nat /\ i <= L
  <2>1. L \in Nat /\ i \in 1..L
    BY LenProperties
  <2> HIDE DEF L
  <2> QED BY <2>1
<1>2. IsSubSeq(Node, s, 1, i - 1) /\ IsSubSeq(Node, s, i + 1, L)
  <2>1. /\ 1 \in Nat \ {0} /\ 1 <= (i - 1) + 1 /\ i - 1 <= L /\ L <= L
        /\ i + 1 \in Nat \ {0} /\ i + 1 <= L + 1
    BY <1>1
  <2> HIDE DEF L
  <2> QED BY <1>1, <2>1, SubSeqAt DEF L
<1> HIDE DEF L
<1>3. p \in Seq(Node) /\ Len(p) = i - 1 /\ \A j \in 1..(i - 1) : p[j] = s[j]
  <2>1. (i - 1) - 1 + 1 = i - 1 /\ \A j \in 1..(i - 1) : 1 + j - 1 = j
    BY <1>1
  <2> QED BY <1>2, <2>1 DEF IsSubSeq
<1>4. q \in Seq(Node) /\ Len(q) = L - i /\ \A j \in 1..(L - i) : q[j] = s[i + j]
  <2>1. L - (i + 1) + 1 = L - i /\ \A j \in 1..(L - i) : i + 1 + j - 1 = i + j
    BY <1>1
  <2> QED BY <1>2, <2>1 DEF IsSubSeq
<1> DEFINE t == Cat(p, q)
<1>5. t = RemoveAt(s, i)
  BY DEF RemoveAt, Cat, L
<1> HIDE DEF p, q
<1>6. IsCat(Node, p, q)
  BY <1>3, <1>4, CatAt
<1>7. /\ t \in Seq(Node) /\ Len(t) = (i - 1) + (L - i)
      /\ \A j \in 1..(i - 1) : t[j] = s[j]
      /\ \A j \in 1..(L - i) : t[(i - 1) + j] = q[j]
  BY <1>3, <1>4, <1>6 DEF IsCat
<1> HIDE DEF t
<1>8. Len(t) = L - 1
  BY <1>1, <1>7
<1>9. \A j \in i..(L - 1) : t[j] = s[j + 1]
  <2> SUFFICES ASSUME NEW j \in i..(L - 1) PROVE t[j] = s[j + 1]
    OBVIOUS
  <2> DEFINE k == j - i + 1
  <2>1. k \in 1..(L - i) /\ (i - 1) + k = j /\ i + k = j + 1
    BY <1>1
  <2> HIDE DEF k
  <2> QED BY <1>4, <1>7, <2>1
<1>10. IsRemoved(t, s, i)
  BY <1>7, <1>8, <1>9 DEF IsRemoved, L
<1> QED BY <1>5, <1>10

-----------------------------------------------------------------------------
(* Every operation threads the new sequence. *)

LEMMA ChainPlaces ==
  ASSUME TypeOK, LinksAgree, NEW s, IsChain(s)
  PROVE  /\ s \in Seq(Node) /\ Len(s) \in Nat
         /\ At(s, 0) = Root /\ At(s, Len(s) + 1) = Root
         /\ \A j \in 1..Len(s) : At(s, j) = s[j] /\ s[j] \in linked /\ s[j] # Root
         /\ \A j \in 0..Len(s) : At(s, j) \in On
         /\ \A j, k \in 0..Len(s) : At(s, j) = At(s, k) => j = k
         /\ \A j \in 0..Len(s) : next[At(s, j)] = At(s, j + 1) /\ prev[At(s, j + 1)] = At(s, j)
<1> DEFINE L == Len(s)
<1>1. s \in Seq(Node) /\ L \in Nat
  BY LenProperties DEF IsChain
<1>2. At(s, 0) = Root /\ At(s, L + 1) = Root
  <2>1. 0 \notin 1..L /\ L + 1 \notin 1..L
    <3> HIDE DEF L
    <3> QED BY <1>1
  <2> QED BY <2>1 DEF At
<1>3. \A j \in 1..L : At(s, j) = s[j] /\ s[j] \in linked /\ s[j] # Root
  BY LinkedListAssumption DEF At, IsChain, TypeOK
<1>4. \A j \in 1..L : \A k \in 1..L : s[j] = s[k] => j = k
  BY DEF IsChain
<1>5. \A j \in 0..L : next[At(s, j)] = At(s, j + 1)
  BY DEF IsChain
<1> HIDE DEF L
<1>6. \A j \in 0..L : j = 0 \/ j \in 1..L
  BY <1>1
<1>7. \A j \in 0..L : At(s, j) \in On
  BY <1>2, <1>3, <1>6 DEF On
<1>8. ASSUME NEW j \in 0..L, NEW k \in 0..L, At(s, j) = At(s, k) PROVE j = k
  BY <1>2, <1>3, <1>4, <1>6, <1>8
<1>9. \A j \in 0..L : prev[At(s, j + 1)] = At(s, j)
  BY <1>5, <1>7 DEF LinksAgree
<1> QED BY <1>1, <1>2, <1>3, <1>5, <1>7, <1>8, <1>9 DEF L

LEMMA ChainInsert ==
  ASSUME TypeOK, LinksAgree, NEW s, IsChain(s), NEW n \in Node, n \notin linked,
         NEW i \in 1..(Len(s) + 1), NEW t, IsInserted(t, s, i, n),
         Between(n, At(s, i - 1), At(s, i)), linked' = linked \cup {n}
  PROVE  IsChain(t)'
<1> DEFINE L == Len(s)
           p == At(s, i - 1)
<1>1. /\ L \in Nat /\ At(s, 0) = Root /\ At(s, L + 1) = Root
      /\ \A j \in 1..L : At(s, j) = s[j] /\ s[j] \in linked /\ s[j] # Root
      /\ \A j \in 0..L : At(s, j) \in On
      /\ \A j \in 0..L : \A k \in 0..L : At(s, j) = At(s, k) => j = k
      /\ \A j \in 0..L : next[At(s, j)] = At(s, j + 1)
  BY ChainPlaces
<1>2. /\ t \in Seq(Node) /\ Len(t) = L + 1
      /\ \A j \in 1..(i - 1) : t[j] = s[j]
      /\ t[i] = n
      /\ \A j \in i..L : t[j + 1] = s[j]
  BY DEF IsInserted
<1>3. i \in 1..(L + 1) /\ \A m \in linked : \E j \in 1..L : s[j] = m
  BY DEF IsChain
<1> HIDE DEF L
<1>4. i - 1 \in 0..L /\ p \in On /\ p \in Cell /\ n # p /\ n \in Cell /\ n # Root
  <2>1. i - 1 \in 0..L
    BY <1>1, <1>3
  <2>2. p \in On
    BY <1>1, <2>1
  <2> HIDE DEF p
  <2> QED BY <2>1, <2>2, LinkedListAssumption DEF On, Cell, TypeOK
<1>5. /\ next'[n] = At(s, i) /\ next'[p] = n
      /\ \A c \in Cell : c # n /\ c # p => next'[c] = next[c]
  <2> HIDE DEF p
  <2> QED BY <1>4 DEF Between, TypeOK, p
\* Where the cells of t come from.
<1>6. /\ \A j \in 0..(i - 1) : At(t, j) = At(s, j)
      /\ At(t, i) = n
      /\ \A j \in i..(L + 1) : At(t, j + 1) = At(s, j)
  <2>1. \A j \in 1..(L + 1) : At(t, j) = t[j]
    BY <1>2 DEF At
  <2>2. \A j \in 0..(L + 2) : j \notin 1..(L + 1) => At(t, j) = Root
    BY <1>2 DEF At
  <2>3. ASSUME NEW j \in 0..(i - 1) PROVE At(t, j) = At(s, j)
    <3>1. CASE j = 0
      <4>1. j \in 0..(L + 2) /\ j \notin 1..(L + 1)
        BY <1>1, <3>1
      <4> QED BY <1>1, <2>2, <3>1, <4>1
    <3>2. CASE j # 0
      <4>1. j \in 1..(i - 1) /\ j \in 1..L /\ j \in 1..(L + 1)
        BY <1>1, <1>3, <3>2
      <4> QED BY <1>1, <1>2, <2>1, <4>1
    <3> QED BY <3>1, <3>2
  <2>4. At(t, i) = n
    BY <1>2, <1>3, <2>1
  <2>5. ASSUME NEW j \in i..(L + 1) PROVE At(t, j + 1) = At(s, j)
    <3>1. CASE j = L + 1
      <4>1. j + 1 \in 0..(L + 2) /\ j + 1 \notin 1..(L + 1)
        BY <1>1, <3>1
      <4> QED BY <1>1, <2>2, <3>1, <4>1
    <3>2. CASE j # L + 1
      <4>1. j \in i..L /\ j \in 1..L /\ j + 1 \in 1..(L + 1)
        BY <1>1, <1>3, <3>2
      <4> QED BY <1>1, <1>2, <2>1, <4>1
    <3> QED BY <3>1, <3>2
  <2> QED BY <2>3, <2>4, <2>5
<1>7. \A j \in 0..L : At(s, j) # n /\ At(s, j) \in Cell
  BY <1>1, <1>4 DEF On, Cell, TypeOK
<1>8. ASSUME NEW j \in 0..(L + 1) PROVE next'[At(t, j)] = At(t, j + 1)
  <2>1. CASE j < i - 1
    <3>1. j \in 0..(i - 1) /\ j + 1 \in 0..(i - 1) /\ j \in 0..L /\ j # i - 1
      BY <1>1, <1>3, <2>1
    <3>2. At(s, j) # p
      BY <1>1, <1>4, <3>1
    <3> QED BY <1>1, <1>5, <1>6, <1>7, <3>1, <3>2
  <2>2. CASE j = i - 1
    <3>1. j \in 0..(i - 1) /\ j + 1 = i
      BY <1>3, <2>2
    <3> QED BY <1>5, <1>6, <2>2, <3>1
  <2>3. CASE j = i
    <3>1. i \in i..(L + 1)
      BY <1>1, <1>3
    <3> QED BY <1>5, <1>6, <2>3, <3>1
  <2>4. CASE j > i
    <3> DEFINE k == j - 1
    <3>1. k \in 0..L /\ k # i - 1 /\ k \in i..(L + 1) /\ k + 1 \in i..(L + 1) /\ j = k + 1
      BY <1>1, <1>3, <2>4
    <3> HIDE DEF k
    <3>2. At(s, k) # p
      BY <1>1, <1>4, <3>1
    <3>3. At(t, j) = At(s, k) /\ At(t, j + 1) = At(s, k + 1)
      BY <1>6, <3>1
    <3> QED BY <1>1, <1>5, <1>7, <3>1, <3>2, <3>3
  <2> QED BY <1>1, <1>3, <2>1, <2>2, <2>3, <2>4
\* Every place of t is the new one, or a place of s.
<1>9. ASSUME NEW j \in 1..(L + 1)
      PROVE  \/ j = i /\ t[j] = n
             \/ j \in 1..(i - 1) /\ j \in 1..L /\ t[j] = s[j]
             \/ j - 1 \in i..L /\ j - 1 \in 1..L /\ t[j] = s[j - 1]
  <2>1. CASE j = i
    BY <1>2, <2>1
  <2>2. CASE j < i
    <3>1. j \in 1..(i - 1) /\ j \in 1..L
      BY <1>1, <1>3, <2>2
    <3> QED BY <1>2, <3>1
  <2>3. CASE j > i
    <3>1. j - 1 \in i..L /\ j - 1 \in 1..L /\ (j - 1) + 1 = j
      BY <1>1, <1>3, <2>3
    <3> QED BY <1>2, <3>1
  <2> QED BY <1>3, <2>1, <2>2, <2>3
<1>10. \A j \in 1..(L + 1) : t[j] \in linked'
  BY <1>1, <1>9
<1>11. \A m \in linked' : \E j \in 1..(L + 1) : t[j] = m
  <2> SUFFICES ASSUME NEW m \in linked' PROVE \E j \in 1..(L + 1) : t[j] = m
    OBVIOUS
  <2>1. CASE m = n
    BY <1>2, <1>3, <2>1
  <2>2. CASE m # n
    <3>1. PICK k \in 1..L : s[k] = m
      BY <1>3, <2>2
    <3>2. CASE k < i
      <4>1. k \in 1..(i - 1) /\ k \in 1..(L + 1)
        BY <1>1, <1>3, <3>2
      <4> QED BY <1>2, <3>1, <4>1
    <3>3. CASE k >= i
      <4>1. k \in i..L /\ k + 1 \in 1..(L + 1)
        BY <1>1, <1>3, <3>3
      <4> QED BY <1>2, <3>1, <4>1
    <3> QED BY <1>3, <3>2, <3>3
  <2> QED BY <2>1, <2>2
<1>12. ASSUME NEW j \in 1..(L + 1), NEW k \in 1..(L + 1), t[j] = t[k] PROVE j = k
  <2>1. \A a \in 1..L : \A b \in 1..L : s[a] = s[b] => a = b
    BY DEF IsChain, L
  <2>2. \A a \in 1..L : s[a] # n
    BY <1>1
  <2>3. CASE j = i \/ k = i
    BY <1>9, <1>12, <2>2, <2>3
  <2>4. CASE j # i /\ k # i
    <3>1. ASSUME NEW a \in 1..L, NEW b \in 1..L, t[j] = s[a], t[k] = s[b] PROVE a = b
      BY <1>12, <2>1, <3>1
    <3>2. CASE j < i /\ k < i
      BY <1>9, <3>1, <3>2
    <3>3. CASE j > i /\ k > i
      <4>1. j - 1 \in 1..L /\ t[j] = s[j - 1] /\ k - 1 \in 1..L /\ t[k] = s[k - 1]
        BY <1>3, <1>9, <3>3
      <4>2. j - 1 = k - 1
        BY <3>1, <4>1
      <4> QED BY <4>2
    <3>4. CASE j < i /\ k > i
      <4>1. j \in 1..L /\ t[j] = s[j] /\ k - 1 \in 1..L /\ k - 1 >= i /\ t[k] = s[k - 1]
        BY <1>3, <1>9, <3>4
      <4>2. j = k - 1
        BY <3>1, <4>1
      <4> QED BY <1>3, <3>4, <4>1, <4>2
    <3>5. CASE j > i /\ k < i
      <4>1. k \in 1..L /\ t[k] = s[k] /\ j - 1 \in 1..L /\ j - 1 >= i /\ t[j] = s[j - 1]
        BY <1>3, <1>9, <3>5
      <4>2. j - 1 = k
        BY <3>1, <4>1
      <4> QED BY <1>3, <3>5, <4>1, <4>2
    <3> QED BY <1>3, <2>4, <3>2, <3>3, <3>4, <3>5
  <2> QED BY <2>3, <2>4
<1> QED BY <1>2, <1>8, <1>10, <1>11, <1>12 DEF IsChain, At

LEMMA ChainRemove ==
  ASSUME TypeOK, LinksAgree, NEW s, IsChain(s), NEW n \in linked,
         NEW i \in 1..Len(s), s[i] = n, NEW t, IsRemoved(t, s, i), del(n)
  PROVE  IsChain(t)'
<1> DEFINE L == Len(s)
           p == At(s, i - 1)
<1>1. /\ L \in Nat /\ At(s, 0) = Root /\ At(s, L + 1) = Root
      /\ \A j \in 1..L : At(s, j) = s[j] /\ s[j] \in linked /\ s[j] # Root
      /\ \A j \in 0..L : At(s, j) \in On
      /\ \A j \in 0..L : \A k \in 0..L : At(s, j) = At(s, k) => j = k
      /\ \A j \in 0..L : next[At(s, j)] = At(s, j + 1) /\ prev[At(s, j + 1)] = At(s, j)
  BY ChainPlaces
<1>2. /\ t \in Seq(Node) /\ Len(t) = L - 1
      /\ \A j \in 1..(i - 1) : t[j] = s[j]
      /\ \A j \in i..(L - 1) : t[j] = s[j + 1]
  BY DEF IsRemoved
<1>3. /\ i \in 1..L /\ s[i] = n /\ \A m \in linked : \E j \in 1..L : s[j] = m
      /\ \A j \in 1..L : \A k \in 1..L : s[j] = s[k] => j = k
  BY DEF IsChain
<1> HIDE DEF L
<1>4. i - 1 \in 0..L /\ i \in 0..L /\ (i - 1) + 1 = i
  BY <1>1, <1>3
<1>5. p \in Cell /\ prev[n] = p /\ next[n] = At(s, i + 1)
  <2>1. p \in On /\ At(s, i) = n
    BY <1>1, <1>3, <1>4
  <2>2. prev[At(s, (i - 1) + 1)] = p /\ next[At(s, i)] = At(s, i + 1)
    BY <1>1, <1>4
  <2> HIDE DEF p
  <2> QED BY <1>4, <2>1, <2>2 DEF On, Cell, TypeOK
<1>6. /\ next'[p] = At(s, i + 1)
      /\ \A c \in Cell : c # p => next'[c] = next[c]
  <2> HIDE DEF p
  <2> QED BY <1>5 DEF del, TypeOK
\* Where the cells of t come from.
<1>7. /\ \A j \in 0..(i - 1) : At(t, j) = At(s, j)
      /\ \A j \in i..L : At(t, j) = At(s, j + 1)
  <2>1. \A j \in 1..(L - 1) : At(t, j) = t[j]
    BY <1>2 DEF At
  <2>2. \A j \in 0..L : j \notin 1..(L - 1) => At(t, j) = Root
    BY <1>2 DEF At
  <2>3. ASSUME NEW j \in 0..(i - 1) PROVE At(t, j) = At(s, j)
    <3>1. CASE j = 0
      <4>1. j \in 0..L /\ j \notin 1..(L - 1)
        BY <1>1, <3>1
      <4> QED BY <1>1, <2>2, <3>1, <4>1
    <3>2. CASE j # 0
      <4>1. j \in 1..(i - 1) /\ j \in 1..L /\ j \in 1..(L - 1)
        BY <1>1, <1>3, <3>2
      <4> QED BY <1>1, <1>2, <2>1, <4>1
    <3> QED BY <3>1, <3>2
  <2>4. ASSUME NEW j \in i..L PROVE At(t, j) = At(s, j + 1)
    <3>1. CASE j = L
      <4>1. j \in 0..L /\ j \notin 1..(L - 1)
        BY <1>1, <3>1
      <4> QED BY <1>1, <2>2, <3>1, <4>1
    <3>2. CASE j # L
      <4>1. j \in i..(L - 1) /\ j + 1 \in 1..L /\ j \in 1..(L - 1)
        BY <1>1, <1>3, <3>2
      <4> QED BY <1>1, <1>2, <2>1, <4>1
    <3> QED BY <3>1, <3>2
  <2> QED BY <2>3, <2>4
<1>8. \A j \in 0..L : At(s, j) \in Cell
  BY <1>1 DEF On, Cell, TypeOK
<1>9. ASSUME NEW j \in 0..(L - 1) PROVE next'[At(t, j)] = At(t, j + 1)
  <2>1. CASE j < i - 1
    <3>1. j \in 0..(i - 1) /\ j + 1 \in 0..(i - 1) /\ j \in 0..L /\ j # i - 1
      BY <1>1, <1>3, <2>1
    <3>2. At(s, j) # p
      BY <1>1, <1>4, <3>1
    <3> QED BY <1>1, <1>6, <1>7, <1>8, <3>1, <3>2
  <2>2. CASE j = i - 1
    <3>1. j \in 0..(i - 1) /\ j + 1 = i /\ i \in i..L
      BY <1>1, <1>3, <2>2
    <3> QED BY <1>6, <1>7, <2>2, <3>1
  <2>3. CASE j >= i
    <3> DEFINE k == j + 1
    <3>1. k \in 0..L /\ k # i - 1 /\ j \in i..L /\ k \in i..L /\ j + 1 = k
      BY <1>1, <1>3, <2>3
    <3> HIDE DEF k
    <3>2. At(s, k) # p
      BY <1>1, <1>4, <3>1
    <3>3. At(t, j) = At(s, k) /\ At(t, j + 1) = At(s, k + 1)
      BY <1>7, <3>1
    <3> QED BY <1>1, <1>6, <1>8, <3>1, <3>2, <3>3
  <2> QED BY <1>1, <1>3, <2>1, <2>2, <2>3
\* Every place of t is a place of s other than i.
<1>10. ASSUME NEW j \in 1..(L - 1)
       PROVE  \/ j < i /\ j \in 1..L /\ t[j] = s[j]
              \/ j >= i /\ j + 1 \in 1..L /\ t[j] = s[j + 1]
  <2>1. CASE j < i
    <3>1. j \in 1..(i - 1) /\ j \in 1..L
      BY <1>1, <1>3, <2>1
    <3> QED BY <1>2, <2>1, <3>1
  <2>2. CASE j >= i
    <3>1. j \in i..(L - 1) /\ j + 1 \in 1..L
      BY <1>1, <1>3, <2>2
    <3> QED BY <1>2, <2>2, <3>1
  <2> QED BY <1>3, <2>1, <2>2
<1>11. linked' = linked \ {n}
  BY DEF del
<1>12. ASSUME NEW j \in 1..(L - 1) PROVE t[j] \in linked'
  <2>1. PICK k \in 1..L : k # i /\ t[j] = s[k]
    <3>1. CASE j < i /\ j \in 1..L /\ t[j] = s[j]
      BY <1>3, <3>1
    <3>2. CASE j >= i /\ j + 1 \in 1..L /\ t[j] = s[j + 1]
      <4>1. j + 1 # i
        BY <1>3, <3>2
      <4> QED BY <3>2, <4>1
    <3> QED BY <1>10, <3>1, <3>2
  <2> QED BY <1>1, <1>3, <1>11, <2>1
<1>13. ASSUME NEW m \in linked' PROVE \E j \in 1..(L - 1) : t[j] = m
  <2>1. PICK k \in 1..L : s[k] = m /\ k # i
    BY <1>3, <1>11
  <2>2. CASE k < i
    <3>1. k \in 1..(i - 1) /\ k \in 1..(L - 1)
      BY <1>1, <1>3, <2>2
    <3> QED BY <1>2, <2>1, <3>1
  <2>3. CASE k > i
    <3>1. k - 1 \in i..(L - 1) /\ k - 1 \in 1..(L - 1) /\ (k - 1) + 1 = k
      BY <1>1, <1>3, <2>3
    <3> QED BY <1>2, <2>1, <3>1
  <2> QED BY <1>3, <2>1, <2>2, <2>3
<1>14. ASSUME NEW j \in 1..(L - 1), NEW k \in 1..(L - 1), t[j] = t[k] PROVE j = k
  <2>1. ASSUME NEW a \in 1..L, NEW b \in 1..L, t[j] = s[a], t[k] = s[b] PROVE a = b
    BY <1>3, <1>14, <2>1
  <2>2. CASE j < i /\ k < i
    BY <1>3, <1>10, <2>1, <2>2
  <2>3. CASE j >= i /\ k >= i
    <3>1. j + 1 \in 1..L /\ t[j] = s[j + 1] /\ k + 1 \in 1..L /\ t[k] = s[k + 1]
      BY <1>3, <1>10, <2>3
    <3>2. j + 1 = k + 1
      BY <2>1, <3>1
    <3> QED BY <3>2
  <2>4. CASE j < i /\ k >= i
    <3>1. j \in 1..L /\ t[j] = s[j] /\ k + 1 \in 1..L /\ t[k] = s[k + 1]
      BY <1>3, <1>10, <2>4
    <3>2. j = k + 1
      BY <2>1, <3>1
    <3> QED BY <1>3, <2>4, <3>2
  <2>5. CASE j >= i /\ k < i
    <3>1. k \in 1..L /\ t[k] = s[k] /\ j + 1 \in 1..L /\ t[j] = s[j + 1]
      BY <1>3, <1>10, <2>5
    <3>2. j + 1 = k
      BY <2>1, <3>1
    <3> QED BY <1>3, <2>5, <3>2
  <2> QED BY <1>3, <2>2, <2>3, <2>4, <2>5
<1> QED BY <1>2, <1>9, <1>12, <1>13, <1>14 DEF IsChain, At

\* What the abstract specification calls IsOn and Index.
Place(n) == CHOOSE i \in 1..Len(Order) : Order[i] = n

LEMMA OnChain ==
  ASSUME NEW s, IsChain(s), Order = s
  PROVE  /\ \A n : (\E i \in 1..Len(Order) : Order[i] = n) <=> n \in linked
         /\ \A n \in linked : Place(n) \in 1..Len(s) /\ s[Place(n)] = n
<1>1. \A n : (\E i \in 1..Len(s) : s[i] = n) <=> n \in linked
  BY DEF IsChain
<1> HIDE DEF Order
<1> QED BY <1>1 DEF Place

ChainsAreOrder == linked \subseteq Node => \A s : IsChain(s) => Order = s

LEMMA NextOrder ==
  ASSUME IsFiniteSet(Node)
  PROVE  ChainsAreOrder'
<1>1. ChainsAreOrder
  BY ChainIsOrder DEF ChainsAreOrder
<1> QED BY <1>1, PTL

\* The invariant is kept, and every step is a step of the sequence.
LEMMA ListStep ==
  ASSUME IsFiniteSet(Node), ListInv, [Next]_vars
  PROVE  ListInv' /\ [Abstract!ListNext]_Order
<1>1. TypeOK /\ LinksAgree /\ TypeOK' /\ LinksAgree'
  BY LinksStep DEF ListInv
<1>2. PICK s : IsChain(s)
  BY DEF ListInv
<1>3. /\ s \in Seq(Node) /\ Len(s) \in Nat
      /\ At(s, 0) = Root
      /\ \A j \in 1..Len(s) : At(s, j) = s[j]
      /\ \A j \in 0..Len(s) : next[At(s, j)] = At(s, j + 1) /\ prev[At(s, j + 1)] = At(s, j)
  BY <1>1, <1>2, ChainPlaces
<1>4. Order = s
  BY <1>1, <1>2, ChainIsOrder DEF TypeOK
<1>5. ASSUME NEW t, IsChain(t)' PROVE ListInv' /\ Order' = t
  <2>1. ListInv'
    BY <1>1, <1>5 DEF ListInv
  <2>2. (linked \subseteq Node)'
    BY <1>1 DEF TypeOK
  <2>3. Order' = t
    BY <1>5, <2>2, NextOrder DEF ChainsAreOrder
  <2> QED BY <2>1, <2>3
<1>6. \A n : Abstract!IsOn(n) <=> n \in linked
  <2>1. \A n : (\E i \in 1..Len(Order) : Order[i] = n) <=> n \in linked
    BY <1>2, <1>4, OnChain
  <2> QED BY <2>1 DEF Abstract!IsOn, Order
<1>7. \A n : Abstract!Index(n) = Place(n)
  BY DEF Abstract!Index, Place, Order
<1>8. \A n \in linked : Place(n) \in 1..Len(s) /\ s[Place(n)] = n
  BY <1>2, <1>4, OnChain
<1>9. ASSUME NEW n \in Node, add(n)
      PROVE  ListInv' /\ Abstract!Add(n)
  <2>1. next[Root] = At(s, 1)
    <3>1. 0 \in 0..Len(s) /\ 0 + 1 = 1
      BY <1>3
    <3> QED BY <1>3, <3>1
  <2>2. /\ n \notin linked /\ linked' = linked \cup {n} /\ 1 \in 1..(Len(s) + 1) /\ 1 - 1 = 0
        /\ Between(n, At(s, 0), At(s, 1))
    BY <1>3, <1>9, <2>1 DEF add
  <2> DEFINE t == <<n>> \o s
  <2>3. IsInserted(t, s, 1, n)
    BY <1>3, FrontInserts
  <2> HIDE DEF t
  <2>4. IsChain(t)'
    <3>1. Between(n, At(s, 1 - 1), At(s, 1))
      BY <2>2
    <3> QED BY <1>1, <1>2, <2>2, <2>3, <3>1, ChainInsert
  <2>5. ListInv' /\ Order' = <<n>> \o Order
    BY <1>4, <1>5, <2>4 DEF t
  <2> QED BY <1>6, <2>2, <2>5 DEF Abstract!Add, Order
<1>10. ASSUME NEW n \in Node, NEW m \in Node, add_prev(n, m)
       PROVE  ListInv' /\ Abstract!AddPrev(n, m)
  <2>1. n \notin linked /\ m \in linked /\ Between(n, prev[m], m) /\ linked' = linked \cup {n}
    BY <1>10 DEF add_prev
  <2>2. PICK i \in 1..Len(s) : s[i] = m /\ i = Place(m)
    BY <1>8, <2>1
  <2> DEFINE t == InsertAt(s, i, n)
  <2>3. i \in 1..(Len(s) + 1) /\ i - 1 \in 0..Len(s) /\ (i - 1) + 1 = i
    BY <1>3, <2>2
  <2>4. Between(n, At(s, i - 1), At(s, i))
    <3>1. At(s, i) = m
      BY <1>3, <2>2
    <3>2. prev[m] = At(s, i - 1)
      BY <1>3, <2>3, <3>1
    <3> QED BY <2>1, <3>1, <3>2
  <2>5. IsInserted(t, s, i, n)
    BY <1>3, <2>3, InsertAtInserts
  <2> HIDE DEF t
  <2>6. IsChain(t)'
    BY <1>1, <1>2, <2>1, <2>3, <2>4, <2>5, ChainInsert
  <2>7. ListInv' /\ Order' = InsertAt(Order, Place(m), n)
    BY <1>4, <1>5, <2>2, <2>6 DEF t
  <2> QED BY <1>6, <1>7, <2>1, <2>7 DEF Abstract!AddPrev, Order, InsertAt, Abstract!InsertAt
<1>11. ASSUME NEW n \in Node, NEW m \in Node, add_next(n, m)
       PROVE  ListInv' /\ Abstract!AddNext(n, m)
  <2>1. n \notin linked /\ m \in linked /\ Between(n, m, next[m]) /\ linked' = linked \cup {n}
    BY <1>11 DEF add_next
  <2>2. PICK i \in 1..Len(s) : s[i] = m /\ i = Place(m)
    BY <1>8, <2>1
  <2> DEFINE t == InsertAt(s, i + 1, n)
  <2>3. i + 1 \in 1..(Len(s) + 1) /\ i \in 0..Len(s) /\ (i + 1) - 1 = i
    BY <1>3, <2>2
  <2>4. Between(n, At(s, (i + 1) - 1), At(s, i + 1))
    <3>1. At(s, i) = m
      BY <1>3, <2>2
    <3>2. next[m] = At(s, i + 1)
      BY <1>3, <2>3, <3>1
    <3> QED BY <2>1, <2>3, <3>1, <3>2
  <2>5. IsInserted(t, s, i + 1, n)
    BY <1>3, <2>3, InsertAtInserts
  <2> HIDE DEF t
  <2>6. IsChain(t)'
    <3> DEFINE j == i + 1
    <3>1. j \in 1..(Len(s) + 1) /\ Between(n, At(s, j - 1), At(s, j)) /\ IsInserted(t, s, j, n)
      BY <2>3, <2>4, <2>5
    <3> HIDE DEF j
    <3> QED BY <1>1, <1>2, <2>1, <3>1, ChainInsert
  <2>7. ListInv' /\ Order' = InsertAt(Order, Place(m) + 1, n)
    BY <1>4, <1>5, <2>2, <2>6 DEF t
  <2> QED BY <1>6, <1>7, <2>1, <2>7 DEF Abstract!AddNext, Order, InsertAt, Abstract!InsertAt
<1>12. ASSUME NEW n \in Node, del(n)
       PROVE  ListInv' /\ Abstract!Del(n)
  <2>1. n \in linked
    BY <1>12 DEF del
  <2>2. PICK i \in 1..Len(s) : s[i] = n /\ i = Place(n)
    BY <1>8, <2>1
  <2> DEFINE t == RemoveAt(s, i)
  <2>3. IsRemoved(t, s, i)
    BY <1>3, <2>2, RemoveAtRemoves
  <2> HIDE DEF t
  <2>4. IsChain(t)'
    BY <1>1, <1>2, <1>12, <2>1, <2>2, <2>3, ChainRemove
  <2>5. ListInv' /\ Order' = RemoveAt(Order, Place(n))
    BY <1>4, <1>5, <2>2, <2>4 DEF t
  <2> QED BY <1>6, <1>7, <2>1, <2>5 DEF Abstract!Del, Order, RemoveAt, Abstract!RemoveAt
<1>13. CASE empty
  <2>1. IsChain(<<>>)'
    <3>1. <<>> \in Seq(Node) /\ Len(<<>>) = 0 /\ (1..0) = {} /\ \A j \in 0..0 : j = 0
      OBVIOUS
    <3>2. linked' = {} /\ next'[Root] = Root
      BY <1>1, <1>13 DEF empty, TypeOK, Cell
    <3> QED BY <3>1, <3>2 DEF IsChain, At
  <2>2. ListInv' /\ Order' = <<>>
    BY <1>5, <2>1
  <2> QED BY <2>2 DEF Abstract!ListNext, Abstract!Empty, Order
<1>14. CASE UNCHANGED vars
  <2>1. IsChain(s)'
    BY <1>2, <1>14 DEF vars, IsChain, At
  <2> QED BY <1>4, <1>5, <2>1
<1>15. CASE \E n \in Node :
              \/ add(n)
              \/ \E m \in Node : add_prev(n, m) \/ add_next(n, m)
              \/ del(n)
  BY <1>9, <1>10, <1>11, <1>12, <1>15 DEF Abstract!ListNext
<1> QED BY <1>13, <1>14, <1>15 DEF Next

\* The pointers implement a sequence, for any finite number of nodes: add(),
\* add_prev(), add_next(), del() and empty() do to the cells that are reached
\* from the head what their names say (linked_list.hpp:23-51).  Finiteness is
\* what makes the mapping of LinkedList, which counts the nodes, meaningful.
THEOREM PointersMakeList ==
  ASSUME IsFiniteSet(Node)
  PROVE  Spec => RefinesList
<1>1. Init => ListInv /\ Abstract!ListInit
  <2> SUFFICES ASSUME Init PROVE ListInv /\ Abstract!ListInit
    OBVIOUS
  <2>1. TypeOK /\ LinksAgree
    BY LinkedListAssumption DEF Init, TypeOK, LinksAgree, On, Cell
  <2>2. IsChain(<<>>)
    <3>1. <<>> \in Seq(Node) /\ Len(<<>>) = 0 /\ (1..0) = {} /\ \A j \in 0..0 : j = 0
      OBVIOUS
    <3>2. linked = {} /\ next[Root] = Root
      BY DEF Init
    <3> QED BY <3>1, <3>2 DEF IsChain, At
  <2>3. Order = <<>>
    BY <2>1, <2>2, ChainIsOrder DEF TypeOK
  <2> QED BY <2>1, <2>2, <2>3 DEF ListInv, Abstract!ListInit, Order
<1>2. ListInv /\ [Next]_vars => ListInv' /\ [Abstract!ListNext]_Order
  BY ListStep
<1> QED BY <1>1, <1>2, PTL DEF Spec, RefinesList, Abstract!ListSpec, Order
=============================================================================
