------------------------------ MODULE SeqLemmas ------------------------------
(***************************************************************************)
(* Induction over the naturals, and what it gives for the sequences that   *)
(* the models are built from: FlattenSeq, one piece at a time.             *)
(*                                                                         *)
(* The induction principle is stated for a set of numbers, not for an      *)
(* operator, so that a proof can cite it for the set of the numbers for    *)
(* which its claim holds.                                                  *)
(***************************************************************************)
EXTENDS Integers, Sequences, SequencesExt, SequenceTheorems, WellFoundedInduction, TLAPS

\* A non-empty set of naturals has a least element.
LEMMA LeastNatural ==
  ASSUME NEW T, T \subseteq Nat, T # {}
  PROVE  \E x \in T : \A y \in T : x <= y
<1>1. PICK x \in T : \A y \in T : ~ (<<y, x>> \in OpToRel(<, Nat))
  BY WFMin, NatLessThanWellFounded
<1>2. ASSUME NEW y \in T PROVE x <= y
  <2>1. y \in Nat /\ x \in Nat
    OBVIOUS
  <2>2. y < x => <<y, x>> \in OpToRel(<, Nat)
    BY <2>1 DEF OpToRel
  <2>3. ~(y < x)
    BY <1>1, <2>2, Zenon
  <2> QED BY <2>1, <2>3
<1> QED BY <1>2, Zenon

\* Induction.
LEMMA NatSetInduction ==
  ASSUME NEW T, 0 \in T, \A n \in Nat : n \in T => n + 1 \in T
  PROVE  Nat \subseteq T
<1> SUFFICES ASSUME Nat \ T # {} PROVE FALSE
  OBVIOUS
<1>1. PICK x \in Nat \ T : \A y \in Nat \ T : x <= y
  <2>1. Nat \ T \subseteq Nat
    OBVIOUS
  <2> QED BY <2>1, LeastNatural
<1>2. x # 0 /\ x - 1 \in Nat
  BY <1>1
<1>3. x - 1 \in T
  BY <1>1, <1>2
<1> QED BY <1>2, <1>3

-----------------------------------------------------------------------------
(* FlattenSeq. *)

\* \o, kept folded where it does not matter what it does.
Cat(p, q) == p \o q

\* What p \o q is, for p and q in Seq(S).
IsCat(S, p, q) ==
    /\ Cat(p, q) \in Seq(S)
    /\ Len(p) \in Nat
    /\ Len(q) \in Nat
    /\ Len(Cat(p, q)) = Len(p) + Len(q)
    /\ \A i \in 1..Len(p) : Cat(p, q)[i] = p[i]
    /\ \A i \in 1..Len(q) : Cat(p, q)[Len(p) + i] = q[i]

LEMMA CatAt ==
  ASSUME NEW S, NEW p \in Seq(S), NEW q \in Seq(S)
  PROVE  IsCat(S, p, q)
<1>1. Len(p) \in Nat /\ Len(q) \in Nat
  BY LenProperties
<1>2. p \o q \in Seq(S) /\ Len(p \o q) = Len(p) + Len(q)
  BY ConcatProperties
<1>3. \A i \in 1..Len(p) : (p \o q)[i] = p[i]
  BY ConcatProperties, <1>1
<1>4. \A i \in 1..Len(q) : (p \o q)[Len(p) + i] = q[i]
  BY ConcatProperties, <1>1
<1> QED BY <1>1, <1>2, <1>3, <1>4 DEF Cat, IsCat

\* f[i] is the concatenation of the first i elements of s.
Flattens(f, s, n) == f = [i \in 1..n |-> IF i = 1 THEN s[i] ELSE Cat(f[i-1], s[i])]

LEMMA FlattensAt ==
  ASSUME NEW f, NEW s, NEW n \in Nat, Flattens(f, s, n), NEW i \in 1..n
  PROVE  f[i] = IF i = 1 THEN s[i] ELSE Cat(f[i-1], s[i])
<1> DEFINE e(j) == IF j = 1 THEN s[j] ELSE Cat(f[j-1], s[j])
           g == [j \in 1..n |-> e(j)]
<1>1. f = g
  BY DEF Flattens
<1>2. g[i] = e(i)
  OBVIOUS
<1>3. f[i] = e(i)
  <2> HIDE DEF g, e
  <2> QED BY <1>1, <1>2
<1> QED BY <1>3

LEMMA FlattensExists ==
  ASSUME NEW s
  PROVE  \A n \in Nat : \E f : Flattens(f, s, n)
<1> DEFINE T == {n \in Nat : \E f : Flattens(f, s, n)}
<1>1. 0 \in T
  <2> DEFINE e == [i \in 1..0 |-> s[i]]
  <2>1. Flattens(e, s, 0)
    BY DEF Flattens
  <2> QED BY <2>1
<1>2. ASSUME NEW n \in Nat, n \in T PROVE n + 1 \in T
  <2>1. PICK f : Flattens(f, s, n)
    BY <1>2
  <2> DEFINE last == IF n = 0 THEN s[1] ELSE Cat(f[n], s[n + 1])
             g == [i \in 1..(n + 1) |-> IF i = n + 1 THEN last ELSE f[i]]
  <2>2. ASSUME NEW i \in 1..(n + 1)
        PROVE  g[i] = IF i = 1 THEN s[i] ELSE Cat(g[i-1], s[i])
    <3>1. CASE i = n + 1
      BY <3>1
    <3>2. CASE i # n + 1
      <4>1. i \in 1..n /\ g[i] = f[i] /\ (i # 1 => i - 1 \in 1..n /\ g[i-1] = f[i-1])
        BY <3>2
      <4> HIDE DEF g
      <4> QED BY <2>1, <4>1 DEF Flattens
    <3> QED BY <3>1, <3>2
  <2>3. g = [i \in 1..(n + 1) |-> g[i]]
    OBVIOUS
  <2>4. Flattens(g, s, n + 1)
    <3> HIDE DEF g
    <3> QED BY <2>2, <2>3 DEF Flattens
  <2> HIDE DEF g
  <2> QED BY <2>4
<1> HIDE DEF T
<1>3. Nat \subseteq T
  BY <1>1, <1>2, NatSetInduction
<1> QED BY <1>3 DEF T

\* It depends on those elements only.
LEMMA FlattensAgree ==
  ASSUME NEW s, NEW t, NEW k \in Nat, NEW n \in Nat, NEW f, NEW g,
         Flattens(f, s, k), Flattens(g, t, n), k <= n, \A i \in 1..k : t[i] = s[i]
  PROVE  \A i \in 1..k : f[i] = g[i]
<1> DEFINE T == {i \in Nat : i \in 1..k => f[i] = g[i]}
<1>1. 0 \in T
  OBVIOUS
<1>2. ASSUME NEW i \in Nat, i \in T PROVE i + 1 \in T
  <2> SUFFICES ASSUME i + 1 \in 1..k PROVE f[i + 1] = g[i + 1]
    OBVIOUS
  <2>1. i + 1 \in 1..k /\ i + 1 \in 1..n /\ i + 1 - 1 = i
    OBVIOUS
  <2>2. /\ f[i + 1] = IF i + 1 = 1 THEN s[i + 1] ELSE Cat(f[i], s[i + 1])
        /\ g[i + 1] = IF i + 1 = 1 THEN t[i + 1] ELSE Cat(g[i], t[i + 1])
    BY <2>1, FlattensAt
  <2>3. i + 1 # 1 => f[i] = g[i]
    BY <1>2
  <2> QED BY <2>2, <2>3
<1> HIDE DEF T
<1>3. Nat \subseteq T
  BY <1>1, <1>2, NatSetInduction
<1> QED BY <1>3 DEF T

\* t is s and one more element.
Extends(t, m, s, n) == n \in Nat \ {0} /\ m = n + 1 /\ \A i \in 1..n : t[i] = s[i]

LEMMA FlattensStep ==
  ASSUME NEW s, NEW t, NEW f, NEW g, NEW n, NEW m, Extends(t, m, s, n),
         Flattens(f, s, n), Flattens(g, t, m)
  PROVE  g[m] = Cat(f[n], t[m])
<1>1. /\ n \in Nat /\ m \in Nat /\ n <= m
      /\ m \in 1..m /\ n \in 1..n /\ m # 1 /\ m - 1 = n
      /\ \A i \in 1..n : t[i] = s[i]
  BY DEF Extends
<1>2. \A i \in 1..n : f[i] = g[i]
  BY <1>1, FlattensAgree
<1>3. \A i \in 1..m : g[i] = IF i = 1 THEN t[i] ELSE Cat(g[i-1], t[i])
  BY <1>1, FlattensAt
<1> QED BY <1>1, <1>2, <1>3

LEMMA FlattenSeqFlattens ==
  ASSUME NEW s, Len(s) \in Nat \ {0}
  PROVE  \E f : Flattens(f, s, Len(s)) /\ FlattenSeq(s) = f[Len(s)]
<1> DEFINE f == CHOOSE h : h = [i \in 1..Len(s) |-> IF i = 1 THEN s[i] ELSE h[i-1] \o s[i]]
<1>1. \E h : h = [i \in 1..Len(s) |-> IF i = 1 THEN s[i] ELSE h[i-1] \o s[i]]
  <2>1. \E h : Flattens(h, s, Len(s))
    BY FlattensExists
  <2> QED BY <2>1, Zenon DEF Flattens, Cat
<1>2. f = [i \in 1..Len(s) |-> IF i = 1 THEN s[i] ELSE f[i-1] \o s[i]]
  BY <1>1, Zenon
<1>3. FlattenSeq(s) = f[Len(s)]
  BY DEF FlattenSeq
<1>4. Flattens(f, s, Len(s))
  BY <1>2, Zenon DEF Flattens, Cat
<1> HIDE DEF f
<1> QED BY <1>3, <1>4

\* Flattening one more element appends it.
LEMMA FlattenSeqStep ==
  ASSUME NEW S, NEW s, NEW t, Len(s) \in Nat, Len(t) = Len(s) + 1,
         \A i \in 1..Len(s) : t[i] = s[i], t[Len(t)] \in Seq(S), Len(s) = 0 => s = <<>>
  PROVE  FlattenSeq(t) = FlattenSeq(s) \o t[Len(t)]
<1>1. Len(s) \in Nat /\ Len(t) \in Nat \ {0} /\ t[Len(t)] \in Seq(S)
  OBVIOUS
<1>2. PICK g : Flattens(g, t, Len(t)) /\ FlattenSeq(t) = g[Len(t)]
  BY <1>1, FlattenSeqFlattens
<1>3. CASE Len(s) = 0
  <2>1. FlattenSeq(s) = s /\ s = <<>>
    BY <1>3, EmptySeq DEF FlattenSeq
  <2>2. FlattenSeq(t) = t[1]
    BY <1>1, <1>2, <1>3 DEF Flattens
  <2> QED BY <1>1, <1>3, <2>1, <2>2, ConcatEmptySeq
<1>4. CASE Len(s) # 0
  <2>1. PICK f : Flattens(f, s, Len(s)) /\ FlattenSeq(s) = f[Len(s)]
    BY <1>1, <1>4, FlattenSeqFlattens
  <2> DEFINE n == Len(s)
             m == Len(t)
  <2>2. Extends(t, m, s, n) /\ Flattens(f, s, n) /\ Flattens(g, t, m)
    BY <1>1, <1>2, <1>4, <2>1 DEF Extends
  <2>3. g[m] = Cat(f[n], t[m])
    <3> HIDE DEF n, m
    <3> QED BY <2>2, FlattensStep
  <2> QED BY <1>2, <2>1, <2>3 DEF Cat
<1> QED BY <1>3, <1>4

-----------------------------------------------------------------------------
(* The concatenation of the first k of several pieces. *)

Pieces(s, k) == FlattenSeq([i \in 1..k |-> s[i]])

\* The pieces are sequences of elements of S.
ArePieces(S, s, m) == m \in Nat /\ \A i \in 1..m : s[i] \in Seq(S)

\* One piece more.
LEMMA PiecesStep ==
  ASSUME NEW S, NEW m, NEW s, ArePieces(S, s, m)
  PROVE  /\ Pieces(s, 0) = <<>>
         /\ \A n \in 0..(m - 1) : Pieces(s, n + 1) = Cat(Pieces(s, n), s[n + 1])
<1> USE DEF ArePieces
<1>1. ASSUME NEW n \in 0..m
      PROVE  /\ Len([i \in 1..n |-> s[i]]) = n
             /\ n = 0 => [i \in 1..n |-> s[i]] = <<>>
  <2> DEFINE u == [i \in 1..n |-> s[i]]
  <2>1. n \in Nat
    OBVIOUS
  <2>2. u \in [1..n -> Seq(S)]
    OBVIOUS
  <2> HIDE DEF u
  <2>3. u \in Seq(Seq(S))
    BY <2>1, <2>2, SeqDef
  <2>4. Len(u) = n
    BY <2>1, <2>2, <2>3, LenProperties
  <2>5. n = 0 => u = <<>>
    BY <2>3, <2>4, EmptySeq
  <2> QED BY <2>4, <2>5 DEF u
<1>2. Pieces(s, 0) = <<>>
  <2>1. [i \in 1..0 |-> s[i]] = <<>>
    BY <1>1
  <2>2. FlattenSeq(<<>>) = <<>>
    BY EmptySeq DEF FlattenSeq
  <2> QED BY <2>1, <2>2 DEF Pieces
<1>3. ASSUME NEW n \in 0..(m - 1)
      PROVE  Pieces(s, n + 1) = Cat(Pieces(s, n), s[n + 1])
  <2> DEFINE u == [i \in 1..n |-> s[i]]
             v == [i \in 1..(n + 1) |-> s[i]]
  <2>1. n \in 0..m /\ n + 1 \in 0..m /\ n \in Nat /\ n + 1 \in 1..(n + 1) /\ n + 1 \in 1..m
    OBVIOUS
  <2>2. Len(u) = n /\ Len(v) = n + 1 /\ (Len(u) = 0 => u = <<>>)
    BY <1>1, <2>1
  <2>3. \A i \in 1..n : v[i] = u[i]
    BY <2>1
  <2>4. v[n + 1] = s[n + 1] /\ v[n + 1] \in Seq(S)
    BY <2>1
  <2> HIDE DEF u, v
  <2>5. /\ Len(u) \in Nat /\ Len(v) = Len(u) + 1 /\ \A i \in 1..Len(u) : v[i] = u[i]
        /\ v[Len(v)] \in Seq(S) /\ (Len(u) = 0 => u = <<>>)
    BY <2>1, <2>2, <2>3, <2>4
  <2>6. FlattenSeq(v) = FlattenSeq(u) \o v[Len(v)]
    BY <2>5, FlattenSeqStep, Zenon
  <2>7. Pieces(s, n) = FlattenSeq(u) /\ Pieces(s, n + 1) = FlattenSeq(v)
    BY DEF Pieces, u, v
  <2> QED BY <2>2, <2>4, <2>6, <2>7 DEF Cat
<1> QED BY <1>2, <1>3

LEMMA PiecesType ==
  ASSUME NEW S, NEW m, NEW s, ArePieces(S, s, m)
  PROVE  \A n \in 0..m : Pieces(s, n) \in Seq(S) /\ Len(Pieces(s, n)) \in Nat
<1>0. m \in Nat
  BY DEF ArePieces
<1> DEFINE T == {n \in Nat : n \in 0..m => Pieces(s, n) \in Seq(S)}
<1>1. 0 \in T
  <2>1. Pieces(s, 0) = <<>>
    BY PiecesStep
  <2>2. <<>> \in Seq(S)
    OBVIOUS
  <2> QED BY <2>1, <2>2
<1>2. ASSUME NEW n \in Nat, n \in T PROVE n + 1 \in T
  <2> SUFFICES ASSUME n + 1 \in 0..m PROVE Pieces(s, n + 1) \in Seq(S)
    OBVIOUS
  <2>1. n \in 0..(m - 1) /\ n \in 0..m /\ n + 1 \in 1..m
    BY <1>0
  <2>2. Pieces(s, n) \in Seq(S) /\ s[n + 1] \in Seq(S)
    BY <1>2, <2>1 DEF ArePieces
  <2>3. Pieces(s, n + 1) = Cat(Pieces(s, n), s[n + 1])
    BY <2>1, PiecesStep
  <2>4. IsCat(S, Pieces(s, n), s[n + 1])
    BY <2>2, CatAt
  <2> QED BY <2>3, <2>4 DEF IsCat
<1> HIDE DEF T
<1>3. Nat \subseteq T
  BY <1>1, <1>2, NatSetInduction
<1>4. \A n \in 0..m : Pieces(s, n) \in Seq(S)
  BY <1>3 DEF T
<1> QED BY <1>4, LenProperties

\* By position: what was there stays, and the new piece follows it.
Grows(s, n) ==
    /\ Len(s[n + 1]) \in Nat
    /\ Len(Pieces(s, n)) \in Nat
    /\ Len(Pieces(s, n + 1)) = Len(Pieces(s, n)) + Len(s[n + 1])
    /\ \A p \in 1..Len(Pieces(s, n)) : Pieces(s, n + 1)[p] = Pieces(s, n)[p]
    /\ \A i \in 1..Len(s[n + 1]) : Pieces(s, n + 1)[Len(Pieces(s, n)) + i] = s[n + 1][i]

LEMMA PiecesGrow ==
  ASSUME NEW S, NEW m, NEW s, ArePieces(S, s, m), NEW n \in 0..(m - 1)
  PROVE  Grows(s, n)
<1> DEFINE x == Pieces(s, n)
           e == s[n + 1]
<1>1. n \in 0..m /\ n + 1 \in 1..m
  BY DEF ArePieces
<1>2. x \in Seq(S) /\ e \in Seq(S)
  BY <1>1, PiecesType DEF ArePieces
<1>3. Pieces(s, n + 1) = Cat(x, e)
  BY PiecesStep
<1> HIDE DEF x, e
<1>4. IsCat(S, x, e)
  BY <1>2, CatAt
<1>5. /\ Len(x) \in Nat /\ Len(e) \in Nat
      /\ Len(Cat(x, e)) = Len(x) + Len(e)
      /\ \A i \in 1..Len(x) : Cat(x, e)[i] = x[i]
      /\ \A i \in 1..Len(e) : Cat(x, e)[Len(x) + i] = e[i]
  BY <1>4 DEF IsCat
<1> QED BY <1>3, <1>5 DEF x, e, Grows

Kept(s, k, n) ==
    /\ Len(Pieces(s, k)) <= Len(Pieces(s, n))
    /\ \A p \in 1..Len(Pieces(s, k)) : Pieces(s, n)[p] = Pieces(s, k)[p]

LEMMA PiecesKept ==
  ASSUME NEW S, NEW m, NEW s, ArePieces(S, s, m), NEW k \in 0..m
  PROVE  \A n \in 0..m : k <= n => Kept(s, k, n)
<1> DEFINE l(n) == Len(Pieces(s, n))
           P(n) == l(k) <= l(n) /\ \A p \in 1..l(k) : Pieces(s, n)[p] = Pieces(s, k)[p]
           T == {n \in Nat : n \in 0..m /\ k <= n => P(n)}
<1>0. m \in Nat /\ k \in Nat /\ \A n \in 0..m : l(n) \in Nat
  BY PiecesType DEF ArePieces
<1> HIDE DEF l
<1>1. P(k)
  BY <1>0
<1>2. 0 \in T
  <2>1. k <= 0 => k = 0
    BY <1>0
  <2> HIDE DEF P
  <2> QED BY <1>1, <2>1
<1>3. ASSUME NEW n \in Nat, n \in T PROVE n + 1 \in T
  <2> SUFFICES ASSUME n + 1 \in 0..m, k <= n + 1 PROVE P(n + 1)
    <3> HIDE DEF P
    <3> QED OBVIOUS
  <2>1. CASE k = n + 1
    BY <1>1, <2>1
  <2>2. CASE k # n + 1
    <3>1. n \in 0..m /\ n \in 0..(m - 1) /\ k <= n /\ k \in 0..m
      BY <1>0, <2>2
    <3>2. l(k) <= l(n) /\ \A p \in 1..l(k) : Pieces(s, n)[p] = Pieces(s, k)[p]
      BY <1>3, <3>1
    <3>3. /\ l(k) \in Nat /\ l(n) \in Nat /\ l(n + 1) \in Nat /\ l(n) <= l(n + 1)
          /\ \A p \in 1..l(n) : Pieces(s, n + 1)[p] = Pieces(s, n)[p]
      <4>1. /\ Len(s[n + 1]) \in Nat /\ Len(Pieces(s, n)) \in Nat
            /\ Len(Pieces(s, n + 1)) = Len(Pieces(s, n)) + Len(s[n + 1])
            /\ \A p \in 1..Len(Pieces(s, n)) : Pieces(s, n + 1)[p] = Pieces(s, n)[p]
        BY <3>1, PiecesGrow DEF Grows
      <4>2. l(n + 1) = l(n) + Len(s[n + 1]) /\ l(n) \in Nat /\ l(k) \in Nat
        BY <1>0, <3>1, <4>1 DEF l
      <4>3. \A p \in 1..l(n) : Pieces(s, n + 1)[p] = Pieces(s, n)[p]
        BY <4>1 DEF l
      <4> DEFINE x == Len(s[n + 1])
      <4>4. x \in Nat /\ l(n + 1) = l(n) + x
        BY <4>1, <4>2
      <4> HIDE DEF x
      <4> QED BY <4>2, <4>3, <4>4
    <3>4. \A p \in 1..l(k) : p \in 1..l(n)
      BY <3>2, <3>3
    <3>5. l(k) <= l(n + 1)
      BY <3>2, <3>3
    <3> QED BY <3>2, <3>3, <3>4, <3>5
  <2> QED BY <2>1, <2>2
<1> HIDE DEF P, T
<1>4. Nat \subseteq T
  BY <1>2, <1>3, NatSetInduction
<1>5. \A n \in 0..m : k <= n => P(n)
  BY <1>4 DEF T
<1> QED BY <1>5 DEF P, l, Kept

\* Where piece k + 1 is.
Placed(s, k, n) ==
    /\ Len(s[k + 1]) \in Nat
    /\ Len(Pieces(s, k)) \in Nat
    /\ Len(Pieces(s, n)) \in Nat
    /\ Len(Pieces(s, k + 1)) = Len(Pieces(s, k)) + Len(s[k + 1])
    /\ Len(Pieces(s, k + 1)) <= Len(Pieces(s, n))
    /\ \A i \in 1..Len(s[k + 1]) : Pieces(s, n)[Len(Pieces(s, k)) + i] = s[k + 1][i]

LEMMA PieceAt ==
  ASSUME NEW S, NEW m, NEW s, ArePieces(S, s, m), NEW k \in 0..m, NEW n \in 0..m, k < n
  PROVE  Placed(s, k, n)
<1> DEFINE a == Len(Pieces(s, k))
           b == Len(s[k + 1])
           c == Len(Pieces(s, k + 1))
<1>1. k \in 0..(m - 1) /\ k + 1 \in 0..m /\ k + 1 <= n
  BY DEF ArePieces
<1>2. Grows(s, k)
  BY <1>1, PiecesGrow
<1>3. /\ a \in Nat /\ b \in Nat /\ c = a + b
      /\ \A i \in 1..b : Pieces(s, k + 1)[a + i] = s[k + 1][i]
  BY <1>2 DEF Grows
<1>4. Kept(s, k + 1, n)
  BY <1>1, PiecesKept
<1>5. c <= Len(Pieces(s, n)) /\ \A p \in 1..c : Pieces(s, n)[p] = Pieces(s, k + 1)[p]
  BY <1>4 DEF Kept
<1>6. Len(Pieces(s, n)) \in Nat
  BY PiecesType
<1> HIDE DEF a, b, c
<1>7. \A i \in 1..b : a + i \in 1..c
  BY <1>3
<1>8. \A i \in 1..b : Pieces(s, n)[a + i] = s[k + 1][i]
  BY <1>3, <1>5, <1>7
<1> QED BY <1>3, <1>5, <1>6, <1>8 DEF a, b, c, Placed

-----------------------------------------------------------------------------
(* Prefixes and suffixes, by position. *)

LEMMA PrefixReflexive ==
  ASSUME NEW S, NEW s \in Seq(S)
  PROVE  IsPrefix(s, s)
<1>1. Len(s) \in Nat
  BY LenProperties
<1> QED BY <1>1 DEF IsPrefix

LEMMA PrefixAppend ==
  ASSUME NEW S, NEW s \in Seq(S), NEW t \in Seq(S), NEW e \in S, IsPrefix(s, t)
  PROVE  IsPrefix(s, Append(t, e))
<1>1. /\ Len(s) \in Nat /\ Len(t) \in Nat /\ Len(s) <= Len(t)
      /\ SubSeq(s, 1, Len(s)) = SubSeq(t, 1, Len(s))
  BY LenProperties DEF IsPrefix
<1>2. /\ Append(t, e) \in Seq(S) /\ Len(Append(t, e)) = Len(t) + 1
      /\ \A i \in 1..Len(t) : Append(t, e)[i] = t[i]
  BY AppendProperties
<1>3. \A i \in 1..Len(s) : Append(t, e)[i] = t[i]
  BY <1>1, <1>2
<1>4. SubSeq(Append(t, e), 1, Len(s)) = SubSeq(t, 1, Len(s))
  BY <1>1, <1>2, <1>3
<1> QED BY <1>1, <1>2, <1>4 DEF IsPrefix

\* What SubSeq(s, m, n) is, for s in Seq(S).
IsSubSeq(S, s, m, n) ==
    /\ SubSeq(s, m, n) \in Seq(S)
    /\ Len(SubSeq(s, m, n)) = n - m + 1
    /\ \A i \in 1..(n - m + 1) : SubSeq(s, m, n)[i] = s[m + i - 1]

LEMMA SubSeqAt ==
  ASSUME NEW S, NEW s \in Seq(S), NEW m \in Nat \ {0}, NEW n \in Nat, m <= n + 1, n <= Len(s)
  PROVE  IsSubSeq(S, s, m, n)
<1>1. Len(s) \in Nat
  BY LenProperties
<1>2. \A i \in m..n : s[i] \in S
  BY <1>1, ElementOfSeq
<1>3. SubSeq(s, m, n) \in Seq(S) /\ Len(SubSeq(s, m, n)) = n - m + 1
  BY <1>1, <1>2
<1>4. \A i \in 1..(n - m + 1) : SubSeq(s, m, n)[i] = s[m + i - 1]
  BY <1>1
<1> QED BY <1>3, <1>4 DEF IsSubSeq

LEMMA SubSeqNothing ==
  ASSUME NEW S, NEW s \in Seq(S), NEW m \in Nat, NEW n \in Nat, m > n
  PROVE  SubSeq(s, m, n) = <<>>
  OBVIOUS

LEMMA SubSeqWhole ==
  ASSUME NEW S, NEW s \in Seq(S)
  PROVE  SubSeq(s, 1, Len(s)) = s
<1>1. Len(s) \in Nat
  BY LenProperties
<1> QED BY <1>1

\* Two sequences with the same elements.
LEMMA SameElements ==
  ASSUME NEW S, NEW T, NEW s \in Seq(S), NEW t \in Seq(T), Len(s) = Len(t),
         \A i \in 1..Len(s) : s[i] = t[i]
  PROVE  s = t
<1>1. s \in [1..Len(s) -> S] /\ t \in [1..Len(s) -> T]
  BY LenProperties
<1> QED BY <1>1

LEMMA SuffixAt ==
  ASSUME NEW S, NEW s \in Seq(S), NEW t \in Seq(S), Len(s) <= Len(t),
         \A i \in 1..Len(s) : s[i] = t[Len(t) - Len(s) + i]
  PROVE  IsSuffix(s, t)
<1> DEFINE n == Len(s)
           m == Len(t)
           p == Reverse(s)
           q == Reverse(t)
<1>1. n \in Nat /\ m \in Nat /\ n <= m
  BY LenProperties
<1>2. p \in Seq(S) /\ Len(p) = n /\ \A i \in 1..n : p[i] = s[n - i + 1]
  BY <1>1, ElementOfSeq DEF Reverse
<1>3. q \in Seq(S) /\ Len(q) = m /\ \A i \in 1..m : q[i] = t[m - i + 1]
  BY <1>1, ElementOfSeq DEF Reverse
<1>4. \A i \in 1..n : p[i] = q[i]
  <2> SUFFICES ASSUME NEW i \in 1..n PROVE p[i] = q[i]
    OBVIOUS
  <2>1. n - i + 1 \in 1..n /\ i \in 1..m /\ m - n + (n - i + 1) = m - i + 1
    <3> HIDE DEF n, m
    <3> QED BY <1>1
  <2>2. s[n - i + 1] = t[m - n + (n - i + 1)]
    <3> HIDE DEF n, m
    <3> QED BY <2>1 DEF n, m
  <2> HIDE DEF n, m, p, q
  <2> QED BY <1>2, <1>3, <2>1, <2>2
<1> HIDE DEF p, q
<1>5. IsSubSeq(S, p, 1, n) /\ IsSubSeq(S, q, 1, n)
  <2> HIDE DEF n, m
  <2>1. 1 \in Nat \ {0} /\ 1 <= n + 1 /\ n <= Len(p) /\ n <= Len(q)
    BY <1>1, <1>2, <1>3
  <2> QED BY <1>1, <1>2, <1>3, <2>1, SubSeqAt
<1>6. SubSeq(p, 1, n) = SubSeq(q, 1, n)
  <2> HIDE DEF n, m
  <2>1. n - 1 + 1 = n /\ \A i \in 1..n : 1 + i - 1 = i
    BY <1>1
  <2> DEFINE u == SubSeq(p, 1, n)
             v == SubSeq(q, 1, n)
  <2>2. /\ u \in Seq(S) /\ v \in Seq(S) /\ Len(u) = n /\ Len(v) = n
        /\ \A i \in 1..n : u[i] = p[i]
        /\ \A i \in 1..n : v[i] = q[i]
    <3> HIDE DEF u, v
    <3> QED BY <1>5, <2>1 DEF IsSubSeq, u, v
  <2> HIDE DEF u, v
  <2>3. \A i \in 1..Len(u) : u[i] = v[i]
    BY <1>4, <2>2
  <2>4. u = v
    BY <2>2, <2>3, SameElements
  <2> QED BY <2>4 DEF u, v
<1>7. Len(p) <= Len(q) /\ SubSeq(p, 1, Len(p)) = SubSeq(q, 1, Len(p))
  <2> HIDE DEF n, m
  <2> QED BY <1>1, <1>2, <1>3, <1>6
<1> QED BY <1>7 DEF IsSuffix, IsPrefix, p, q

-----------------------------------------------------------------------------
(* Parts of a sequence. *)

\* u is what X has after its first a elements, up to element b.
IsPart(S, X, u, a, b) ==
    /\ u \in Seq(S)
    /\ a \in Nat /\ b \in Nat /\ a <= b /\ b <= Len(X)
    /\ Len(u) = b - a
    /\ \A i \in 1..(b - a) : u[i] = X[a + i]

LEMMA PartIs ==
  ASSUME NEW S, NEW X \in Seq(S), NEW a \in Nat, NEW b \in Nat, a <= b, b <= Len(X)
  PROVE  IsPart(S, X, SubSeq(X, a + 1, b), a, b)
<1> DEFINE u == SubSeq(X, a + 1, b)
<1>1. IsSubSeq(S, X, a + 1, b)
  <2>1. a + 1 \in Nat \ {0} /\ a + 1 <= b + 1
    OBVIOUS
  <2> QED BY <2>1, SubSeqAt
<1>2. b - (a + 1) + 1 = b - a /\ \A i \in 1..(b - a) : (a + 1) + i - 1 = a + i
  OBVIOUS
<1>3. u \in Seq(S) /\ Len(u) = b - a /\ \A i \in 1..(b - a) : u[i] = X[a + i]
  BY <1>1, <1>2 DEF IsSubSeq
<1> HIDE DEF u
<1> QED BY <1>3 DEF IsPart, u

LEMMA PartUnique ==
  ASSUME NEW S, NEW X, NEW u, NEW v, NEW a, NEW b, IsPart(S, X, u, a, b), IsPart(S, X, v, a, b)
  PROVE  u = v
<1>1. u \in Seq(S) /\ v \in Seq(S) /\ Len(u) = Len(v) /\ \A i \in 1..Len(u) : u[i] = v[i]
  BY DEF IsPart
<1> QED BY <1>1, SameElements

LEMMA PartCat ==
  ASSUME NEW S, NEW X, NEW u, NEW v, NEW a, NEW b, NEW c,
         IsPart(S, X, u, a, b), IsPart(S, X, v, b, c)
  PROVE  IsPart(S, X, Cat(u, v), a, c)
<1>1. /\ u \in Seq(S) /\ v \in Seq(S) /\ a \in Nat /\ b \in Nat /\ c \in Nat
      /\ a <= b /\ b <= c /\ c <= Len(X) /\ Len(u) = b - a /\ Len(v) = c - b
      /\ \A i \in 1..(b - a) : u[i] = X[a + i]
      /\ \A i \in 1..(c - b) : v[i] = X[b + i]
  BY DEF IsPart
<1>2. IsCat(S, u, v)
  BY <1>1, CatAt
<1> DEFINE w == Cat(u, v)
<1>3. /\ w \in Seq(S) /\ Len(w) = Len(u) + Len(v)
      /\ \A i \in 1..Len(u) : w[i] = u[i]
      /\ \A i \in 1..Len(v) : w[Len(u) + i] = v[i]
  BY <1>2 DEF IsCat
<1> HIDE DEF w
<1>4. Len(w) = c - a /\ a <= c
  <2>1. (b - a) + (c - b) = c - a /\ a <= c
    BY <1>1
  <2> QED BY <1>1, <1>3, <2>1
<1>5. ASSUME NEW i \in 1..(c - a) PROVE w[i] = X[a + i]
  <2>1. CASE i <= b - a
    <3>1. i \in 1..(b - a)
      BY <1>1, <2>1
    <3> QED BY <1>1, <1>3, <3>1
  <2>2. CASE i > b - a
    <3> DEFINE j == i - (b - a)
    <3>1. j \in 1..(c - b) /\ i = (b - a) + j /\ b + j = a + i
      BY <1>1, <2>2
    <3> HIDE DEF j
    <3>2. w[(b - a) + j] = v[j]
      BY <1>1, <1>3, <3>1
    <3> QED BY <1>1, <3>1, <3>2
  <2> QED BY <1>1, <2>1, <2>2
<1> QED BY <1>1, <1>3, <1>4, <1>5 DEF IsPart, w

LEMMA PartOfPart ==
  ASSUME NEW S, NEW X, NEW u, NEW a, NEW b, IsPart(S, X, u, a, b),
         NEW i \in Nat, NEW j \in Nat, i <= j, j <= b - a
  PROVE  IsPart(S, X, SubSeq(u, i + 1, j), a + i, a + j)
<1> DEFINE v == SubSeq(u, i + 1, j)
<1>1. /\ u \in Seq(S) /\ a \in Nat /\ b \in Nat /\ a <= b /\ b <= Len(X) /\ Len(u) = b - a
      /\ \A m \in 1..(b - a) : u[m] = X[a + m]
  BY DEF IsPart
<1>2. j <= Len(u)
  BY <1>1
<1>3. IsPart(S, u, v, i, j)
  BY <1>1, <1>2, PartIs
<1>4. v \in Seq(S) /\ Len(v) = j - i /\ \A m \in 1..(j - i) : v[m] = u[i + m]
  BY <1>3 DEF IsPart
<1> HIDE DEF v
<1>5. /\ a + i \in Nat /\ a + j \in Nat /\ a + i <= a + j /\ (a + j) - (a + i) = j - i /\ a + j <= b
      /\ \A m \in 1..(j - i) : i + m \in 1..(b - a) /\ a + (i + m) = (a + i) + m
  BY <1>1
<1>6. a + j <= Len(X)
  BY <1>1, <1>5
<1>7. \A m \in 1..(j - i) : v[m] = X[(a + i) + m]
  BY <1>1, <1>4, <1>5
<1> QED BY <1>4, <1>5, <1>6, <1>7 DEF IsPart, v

LEMMA PrefixAt ==
  ASSUME NEW S, NEW s \in Seq(S), NEW t \in Seq(S), Len(s) <= Len(t),
         \A i \in 1..Len(s) : s[i] = t[i]
  PROVE  IsPrefix(s, t)
<1> DEFINE m == Len(s)
           u == SubSeq(s, 1, m)
           v == SubSeq(t, 1, m)
<1>1. m \in Nat /\ m <= Len(s)
  BY LenProperties
<1>2. IsSubSeq(S, s, 1, m) /\ IsSubSeq(S, t, 1, m)
  <2>1. 1 \in Nat \ {0} /\ 1 <= m + 1
    BY <1>1
  <2> HIDE DEF m
  <2> QED BY <1>1, <2>1, SubSeqAt DEF m
<1>3. m - 1 + 1 = m /\ \A i \in 1..m : 1 + i - 1 = i
  <2> HIDE DEF m
  <2> QED BY <1>1
<1>4. /\ u \in Seq(S) /\ v \in Seq(S) /\ Len(u) = m /\ Len(v) = m
      /\ \A i \in 1..m : u[i] = s[i] /\ v[i] = t[i]
  <2> HIDE DEF m
  <2> QED BY <1>2, <1>3 DEF IsSubSeq
<1> HIDE DEF u, v
<1>5. \A i \in 1..Len(u) : u[i] = v[i]
  BY <1>4
<1>6. u = v
  BY <1>4, <1>5, SameElements
<1> QED BY <1>6 DEF IsPrefix, u, v

LEMMA PrefixEmpty ==
  ASSUME NEW S, NEW t \in Seq(S)
  PROVE  IsPrefix(<<>>, t)
<1>1. <<>> \in Seq(S) /\ Len(<<>>) = 0 /\ Len(t) \in Nat
  BY LenProperties
<1>2. Len(<<>>) <= Len(t) /\ \A i \in 1..Len(<<>>) : <<>>[i] = t[i]
  BY <1>1
<1> QED BY <1>1, <1>2, PrefixAt
=============================================================================
