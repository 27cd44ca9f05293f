----------------------------- MODULE CodecProofs -----------------------------
(***************************************************************************)
(* What is decoded is what was encoded: base64, the fields of a request,   *)
(* and the parameters of the HTTP client.  The arrays of a Json::Value are *)
(* sequences, and its numbers convert exactly.                             *)
(*                                                                         *)
(* base64_decode undoes base64_encode, for messages of any length.  The    *)
(* first lemmas are about one group; TakenIsWhole says that the decoder    *)
(* stops exactly at the padding; the theorem then looks at one byte, whose *)
(* two characters both lie in front of the padding.                        *)
(*                                                                         *)
(* parse_worker gives every field of a request the value that the client   *)
(* meant.  Codes(x, w) says that x is a row of units, bytes or escapes,    *)
(* that stand for the bytes of w; it holds of what the client encodes, and *)
(* of concatenations.  DecodeCode and DecodeCut follow the turns of the    *)
(* loop of url_utf8_decode over a code, to its end or to the end of the    *)
(* buffer.  Layout says where the fields lie in a text: no value holds a   *)
(* separator while it is encoded, so that the only separators are those    *)
(* between the fields, and the search for a key finds the first field with *)
(* this name.                                                              *)
(*                                                                         *)
(* An array of JSON values is a map whose keys are indices.  HasIndices    *)
(* names the set of them and SizeIs gives the size, so that an operation   *)
(* is known by the indices it leaves and the values at them; on an array   *)
(* without holes that is an operation on a sequence.  RootInv says what a  *)
(* value can be after any calls.  For the numbers it is enough that the    *)
(* elements are what was stored; Truncates is the arithmetic of a cast.    *)
(*                                                                         *)
(* URLDecode is followed turn by turn over a text whose first bytes stand  *)
(* for themselves, and whose rest is escaped.                              *)
(***************************************************************************)
EXTENDS Base64, RequestFields, JsonEdit, UrlCodec, SeqLemmas, FiniteSetTheorems,
        TLAPS

-----------------------------------------------------------------------------
(* base64 *)

Byte == 0..255

\* Every character of a group is one of the 64 of base64_chars.
LEMMA PackRange ==
    ASSUME NEW a \in Byte, NEW b \in Byte, NEW c \in Byte, NEW j \in 1..4
    PROVE  Pack(a, b, c)[j] \in 0..63
<1> USE DEF Byte
<1>1. a \div 4 \in 0..63
  OBVIOUS
<1>2. (a % 4) * 16 + (b \div 16) \in 0..63
  OBVIOUS
<1>3. (b % 16) * 4 + (c \div 64) \in 0..63
  OBVIOUS
<1>4. c % 64 \in 0..63
  OBVIOUS
<1> QED  BY <1>1, <1>2, <1>3, <1>4 DEF Pack

\* The first byte of a group comes back from its first two characters,
\* whatever the others are.
LEMMA FirstByte ==
    ASSUME NEW a \in Byte, NEW b \in Byte, NEW c \in Byte, NEW r, NEW s
    PROVE  Unpack(Pack(a, b, c)[1], Pack(a, b, c)[2], r, s)[1] = a
<1>1. ((a \div 4) * 4 + ((((a % 4) * 16 + (b \div 16)) \div 16) % 4)) % 256 = a
  BY DEF Byte
<1> QED  BY <1>1 DEF Pack, Unpack

\* The second byte, from the second and the third.
LEMMA SecondByte ==
    ASSUME NEW a \in Byte, NEW b \in Byte, NEW c \in Byte, NEW p, NEW s
    PROVE  Unpack(p, Pack(a, b, c)[2], Pack(a, b, c)[3], s)[2] = b
<1>1. ((((a % 4) * 16 + (b \div 16)) % 16) * 16
        + ((((b % 16) * 4 + (c \div 64)) \div 4) % 16)) % 256 = b
  BY DEF Byte
<1> QED  BY <1>1 DEF Pack, Unpack

\* The third byte, from the last two.
LEMMA ThirdByte ==
    ASSUME NEW a \in Byte, NEW b \in Byte, NEW c \in Byte, NEW p, NEW q
    PROVE  Unpack(p, q, Pack(a, b, c)[3], Pack(a, b, c)[4])[3] = c
<1>1. ((((b % 16) * 4 + (c \div 64)) % 4) * 64 + (c % 64)) % 256 = c
  BY DEF Byte
<1> QED  BY <1>1 DEF Pack, Unpack

-----------------------------------------------------------------------------
\* The number of characters that carry n bytes, without the padding.
Carrying(n) == n + ((n + 2) \div 3)

\* Characters in front of the padding: all that are not carrying are padding.
LEMMA CarryingFits ==
    ASSUME NEW n \in Nat
    PROVE  /\ Carrying(n) \in Nat
           /\ 4 * ((n + 2) \div 3) \in Nat
           /\ Carrying(n) <= 4 * ((n + 2) \div 3)
           /\ DecodedLen(Carrying(n)) = n
  BY DEF Carrying, DecodedLen

\* Where the padding begins.
LEMMA PaddingStarts ==
    ASSUME NEW n \in Nat, NEW i \in 1..(4 * ((n + 2) \div 3))
    PROVE  ((i - 1) % 4) + 1 > n - 3 * ((i - 1) \div 4) + 1 <=> i > Carrying(n)
  BY DEF Carrying

\* Both characters of byte k carry.
LEMMA CarryingCovers ==
    ASSUME NEW n \in Nat, NEW k \in 1..n
    PROVE  4 * ((k - 1) \div 3) + ((k - 1) % 3) + 2 <= Carrying(n)
  BY DEF Carrying

\* The bytes of a message, and those that fill its last group.
LEMMA BytesAreBytes ==
    ASSUME NEW s \in Seq(Byte), NEW i \in Nat \ {0}
    PROVE  ByteAt(s, i) \in Byte
<1>1. CASE i <= Len(s)
  <2>1. i \in 1..Len(s)
    BY <1>1
  <2> QED  BY <1>1, <2>1 DEF ByteAt
<1>2. CASE ~(i <= Len(s))
  BY <1>2 DEF ByteAt, Byte
<1> QED  BY <1>1, <1>2

\* The length of an encoded message.
LEMMA EncodedLen ==
    ASSUME NEW s \in Seq(Byte)
    PROVE  Len(base64_encode(s)) = 4 * ((Len(s) + 2) \div 3)
<1>1. Len(s) \in Nat
  OBVIOUS
<1>2. 4 * ((Len(s) + 2) \div 3) \in Nat
  BY <1>1, CarryingFits
<1> QED  BY <1>2 DEF base64_encode

\* The characters of an encoded message: the padding is at its end.
LEMMA EncodedChar ==
    ASSUME NEW s \in Seq(Byte), NEW i \in 1..Len(base64_encode(s))
    PROVE  IF i > Carrying(Len(s)) THEN base64_encode(s)[i] = PAD
           ELSE /\ base64_encode(s)[i] = GroupOfBytes(s, (i - 1) \div 4)[((i - 1) % 4) + 1]
                /\ base64_encode(s)[i] \in 0..63
<1> DEFINE g == (i - 1) \div 4
           j == ((i - 1) % 4) + 1
<1>1. Len(s) \in Nat /\ i \in 1..(4 * ((Len(s) + 2) \div 3))
  BY EncodedLen
<1>2. i \in Nat \ {0}
  BY <1>1, CarryingFits
<1>3. g \in Nat /\ j \in 1..4
  BY <1>2
<1>4. base64_encode(s)[i] = IF Padded(s, g, j) THEN PAD ELSE GroupOfBytes(s, g)[j]
  BY <1>1 DEF base64_encode
<1>5. Padded(s, g, j) <=> i > Carrying(Len(s))
  BY <1>1, PaddingStarts DEF Padded
<1> HIDE DEF g, j
<1>6. GroupOfBytes(s, g)[j] \in 0..63
  <2>1. 3 * g + 1 \in Nat \ {0} /\ 3 * g + 2 \in Nat \ {0} /\ 3 * g + 3 \in Nat \ {0}
    BY <1>3
  <2>2. /\ ByteAt(s, 3 * g + 1) \in Byte
        /\ ByteAt(s, 3 * g + 2) \in Byte
        /\ ByteAt(s, 3 * g + 3) \in Byte
    BY <2>1, BytesAreBytes
  <2> QED  BY <1>3, <2>2, PackRange DEF GroupOfBytes
<1> QED  BY <1>4, <1>5, <1>6 DEF g, j

\* The decoder takes all characters in front of the padding.
LEMMA TakenIsWhole ==
    ASSUME NEW s \in Seq(Byte)
    PROVE  Taken(base64_encode(s)) = Carrying(Len(s))
<1> DEFINE t == base64_encode(s)
           c == Carrying(Len(s))
<1>1. c \in Nat /\ c <= Len(t) /\ Len(t) \in Nat
  <2>1. Len(s) \in Nat
    OBVIOUS
  <2> QED  BY <2>1, CarryingFits, EncodedLen
<1>2. ASSUME NEW i \in 1..Len(t)
      PROVE  i \in Stops(t) <=> i > c
  <2>1. IF i > c THEN t[i] = PAD ELSE t[i] \in 0..63
    BY EncodedChar
  <2>2. PAD \notin 0..63
    BY DEF PAD
  <2> HIDE DEF t, c
  <2> QED  BY <2>1, <2>2 DEF Stops
<1>3. Stops(t) \subseteq 1..Len(t)
  BY DEF Stops
<1> HIDE DEF t, c
<1>4. CASE c = Len(t)
  <2>1. Stops(t) = {}
    BY <1>1, <1>2, <1>3, <1>4
  <2> QED  BY <1>4, <2>1 DEF Taken, c, t
<1>5. CASE c < Len(t)
  <2>1. c + 1 \in Stops(t) /\ \A j \in Stops(t) : c + 1 <= j
    BY <1>1, <1>2, <1>3, <1>5
  <2>2. (CHOOSE i \in Stops(t) : \A j \in Stops(t) : i <= j) = c + 1
    <3>1. \A i \in Stops(t) : (\A j \in Stops(t) : i <= j) => i = c + 1
      BY <1>1, <1>3, <2>1
    <3> QED  BY <2>1, <3>1
  <2>3. Taken(t) = (c + 1) - 1
    BY <2>1, <2>2 DEF Taken
  <2> QED  BY <1>1, <2>3 DEF c, t
<1> QED  BY <1>1, <1>4, <1>5

\* base64_decode(base64_encode(s)) is s (base64.cpp:13-97).
THEOREM DecodeInvertsEncode ==
    ASSUME NEW s \in Seq(Byte)
    PROVE  base64_decode(base64_encode(s)) = s
<1> DEFINE t == base64_encode(s)
           n == Len(s)
<1>1. n \in Nat
  OBVIOUS
<1>2. Taken(t) = Carrying(n)
  BY TakenIsWhole
<1>3. DecodedLen(Taken(t)) = n
  BY <1>1, <1>2, CarryingFits
<1>4. Carrying(n) \in Nat /\ Carrying(n) <= Len(t)
  BY <1>1, CarryingFits, EncodedLen
<1>5. ASSUME NEW k \in 1..n
      PROVE  GroupOfChars(t, (k - 1) \div 3)[((k - 1) % 3) + 1] = s[k]
  <2> DEFINE g == (k - 1) \div 3
             j == ((k - 1) % 3) + 1
             B(x) == ByteAt(s, 3 * g + x)
             C(x) == CharAt(t, 4 * g + x)
  <2>1. 4 * g + j + 1 <= Carrying(n)
    <3>1. 4 * ((k - 1) \div 3) + ((k - 1) % 3) + 2 <= Carrying(n)
      BY <1>1, CarryingCovers
    <3> QED  BY <1>1, <1>4, <3>1
  <2>2. g \in Nat /\ j \in 1..3 /\ k = 3 * g + j
    BY <1>1
  <2> HIDE DEF g, j
  <2>3. B(1) \in Byte /\ B(2) \in Byte /\ B(3) \in Byte
    BY <2>2, BytesAreBytes
  <2>4. B(j) = s[k]
    BY <1>1, <2>2 DEF ByteAt
  \* A character in front of the padding is one of the encoder's group.
  <2>5. ASSUME NEW x \in 1..4, x <= j + 1
        PROVE  C(x) = Pack(B(1), B(2), B(3))[x]
    <3> DEFINE i == 4 * g + x
    <3>1. i \in Nat \ {0} /\ i <= Carrying(n)
      BY <1>4, <2>1, <2>2, <2>5
    <3>2. i \in 1..Len(t)
      BY <1>4, <3>1
    <3>3. (i - 1) \div 4 = g /\ ((i - 1) % 4) + 1 = x
      BY <2>2
    <3> HIDE DEF i
    <3>4. t[i] = GroupOfBytes(s, (i - 1) \div 4)[((i - 1) % 4) + 1]
      BY <1>4, <3>1, <3>2, EncodedChar
    <3>5. t[i] = GroupOfBytes(s, g)[x]
      BY <3>3, <3>4
    <3> QED  BY <1>2, <3>1, <3>5 DEF CharAt, GroupOfBytes, i
  <2>6. GroupOfChars(t, g) = Unpack(C(1), C(2), C(3), C(4))
    BY DEF GroupOfChars
  <2> DEFINE b1 == B(1)
             b2 == B(2)
             b3 == B(3)
  <2>7. CASE j = 1
    <3>1. C(1) = Pack(b1, b2, b3)[1] /\ C(2) = Pack(b1, b2, b3)[2]
      BY <2>5, <2>7
    <3> HIDE DEF B, C, t
    <3> HIDE DEF b1, b2, b3
    <3>2. Unpack(Pack(b1, b2, b3)[1], Pack(b1, b2, b3)[2], C(3), C(4))[1] = b1
      BY <2>3, FirstByte DEF b1, b2, b3
    <3>3. GroupOfChars(t, g)[1] = b1
      BY <2>6, <3>1, <3>2
    <3> QED  BY <2>4, <2>7, <3>3 DEF g, j, b1
  <2>8. CASE j = 2
    <3>1. C(2) = Pack(b1, b2, b3)[2] /\ C(3) = Pack(b1, b2, b3)[3]
      BY <2>5, <2>8
    <3> HIDE DEF B, C, t
    <3> HIDE DEF b1, b2, b3
    <3>2. Unpack(C(1), Pack(b1, b2, b3)[2], Pack(b1, b2, b3)[3], C(4))[2] = b2
      BY <2>3, SecondByte DEF b1, b2, b3
    <3>3. GroupOfChars(t, g)[2] = b2
      BY <2>6, <3>1, <3>2
    <3> QED  BY <2>4, <2>8, <3>3 DEF g, j, b2
  <2>9. CASE j = 3
    <3>1. C(3) = Pack(b1, b2, b3)[3] /\ C(4) = Pack(b1, b2, b3)[4]
      BY <2>5, <2>9
    <3> HIDE DEF B, C, t
    <3> HIDE DEF b1, b2, b3
    <3>2. Unpack(C(1), C(2), Pack(b1, b2, b3)[3], Pack(b1, b2, b3)[4])[3] = b3
      BY <2>3, ThirdByte DEF b1, b2, b3
    <3>3. GroupOfChars(t, g)[3] = b3
      BY <2>6, <3>1, <3>2
    <3> QED  BY <2>4, <2>9, <3>3 DEF g, j, b3
  <2> QED  BY <2>2, <2>7, <2>8, <2>9
<1>6. base64_decode(t) = [k \in 1..n |-> s[k]]
  BY <1>3, <1>5 DEF base64_decode
<1> QED  BY <1>6

\* So a caller of both functions always gets its message back.
THEOREM AlwaysRoundTrip == Spec => []RoundTrip
<1>1. Init => input \in Seq(Byte)
  <2> SUFFICES ASSUME Init  PROVE input \in Seq(Byte)
    OBVIOUS
  <2>1. PICK n \in 0..MaxLen : input \in [1..n -> ByteSet]
    BY DEF Init
  <2>2. ByteSet \subseteq Byte /\ n \in Nat
    BY Base64Assumption DEF Byte
  <2>3. input \in [1..n -> Byte]
    BY <2>1, <2>2
  <2> QED  BY <2>2, <2>3
<1>2. input \in Seq(Byte) /\ [Next]_vars => (input \in Seq(Byte))'
  BY DEF Next, Encode, Cut, Decode, vars
<1>3. input \in Seq(Byte) => RoundTrip
  BY DecodeInvertsEncode DEF RoundTrip
<1> QED  BY <1>1, <1>2, <1>3, PTL DEF Spec

-----------------------------------------------------------------------------
(* The loop of url_utf8_decode *)

\* The turns of the loop of url_utf8_decode, as a function.
DecodeTurns(f, X, last, max, m, q) ==
    f = [k \in 0..m |-> IF k = 0 THEN q ELSE DecodeTurn(X, last, max, f[k - 1])]

LEMMA DecodeTurnsAt ==
  ASSUME NEW f, NEW X, NEW last, NEW max, NEW m \in Nat, NEW q,
         DecodeTurns(f, X, last, max, m, q), NEW k \in 0..m
  PROVE  f[k] = IF k = 0 THEN q ELSE DecodeTurn(X, last, max, f[k - 1])
<1> DEFINE e(j) == IF j = 0 THEN q ELSE DecodeTurn(X, last, max, f[j - 1])
           g == [j \in 0..m |-> e(j)]
<1>1. f = g
  BY DEF DecodeTurns
<1>2. g[k] = e(k)
  OBVIOUS
<1>3. f[k] = e(k)
  <2> HIDE DEF g, e
  <2> QED BY <1>1, <1>2
<1> QED BY <1>3

LEMMA DecodeTurnsExist ==
  ASSUME NEW X, NEW last, NEW max, NEW q
  PROVE  \A m \in Nat : \E f : DecodeTurns(f, X, last, max, m, q)
<1> DEFINE T == {m \in Nat : \E f : DecodeTurns(f, X, last, max, m, q)}
<1>1. 0 \in T
  <2> DEFINE e == [k \in 0..0 |-> q]
  <2>1. DecodeTurns(e, X, last, max, 0, q)
    BY DEF DecodeTurns
  <2> QED BY <2>1
<1>2. ASSUME NEW m \in Nat, m \in T PROVE m + 1 \in T
  <2>1. PICK f : DecodeTurns(f, X, last, max, m, q)
    BY <1>2
  <2> DEFINE next == DecodeTurn(X, last, max, f[m])
             g == [k \in 0..(m + 1) |-> IF k = m + 1 THEN next ELSE f[k]]
  <2>2. ASSUME NEW k \in 0..(m + 1)
        PROVE  g[k] = IF k = 0 THEN q ELSE DecodeTurn(X, last, max, g[k - 1])
    <3>1. CASE k = m + 1
      <4>1. k # 0 /\ k - 1 = m /\ m \in 0..(m + 1) /\ m # m + 1
        BY <3>1
      <4>2. g[m] = f[m] /\ g[k] = next
        BY <3>1, <4>1
      <4> HIDE DEF g
      <4> QED BY <4>1, <4>2
    <3>2. CASE k # m + 1
      <4>1. k \in 0..m /\ g[k] = f[k] /\ (k # 0 => g[k - 1] = f[k - 1])
        BY <3>2
      <4> HIDE DEF g, next
      <4>2. f[k] = IF k = 0 THEN q ELSE DecodeTurn(X, last, max, f[k - 1])
        BY <2>1, <4>1, DecodeTurnsAt
      <4> QED BY <4>1, <4>2
    <3> QED BY <3>1, <3>2
  <2>3. g = [k \in 0..(m + 1) |-> g[k]]
    OBVIOUS
  <2>4. DecodeTurns(g, X, last, max, m + 1, q)
    <3> HIDE DEF g, next
    <3> QED BY <2>2, <2>3 DEF DecodeTurns
  <2> HIDE DEF g
  <2> QED BY <2>4
<1> HIDE DEF T
<1>3. Nat \subseteq T
  BY <1>1, <1>2, NatSetInduction
<1> QED BY <1>3 DEF T

LEMMA DecodeIsTurns ==
  ASSUME NEW X, NEW first, NEW last, NEW max, Len(X) \in Nat
  PROVE  \E f : /\ DecodeTurns(f, X, last, max, Len(X), [at |-> first, dst |-> <<>>])
                /\ url_utf8_decode(X, first, last, max) = f[Len(X)].dst
<1> DEFINE b == [at |-> first, dst |-> <<>>]
           f == CHOOSE h : h = [k \in 0..Len(X) |-> IF k = 0 THEN b ELSE DecodeTurn(X, last, max, h[k - 1])]
<1>1. \E h : h = [k \in 0..Len(X) |-> IF k = 0 THEN b ELSE DecodeTurn(X, last, max, h[k - 1])]
  <2> HIDE DEF b
  <2>1. \E h : DecodeTurns(h, X, last, max, Len(X), b)
    BY DecodeTurnsExist
  <2> QED BY <2>1, Zenon DEF DecodeTurns
<1>2. f = [k \in 0..Len(X) |-> IF k = 0 THEN b ELSE DecodeTurn(X, last, max, f[k - 1])]
  <2> HIDE DEF b
  <2> QED BY <1>1, Zenon
<1>3. DecodeTurns(f, X, last, max, Len(X), b)
  <2> HIDE DEF b
  <2> QED BY <1>2, Zenon DEF DecodeTurns
<1>4. url_utf8_decode(X, first, last, max) = f[Len(X)].dst
  BY Zenon DEF url_utf8_decode
<1> HIDE DEF f
<1> QED BY <1>3, <1>4, Zenon

LEMMA DecodeTurnsAll ==
  ASSUME NEW X, NEW last \in Nat, NEW max \in Nat, NEW f, NEW q, Len(X) \in Nat,
         DecodeTurns(f, X, last, max, Len(X), q)
  PROVE  \A k \in 0..Len(X) : f[k] = IF k = 0 THEN q ELSE DecodeTurn(X, last, max, f[k - 1])
  BY DecodeTurnsAt

\* The turn that begins behind position p of X reads up to q and writes c.
OneTurn(X, last, p, q, c) ==
    /\ p + 1 <= last
    /\ IF IsEscape(X, p + 1, last)
       THEN q = p + 3 /\ c = 16 * unhex(X[p + 2]) + unhex(X[p + 3])
       ELSE q = p + 1 /\ c = IF X[p + 1] = Plus THEN Space ELSE X[p + 1]

\* The turns that write w read X up to the positions of pos.
Runs(X, last, pos, w) ==
    /\ w \in Seq(Symbols) /\ Len(w) \in Nat
    /\ \A j \in 0..Len(w) : pos[j] \in Nat
    /\ \A j \in 1..Len(w) : OneTurn(X, last, pos[j - 1], pos[j], w[j])

\* Where the buffer ends.
Room(m, max) == IF m < max - 1 THEN m ELSE max - 1

LEMMA GrowPrefix ==
  ASSUME NEW S, NEW w \in Seq(S), NEW k \in Nat, k + 1 <= Len(w)
  PROVE  /\ Append(SubSeq(w, 1, k), w[k + 1]) = SubSeq(w, 1, k + 1)
         /\ Len(SubSeq(w, 1, k)) = k
<1>1. Len(w) \in Nat /\ k <= Len(w) /\ k + 1 \in 1..Len(w) /\ 0 + 1 = 1
  BY LenProperties
<1>2. w[k + 1] \in S
  BY <1>1, ElementOfSeq
<1> DEFINE u == SubSeq(w, 1, k)
           v == SubSeq(w, 1, k + 1)
           a == Append(u, w[k + 1])
<1>3. IsPart(S, w, u, 0, k) /\ IsPart(S, w, v, 0, k + 1)
  BY <1>1, PartIs
<1>4. /\ u \in Seq(S) /\ Len(u) = k /\ \A i \in 1..k : u[i] = w[i]
      /\ v \in Seq(S) /\ Len(v) = k + 1 /\ \A i \in 1..(k + 1) : v[i] = w[i]
  <2>1. k - 0 = k /\ (k + 1) - 0 = k + 1 /\ \A i \in 1..(k + 1) : 0 + i = i
    OBVIOUS
  <2> HIDE DEF u, v
  <2> QED BY <1>3, <2>1 DEF IsPart
<1> HIDE DEF u, v
<1>5. /\ a \in Seq(S) /\ Len(a) = k + 1 /\ a[k + 1] = w[k + 1]
      /\ \A i \in 1..k : a[i] = u[i]
  BY <1>2, <1>4, AppendProperties
<1> HIDE DEF a
<1>6. \A i \in 1..(k + 1) : a[i] = v[i]
  <2> TAKE i \in 1..(k + 1)
  <2>1. i = k + 1 \/ i \in 1..k
    OBVIOUS
  <2> QED BY <1>4, <1>5, <2>1
<1>7. a = v
  BY <1>4, <1>5, <1>6, SameElements
<1> QED BY <1>4, <1>7 DEF a, u, v

\* One turn of the loop, as long as there is room.
LEMMA TurnWrites ==
  ASSUME NEW X, NEW last \in Nat, NEW max \in Nat, NEW p \in Nat, NEW r, NEW c, NEW u,
         Len(u) \in Nat, Len(u) < max - 1, OneTurn(X, last, p, r, c)
  PROVE  DecodeTurn(X, last, max, [at |-> p + 1, dst |-> u]) = [at |-> r + 1, dst |-> Append(u, c)]
<1>1. p + 1 <= last /\ ~(p + 1 > last) /\ RoomFor(u, max)
  BY DEF OneTurn, RoomFor
<1>2. (p + 1) + 1 = p + 2 /\ (p + 1) + 2 = p + 3 /\ (p + 1) + 3 = (p + 3) + 1
  OBVIOUS
<1>3. CASE IsEscape(X, p + 1, last)
  <2>1. r = p + 3 /\ c = 16 * unhex(X[p + 2]) + unhex(X[p + 3])
    BY <1>3 DEF OneTurn
  <2> QED BY <1>1, <1>2, <1>3, <2>1 DEF DecodeTurn
<1>4. CASE ~IsEscape(X, p + 1, last)
  <2>1. r = p + 1 /\ c = IF X[p + 1] = Plus THEN Space ELSE X[p + 1]
    BY <1>4 DEF OneTurn
  <2> QED BY <1>1, <1>2, <1>4, <2>1 DEF DecodeTurn
<1> QED BY <1>3, <1>4

LEMMA TurnStops ==
  ASSUME NEW X, NEW last \in Nat, NEW max, NEW i \in Nat, NEW u, i > last \/ ~RoomFor(u, max)
  PROVE  DecodeTurn(X, last, max, [at |-> i, dst |-> u]) = [at |-> i, dst |-> u]
<1> DEFINE q == [at |-> i, dst |-> u]
<1>1. q.at = i /\ q.dst = u
  OBVIOUS
<1> HIDE DEF q
<1>2. q.at > last \/ ~RoomFor(q.dst, max)
  BY <1>1
<1>3. ~(q.at <= last /\ RoomFor(q.dst, max) /\ IsEscape(X, q.at, last))
  BY <1>1, <1>2
<1>4. DecodeTurn(X, last, max, q) = q
  BY <1>2, <1>3 DEF DecodeTurn
<1> QED BY <1>4 DEF q

\* What the loop returns.
LEMMA DecodeRuns ==
  ASSUME NEW X, Len(X) \in Nat, NEW last \in Nat, NEW max \in Nat, max > 0, NEW pos, NEW w,
         Runs(X, last, pos, w), Len(w) <= Len(X), pos[Len(w)] >= last
  PROVE  url_utf8_decode(X, pos[0] + 1, last, max) = SubSeq(w, 1, Room(Len(w), max))
<1> DEFINE m == Len(w)
           c == Room(m, max)
           E(k) == IF k < c THEN k ELSE c
           St(k) == [at |-> pos[k] + 1, dst |-> SubSeq(w, 1, k)]
<1>1. PICK f : /\ DecodeTurns(f, X, last, max, Len(X), [at |-> pos[0] + 1, dst |-> <<>>])
               /\ url_utf8_decode(X, pos[0] + 1, last, max) = f[Len(X)].dst
  BY DecodeIsTurns
<1> DEFINE b == [at |-> pos[0] + 1, dst |-> <<>>]
<1>0. \A k \in 0..Len(X) : f[k] = IF k = 0 THEN b ELSE DecodeTurn(X, last, max, f[k - 1])
  <2>1. DecodeTurns(f, X, last, max, Len(X), b)
    BY <1>1
  <2> HIDE DEF b
  <2> QED BY <2>1, DecodeTurnsAll
<1>2. /\ w \in Seq(Symbols) /\ m \in Nat /\ c \in 0..m /\ m <= Len(X)
      /\ c = m \/ c = max - 1
      /\ \A k \in 0..m : pos[k] \in Nat
  <2>1. w \in Seq(Symbols) /\ m \in Nat /\ \A k \in 0..m : pos[k] \in Nat
    BY DEF Runs
  <2> HIDE DEF m
  <2> QED BY <2>1 DEF Room, m
<1>3. \A k \in Nat : E(k) \in 0..m /\ E(k) <= c /\ (k < c => E(k) = k /\ E(k + 1) = k + 1)
                       /\ (k >= c => E(k) = c /\ E(k + 1) = c)
  <2> HIDE DEF c, m
  <2> QED BY <1>2
<1>4. ASSUME NEW k \in Nat, k < c
      PROVE  DecodeTurn(X, last, max, St(k)) = St(k + 1)
  <2>1. k + 1 <= m /\ k \in 0..m /\ k + 1 \in 1..m /\ (k + 1) - 1 = k /\ k < max - 1
    <3> HIDE DEF m
    <3> QED BY <1>2, <1>4 DEF Room
  <2>2. /\ Append(SubSeq(w, 1, k), w[k + 1]) = SubSeq(w, 1, k + 1)
        /\ Len(SubSeq(w, 1, k)) = k
    BY <1>2, <2>1, GrowPrefix
  <2>3. OneTurn(X, last, pos[k], pos[k + 1], w[k + 1])
    BY <2>1 DEF Runs
  <2>4. DecodeTurn(X, last, max, [at |-> pos[k] + 1, dst |-> SubSeq(w, 1, k)])
           = [at |-> pos[k + 1] + 1, dst |-> Append(SubSeq(w, 1, k), w[k + 1])]
    <3> DEFINE u == SubSeq(w, 1, k)
    <3>1. Len(u) \in Nat /\ Len(u) < max - 1 /\ pos[k] \in Nat /\ max \in Nat
      BY <1>2, <2>1, <2>2
    <3> DEFINE p == pos[k]
               r == pos[k + 1]
               e == w[k + 1]
    <3>2. p \in Nat /\ OneTurn(X, last, p, r, e)
      BY <2>3, <3>1
    <3> HIDE DEF u, p, r, e
    <3>3. DecodeTurn(X, last, max, [at |-> p + 1, dst |-> u]) = [at |-> r + 1, dst |-> Append(u, e)]
      BY <3>1, <3>2, TurnWrites
    <3> QED BY <3>3 DEF u, p, r, e
  <2> QED BY <2>2, <2>4
<1>5. DecodeTurn(X, last, max, St(c)) = St(c)
  <2>1. Len(SubSeq(w, 1, c)) = c
    <3>1. c \in Nat /\ c <= Len(w) /\ 0 + 1 = 1 /\ 0 <= c /\ c - 0 = c
      BY <1>2
    <3> HIDE DEF c, m
    <3>2. IsPart(Symbols, w, SubSeq(w, 1, c), 0, c)
      BY <1>2, <3>1, PartIs
    <3> QED BY <3>1, <3>2 DEF IsPart
  <2> DEFINE u == SubSeq(w, 1, c)
             i == pos[c] + 1
  <2>2. i > last \/ ~RoomFor(u, max)
    <3>1. CASE c = m
      BY <1>2, <3>1
    <3>2. CASE c = max - 1
      <4> HIDE DEF c
      <4> QED BY <2>1, <3>2 DEF RoomFor
    <3> QED BY <1>2, <3>1, <3>2
  <2> HIDE DEF u, i
  <2>4. DecodeTurn(X, last, max, [at |-> i, dst |-> u]) = [at |-> i, dst |-> u]
    <3>1. i \in Nat
      BY <1>2 DEF i
    <3> QED BY <2>2, <3>1, TurnStops
  <2> QED BY <2>4 DEF u, i
<1> DEFINE T == {k \in Nat : k <= Len(X) => f[k] = St(E(k))}
<1>6. 0 \in T
  <2>1. E(0) = 0 /\ 0 \in 0..Len(X)
    <3> HIDE DEF c
    <3> QED BY <1>2
  <2>2. SubSeq(w, 1, 0) = <<>>
    BY <1>2, SubSeqNothing
  <2>3. f[0] = [at |-> pos[0] + 1, dst |-> <<>>]
    BY <1>0, <2>1
  <2> HIDE DEF E, c, m
  <2> QED BY <2>1, <2>2, <2>3
<1>7. ASSUME NEW k \in Nat, k \in T PROVE k + 1 \in T
  <2> SUFFICES ASSUME k + 1 <= Len(X) PROVE f[k + 1] = St(E(k + 1))
    <3> HIDE DEF E, St
    <3> QED OBVIOUS
  <2>1. k + 1 \in 0..Len(X) /\ k <= Len(X) /\ k + 1 # 0 /\ (k + 1) - 1 = k
    OBVIOUS
  <2>2. f[k] = St(E(k))
    <3> HIDE DEF E, St
    <3> QED BY <1>7, <2>1
  <2>3. f[k + 1] = DecodeTurn(X, last, max, f[k])
    BY <1>0, <2>1
  <2> HIDE DEF E, St
  <2>4. CASE k < c
    BY <1>3, <1>4, <2>2, <2>3, <2>4
  <2>5. CASE ~(k < c)
    <3>1. E(k) = c /\ E(k + 1) = c
      <4> HIDE DEF c
      <4>1. k >= c
        BY <1>2, <2>5
      <4> QED BY <1>3, <4>1
    <3> QED BY <1>5, <2>2, <2>3, <3>1
  <2> QED BY <2>4, <2>5
<1> HIDE DEF T
<1>8. Nat \subseteq T
  BY <1>6, <1>7, NatSetInduction
<1>9. f[Len(X)] = St(E(Len(X)))
  <2> HIDE DEF St, E
  <2> QED BY <1>8 DEF T
<1>10. E(Len(X)) = c
  <2> HIDE DEF m, c
  <2> QED BY <1>2
<1>11. St(c).dst = SubSeq(w, 1, c)
  <2> HIDE DEF c
  <2> QED OBVIOUS
<1> HIDE DEF E, St
<1> QED BY <1>1, <1>9, <1>10, <1>11

-----------------------------------------------------------------------------
(* Texts that code other texts. *)

\* The bytes p + 1 .. q of x stand for c: c itself, or an escape.
Unit(x, p, q, c) ==
    \/ /\ q = p + 1 /\ x[p + 1] = c /\ c \notin {Escape, Plus}
    \/ /\ q = p + 3 /\ x[p + 1] = Escape /\ isxdigit(x[p + 2]) /\ isxdigit(x[p + 3])
       /\ c = 16 * unhex(x[p + 2]) + unhex(x[p + 3])

\* x is a sequence of units that stand for the elements of w, and pos tells
\* where they end.
IsCode(x, w, pos) ==
    /\ Len(x) \in Nat /\ Len(w) \in Nat
    /\ pos[0] = 0 /\ pos[Len(w)] = Len(x)
    /\ \A j \in 0..Len(w) : pos[j] \in Nat /\ pos[j] <= Len(x)
    /\ \A j \in 1..Len(w) : Unit(x, pos[j - 1], pos[j], w[j])

Codes(x, w) == /\ x \in Seq(Symbols) /\ w \in Seq(Symbols)
               /\ \E pos : IsCode(x, w, pos)

LEMMA CodesNothing == Codes(<<>>, <<>>)
<1> DEFINE pos == [j \in 0..0 |-> 0]
<1>1. IsCode(<<>>, <<>>, pos)
  BY DEF IsCode
<1> HIDE DEF pos
<1> QED BY <1>1 DEF Codes

LEMMA CodesSelf ==
  ASSUME NEW v \in Seq(Symbols), \A i \in 1..Len(v) : v[i] \notin {Escape, Plus}
  PROVE  Codes(v, v)
<1> DEFINE pos == [j \in 0..Len(v) |-> j]
           m == Len(v)
<1>1. m \in Nat
  BY LenProperties
<1>2. \A j \in 0..m : pos[j] = j
  OBVIOUS
<1> HIDE DEF pos
<1>3. \A j \in 0..m : pos[j] \in Nat /\ pos[j] <= m
  <2> HIDE DEF m
  <2> QED BY <1>1, <1>2
<1>4. ASSUME NEW j \in 1..m PROVE Unit(v, pos[j - 1], pos[j], v[j])
  <2>1. j \in 0..m /\ j - 1 \in 0..m /\ (j - 1) + 1 = j
    <3> HIDE DEF m
    <3> QED BY <1>1
  <2>2. pos[j - 1] = j - 1 /\ pos[j] = j
    BY <1>2, <2>1
  <2> QED BY <2>1, <2>2 DEF Unit
<1>5. pos[0] = 0 /\ pos[m] = m
  BY <1>1, <1>2
<1>6. IsCode(v, v, pos)
  BY <1>1, <1>3, <1>4, <1>5 DEF IsCode
<1> QED BY <1>6 DEF Codes

\* A byte of the client, encoded
LEMMA CodesByte ==
  ASSUME NEW c \in Symbols
  PROVE  /\ Codes(EncodeByte(c), <<c>>)
         /\ \A i \in 1..Len(EncodeByte(c)) : EncodeByte(c)[i] \notin {And, Equals}
<1> DEFINE x == EncodeByte(c)
           w == <<c>>
<1>1. c \in Nat /\ w \in Seq(Symbols) /\ Len(w) = 1 /\ w[1] = c
  BY DEF Symbols, true
<1>2. CASE c \in {Space, Escape, And, Plus, Equals}
  <2> DEFINE h == HexDigit(c \div 16)
             l == HexDigit(c % 16)
             pos == [j \in 0..1 |-> IF j = 0 THEN 0 ELSE 3]
  <2>1. h \in (48..57) \cup (65..70) /\ l \in (48..57) \cup (65..70) /\ c = 16 * unhex(h) + unhex(l)
    BY <1>2 DEF HexDigit, unhex, Space, Escape, And, Plus, Equals
  <2>2. x = <<Escape, h, l>>
    BY <1>2 DEF EncodeByte
  <2> HIDE DEF h, l
  <2>3. /\ x \in Seq(Symbols) /\ Len(x) = 3 /\ x[1] = Escape /\ x[2] = h /\ x[3] = l
        /\ h \notin {And, Equals} /\ l \notin {And, Equals}
    <3>1. h \in Symbols /\ l \in Symbols /\ Escape \in Symbols
      BY <2>1 DEF Symbols, true, Escape
    <3>2. h \notin {And, Equals} /\ l \notin {And, Equals}
      BY <2>1 DEF And, Equals
    <3> HIDE DEF x
    <3> QED BY <2>2, <3>1, <3>2
  <2> HIDE DEF x, w
  <2>4. isxdigit(h) /\ isxdigit(l)
    BY <2>1 DEF isxdigit
  <2>5. 0 + 1 = 1 /\ 0 + 2 = 2 /\ 0 + 3 = 3 /\ 1 - 1 = 0
    OBVIOUS
  <2>6. Unit(x, 0, 3, c)
    BY <2>1, <2>3, <2>4, <2>5 DEF Unit
  <2>7. pos[0] = 0 /\ pos[1] = 3
    OBVIOUS
  <2> HIDE DEF pos
  <2>8. \A j \in 1..1 : Unit(x, pos[j - 1], pos[j], w[j])
    <3>1. \A j \in 1..1 : j = 1
      OBVIOUS
    <3>2. Unit(x, pos[1 - 1], pos[1], w[1])
      BY <1>1, <2>5, <2>6, <2>7
    <3> QED BY <3>1, <3>2
  <2>9. \A j \in 0..1 : pos[j] \in Nat /\ pos[j] <= 3
    <3>1. \A j \in 0..1 : j = 0 \/ j = 1
      OBVIOUS
    <3> QED BY <2>7, <3>1
  <2>10. IsCode(x, w, pos)
    BY <1>1, <2>3, <2>7, <2>8, <2>9 DEF IsCode
  <2>11. Codes(x, w)
    BY <1>1, <2>3, <2>10 DEF Codes
  <2>12. \A i \in 1..Len(x) : x[i] \notin {And, Equals}
    <3>1. \A i \in 1..3 : i = 1 \/ i = 2 \/ i = 3
      OBVIOUS
    <3>2. Escape \notin {And, Equals}
      BY DEF Escape, And, Equals
    <3> QED BY <2>3, <3>1, <3>2
  <2> QED BY <2>11, <2>12 DEF x, w
<1>3. CASE c \notin {Space, Escape, And, Plus, Equals}
  <2>1. x = <<c>>
    BY <1>3 DEF EncodeByte
  <2>2. \A i \in 1..Len(w) : w[i] = c
    BY <1>1
  <2>3. Codes(w, w)
    <3> HIDE DEF w
    <3> QED BY <1>1, <1>3, <2>2, CodesSelf
  <2>4. c \notin {And, Equals}
    BY <1>3
  <2>5. x = w
    BY <2>1
  <2> HIDE DEF x, w
  <2>6. Codes(x, w) /\ \A i \in 1..Len(x) : x[i] \notin {And, Equals}
    BY <2>2, <2>3, <2>4, <2>5
  <2> QED BY <2>6 DEF x, w
<1> QED BY <1>2, <1>3

\* X has the first n bytes of x behind its first a.
Holds(X, a, x, n) == a \in Nat /\ n \in Nat /\ \A i \in 1..n : X[a + i] = x[i]

\* A unit inside a longer text.
LEMMA UnitMoves ==
  ASSUME NEW X, NEW x, NEW a, NEW n, Holds(X, a, x, n),
         NEW p \in Nat, NEW q \in Nat, NEW c, Unit(x, p, q, c), q <= n
  PROVE  Unit(X, a + p, a + q, c)
<1>1. a \in Nat /\ n \in Nat /\ \A i \in 1..n : X[a + i] = x[i]
  BY DEF Holds
<1>2. CASE q = p + 1 /\ x[p + 1] = c /\ c \notin {Escape, Plus}
  <2>1. p + 1 \in 1..n /\ a + (p + 1) = (a + p) + 1
    BY <1>1, <1>2
  <2> QED BY <1>1, <1>2, <2>1 DEF Unit
<1>3. CASE /\ q = p + 3 /\ x[p + 1] = Escape /\ isxdigit(x[p + 2]) /\ isxdigit(x[p + 3])
           /\ c = 16 * unhex(x[p + 2]) + unhex(x[p + 3])
  <2>1. /\ p + 1 \in 1..n /\ p + 2 \in 1..n /\ p + 3 \in 1..n
        /\ a + (p + 1) = (a + p) + 1 /\ a + (p + 2) = (a + p) + 2 /\ a + (p + 3) = (a + p) + 3
    BY <1>1, <1>3
  <2>2. x[p + 1] = X[(a + p) + 1] /\ x[p + 2] = X[(a + p) + 2] /\ x[p + 3] = X[(a + p) + 3]
    BY <1>1, <2>1
  <2> QED BY <1>3, <2>1, <2>2 DEF Unit
<1> QED BY <1>2, <1>3 DEF Unit

\* What a concatenation holds.
LEMMA CatParts ==
  ASSUME NEW S, NEW p \in Seq(S), NEW q \in Seq(S)
  PROVE  /\ Holds(Cat(p, q), 0, p, Len(p)) /\ Holds(Cat(p, q), Len(p), q, Len(q))
         /\ Cat(p, q) \in Seq(S) /\ Len(Cat(p, q)) = Len(p) + Len(q)
         /\ Len(p) \in Nat /\ Len(q) \in Nat
<1> DEFINE w == Cat(p, q)
           a == Len(p)
           b == Len(q)
<1>1. IsCat(S, p, q)
  BY CatAt
<1>2. /\ w \in Seq(S) /\ a \in Nat /\ b \in Nat /\ Len(w) = a + b
      /\ \A i \in 1..a : w[i] = p[i]
      /\ \A i \in 1..b : w[a + i] = q[i]
  BY <1>1 DEF IsCat
<1> HIDE DEF w, a, b
<1>3. \A i \in 1..a : 0 + i = i
  BY <1>2
<1>4. Holds(w, 0, p, a) /\ Holds(w, a, q, b)
  BY <1>2, <1>3 DEF Holds
<1> QED BY <1>2, <1>4 DEF w, a, b

\* Concatenations of codes are codes.
LEMMA CodesCat ==
  ASSUME NEW x, NEW y, NEW v, NEW w, Codes(x, v), Codes(y, w)
  PROVE  Codes(Cat(x, y), Cat(v, w))
<1>1. x \in Seq(Symbols) /\ y \in Seq(Symbols) /\ v \in Seq(Symbols) /\ w \in Seq(Symbols)
  BY DEF Codes
<1>2. PICK f : IsCode(x, v, f)
  BY DEF Codes
<1>3. PICK g : IsCode(y, w, g)
  BY DEF Codes
<1> DEFINE X == Cat(x, y)
           W == Cat(v, w)
           a == Len(x)
           b == Len(y)
           k == Len(v)
           m == Len(w)
           pos == [j \in 0..(k + m) |-> IF j <= k THEN f[j] ELSE a + g[j - k]]
<1>4. /\ Holds(X, 0, x, a) /\ Holds(X, a, y, b)
      /\ X \in Seq(Symbols) /\ Len(X) = a + b /\ a \in Nat /\ b \in Nat
  BY <1>1, CatParts
<1>5. /\ Holds(W, 0, v, k) /\ Holds(W, k, w, m)
      /\ W \in Seq(Symbols) /\ Len(W) = k + m /\ k \in Nat /\ m \in Nat
  BY <1>1, CatParts
<1>6. /\ f[0] = 0 /\ f[k] = a /\ \A j \in 0..k : f[j] \in Nat /\ f[j] <= a
      /\ \A j \in 1..k : Unit(x, f[j - 1], f[j], v[j])
  BY <1>2 DEF IsCode
<1>7. /\ g[0] = 0 /\ g[m] = b /\ \A j \in 0..m : g[j] \in Nat /\ g[j] <= b
      /\ \A j \in 1..m : Unit(y, g[j - 1], g[j], w[j])
  BY <1>3 DEF IsCode
<1> HIDE DEF X, W, a, b, k, m
<1>8. /\ \A j \in 0..k : pos[j] = f[j]
      /\ \A j \in 0..m : pos[k + j] = a + g[j]
  <2>1. \A j \in 0..k : pos[j] = f[j]
    BY <1>5
  <2>2. ASSUME NEW j \in 0..m PROVE pos[k + j] = a + g[j]
    <3>1. CASE j = 0
      <4>1. k + j = k /\ k \in 0..k
        BY <1>5, <3>1
      <4>2. a + 0 = a
        BY <1>4
      <4> HIDE DEF pos
      <4> QED BY <1>6, <1>7, <2>1, <3>1, <4>1, <4>2
    <3>2. CASE j # 0
      <4>1. k + j \in 0..(k + m) /\ ~(k + j <= k) /\ (k + j) - k = j
        BY <1>5, <3>2
      <4> QED BY <4>1
    <3> QED BY <3>1, <3>2
  <2> QED BY <2>1, <2>2
<1> HIDE DEF pos
<1>9. pos[0] = 0 /\ pos[k + m] = a + b
  BY <1>4, <1>5, <1>6, <1>7, <1>8
<1>10. ASSUME NEW j \in 0..(k + m) PROVE pos[j] \in Nat /\ pos[j] <= a + b
  <2>1. CASE j <= k
    <3>1. j \in 0..k
      BY <1>5, <2>1
    <3> QED BY <1>4, <1>6, <1>8, <3>1
  <2>2. CASE j > k
    <3>1. j - k \in 0..m /\ j = k + (j - k)
      BY <1>5, <2>2
    <3>2. pos[j] = a + g[j - k] /\ g[j - k] \in Nat /\ g[j - k] <= b
      BY <1>7, <1>8, <3>1
    <3> QED BY <1>4, <3>2
  <2> QED BY <1>5, <2>1, <2>2
<1>11. ASSUME NEW j \in 1..(k + m) PROVE Unit(X, pos[j - 1], pos[j], W[j])
  <2>1. CASE j <= k
    <3>1. j \in 0..k /\ j - 1 \in 0..k /\ j \in 1..k /\ 0 + j = j
      BY <1>5, <2>1
    <3>2. pos[j] = f[j] /\ pos[j - 1] = f[j - 1] /\ W[j] = v[j]
      BY <1>5, <1>8, <3>1 DEF Holds
    <3> DEFINE p == f[j - 1]
               q == f[j]
               c == v[j]
    <3>3. Unit(x, p, q, c) /\ p \in Nat /\ q \in Nat /\ q <= a
      BY <1>4, <1>6, <3>1
    <3> HIDE DEF p, q, c
    <3>4. Unit(X, 0 + p, 0 + q, c) /\ 0 + p = p /\ 0 + q = q
      BY <1>4, <3>3, UnitMoves
    <3> QED BY <3>2, <3>4 DEF p, q, c
  <2>2. CASE j > k
    <3> DEFINE i == j - k
    <3>1. /\ i \in 0..m /\ i - 1 \in 0..m /\ i \in 1..m /\ j = k + i /\ j - 1 = k + (i - 1)
      BY <1>5, <2>2
    <3> HIDE DEF i
    <3>2. pos[j] = a + g[i] /\ pos[j - 1] = a + g[i - 1]
      BY <1>8, <3>1
    <3>3. W[j] = w[i]
      BY <1>5, <3>1 DEF Holds
    <3> DEFINE p == g[i - 1]
               q == g[i]
               c == w[i]
    <3>4. Unit(y, p, q, c) /\ p \in Nat /\ q \in Nat /\ q <= b
      BY <1>7, <3>1
    <3> HIDE DEF p, q, c
    <3>6. Unit(X, a + p, a + q, c)
      BY <1>4, <3>4, UnitMoves
    <3> QED BY <3>2, <3>3, <3>6 DEF p, q, c
  <2> QED BY <1>5, <2>1, <2>2
<1>12. IsCode(X, W, pos)
  BY <1>4, <1>5, <1>9, <1>10, <1>11 DEF IsCode
<1>13. Codes(X, W)
  BY <1>4, <1>5, <1>12 DEF Codes
<1> QED BY <1>13 DEF X, W

\* One piece after the other.
LEMMA CodesPieces ==
  ASSUME NEW m, NEW s, NEW t, ArePieces(Symbols, s, m), ArePieces(Symbols, t, m),
         \A i \in 1..m : Codes(s[i], t[i])
  PROVE  \A n \in 0..m : Codes(Pieces(s, n), Pieces(t, n))
<1> DEFINE T == {n \in Nat : n \in 0..m => Codes(Pieces(s, n), Pieces(t, n))}
<1>0. m \in Nat
  BY DEF ArePieces
<1>1. 0 \in T
  BY PiecesStep, CodesNothing
<1>2. ASSUME NEW n \in Nat, n \in T PROVE n + 1 \in T
  <2> SUFFICES ASSUME n + 1 \in 0..m PROVE Codes(Pieces(s, n + 1), Pieces(t, n + 1))
    OBVIOUS
  <2>1. n \in 0..m /\ n \in 0..(m - 1) /\ n + 1 \in 1..m
    BY <1>0
  <2>2. Pieces(s, n + 1) = Cat(Pieces(s, n), s[n + 1]) /\ Pieces(t, n + 1) = Cat(Pieces(t, n), t[n + 1])
    BY <2>1, PiecesStep
  <2>3. Codes(Pieces(s, n), Pieces(t, n)) /\ Codes(s[n + 1], t[n + 1])
    BY <1>2, <2>1
  <2> QED BY <2>2, <2>3, CodesCat
<1> HIDE DEF T
<1>3. Nat \subseteq T
  BY <1>1, <1>2, NatSetInduction
<1> QED BY <1>0, <1>3 DEF T

\* The bytes that no value holds once it is encoded, and what remains.
Clean == Symbols \ {And, Equals}

LEMMA NarrowSeq ==
  ASSUME NEW S, NEW T, NEW x \in Seq(S), \A i \in 1..Len(x) : x[i] \in T
  PROVE  x \in Seq(T)
<1>1. Len(x) \in Nat /\ x \in [1..Len(x) -> S]
  BY LenProperties
<1>2. x \in [1..Len(x) -> T]
  BY <1>1
<1> DEFINE n == Len(x)
<1>3. n \in Nat /\ x \in [1..n -> T]
  BY <1>1, <1>2
<1> HIDE DEF n
<1> QED BY <1>3, SeqDef

LEMMA CleanIsText ==
  ASSUME NEW x \in Seq(Clean)
  PROVE  x \in Seq(Symbols) /\ \A i \in 1..Len(x) : x[i] \in Clean
<1>1. \A i \in 1..Len(x) : x[i] \in Clean
  BY ElementOfSeq
<1>2. \A i \in 1..Len(x) : x[i] \in Symbols
  BY <1>1 DEF Clean
<1> QED BY <1>1, <1>2, NarrowSeq

\* A text is the concatenation of its bytes.
LEMMA PiecesOfBytes ==
  ASSUME NEW S, NEW v \in Seq(S), NEW t, \A i \in 1..Len(v) : t[i] = <<v[i]>>
  PROVE  ArePieces(S, t, Len(v)) /\ Pieces(t, Len(v)) = v
<1> DEFINE m == Len(v)
           T == {k \in Nat : k <= m => Pieces(t, k) = SubSeq(v, 1, k)}
<1>0. m \in Nat /\ \A i \in 1..m : v[i] \in S
  BY LenProperties, ElementOfSeq
<1>1. ArePieces(S, t, m)
  <2>1. ASSUME NEW i \in 1..m PROVE t[i] \in Seq(S)
    <3>1. t[i] = <<v[i]>> /\ v[i] \in S
      BY <1>0
    <3> QED BY <3>1
  <2> QED BY <1>0, <2>1 DEF ArePieces
<1> HIDE DEF m
<1>2. 0 \in T
  <2>1. SubSeq(v, 1, 0) = <<>>
    BY SubSeqNothing
  <2>2. Pieces(t, 0) = <<>>
    BY <1>1, PiecesStep
  <2> QED BY <2>1, <2>2
<1>3. ASSUME NEW k \in Nat, k \in T PROVE k + 1 \in T
  <2> SUFFICES ASSUME k + 1 <= m PROVE Pieces(t, k + 1) = SubSeq(v, 1, k + 1)
    OBVIOUS
  <2>1. k \in 0..(m - 1) /\ k <= m /\ k + 1 \in 1..m
    BY <1>0
  <2>2. Pieces(t, k + 1) = Cat(Pieces(t, k), t[k + 1]) /\ Pieces(t, k) = SubSeq(v, 1, k)
    BY <1>1, <1>3, <2>1, PiecesStep
  <2>3. Append(SubSeq(v, 1, k), v[k + 1]) = SubSeq(v, 1, k + 1)
    BY <2>1, GrowPrefix DEF m
  <2>4. t[k + 1] = <<v[k + 1]>> /\ v[k + 1] \in S
    BY <1>0, <2>1 DEF m
  <2>5. ASSUME NEW u \in Seq(S), NEW e \in S PROVE Cat(u, <<e>>) = Append(u, e)
    BY DEF Cat
  <2>6. SubSeq(v, 1, k) \in Seq(S)
    <3>1. IsPart(S, v, SubSeq(v, 0 + 1, k), 0, k) /\ 0 + 1 = 1
      BY <1>0, <2>1, PartIs DEF m
    <3> QED BY <3>1 DEF IsPart
  <2> QED BY <2>2, <2>3, <2>4, <2>5, <2>6
<1> HIDE DEF T
<1>4. Nat \subseteq T
  BY <1>2, <1>3, NatSetInduction
<1>5. Pieces(t, m) = SubSeq(v, 1, m)
  BY <1>0, <1>4 DEF T
<1> QED BY <1>1, <1>5, SubSeqWhole DEF m

\* What URLEncoded makes of a text holds no separator, and codes the text.
LEMMA URLCodes ==
  ASSUME NEW v \in Seq(Symbols)
  PROVE  URLEncoded(v) \in Seq(Clean) /\ Codes(URLEncoded(v), v)
<1> DEFINE m == Len(v)
           s == [i \in 1..m |-> EncodeByte(v[i])]
           t == [i \in 1..m |-> <<v[i]>>]
<1>1. m \in Nat /\ DOMAIN v = 1..m /\ \A i \in 1..m : v[i] \in Symbols
  BY LenProperties, ElementOfSeq
<1>2. URLEncoded(v) = FlattenSeq(s)
  BY <1>1 DEF URLEncoded
<1>3. s = [i \in 1..m |-> s[i]]
  OBVIOUS
<1>4. \A i \in 1..m : s[i] = EncodeByte(v[i]) /\ t[i] = <<v[i]>>
  OBVIOUS
<1> HIDE DEF s, t
<1>5. URLEncoded(v) = Pieces(s, m)
  BY <1>2, <1>3 DEF Pieces
<1>6. ArePieces(Symbols, t, m) /\ Pieces(t, m) = v
  BY <1>4, PiecesOfBytes
<1>7. ASSUME NEW i \in 1..m PROVE Codes(s[i], t[i]) /\ s[i] \in Seq(Clean) /\ s[i] \in Seq(Symbols)
  <2>1. v[i] \in Symbols /\ s[i] = EncodeByte(v[i]) /\ t[i] = <<v[i]>>
    BY <1>1, <1>4
  <2>2. Codes(s[i], t[i]) /\ \A j \in 1..Len(s[i]) : s[i][j] \notin {And, Equals}
    BY <2>1, CodesByte
  <2>3. s[i] \in Seq(Symbols)
    BY <2>2 DEF Codes
  <2>4. \A j \in 1..Len(s[i]) : s[i][j] \in Clean
    <3> DEFINE x == s[i]
    <3>1. \A j \in 1..Len(x) : x[j] \in Symbols
      BY <2>3, ElementOfSeq
    <3> QED BY <2>2, <3>1 DEF Clean
  <2>5. s[i] \in Seq(Clean)
    BY <2>3, <2>4, NarrowSeq
  <2> QED BY <2>2, <2>3, <2>5
<1>8. ArePieces(Symbols, s, m) /\ ArePieces(Clean, s, m)
  BY <1>1, <1>7 DEF ArePieces
<1>9. m \in 0..m
  BY <1>1
<1>10. Codes(Pieces(s, m), Pieces(t, m))
  BY <1>6, <1>7, <1>8, <1>9, CodesPieces
<1>11. Pieces(s, m) \in Seq(Clean)
  BY <1>8, <1>9, PiecesType
<1> QED BY <1>5, <1>6, <1>10, <1>11

-----------------------------------------------------------------------------
(* Fields joined with '&'. *)

Separator(i) == IF i = 1 THEN <<>> ELSE <<And>>

Piece(nm, e, i) == Cat(Separator(i), Cat(<<nm[i], Equals>>, e[i]))

Joined(nm, e, m) == Pieces([i \in 1..m |-> Piece(nm, e, i)], m)

\* The names and the texts of m fields.
AreFields(nm, e, m) ==
    /\ m \in Nat /\ m # 0
    /\ \A i \in 1..m : nm[i] \in Names /\ e[i] \in Seq(Symbols)

LEMMA NamesClean == Names \subseteq Clean /\ And \in Symbols /\ Equals \in Symbols /\ Names \subseteq Symbols
  BY DEF Names, Clean, Symbols, And, Equals, encode, type, deviceCxt, request, forcequery, true

LEMMA PieceType ==
  ASSUME NEW nm, NEW e, NEW m, AreFields(nm, e, m), NEW i \in 1..m
  PROVE  /\ Separator(i) \in Seq(Symbols) /\ <<nm[i], Equals>> \in Seq(Symbols) /\ e[i] \in Seq(Symbols)
         /\ Cat(<<nm[i], Equals>>, e[i]) \in Seq(Symbols)
         /\ Piece(nm, e, i) \in Seq(Symbols)
<1>1. nm[i] \in Symbols /\ And \in Symbols /\ Equals \in Symbols /\ e[i] \in Seq(Symbols)
  BY NamesClean DEF AreFields
<1>2. Separator(i) \in Seq(Symbols) /\ <<nm[i], Equals>> \in Seq(Symbols)
  BY <1>1 DEF Separator
<1>3. Cat(<<nm[i], Equals>>, e[i]) \in Seq(Symbols)
  BY <1>1, <1>2, CatParts
<1> QED BY <1>1, <1>2, <1>3, CatParts DEF Piece

LEMMA FieldPieces ==
  ASSUME NEW nm, NEW e, NEW m, AreFields(nm, e, m), NEW s, s = [i \in 1..m |-> Piece(nm, e, i)]
  PROVE  /\ ArePieces(Symbols, s, m) /\ Joined(nm, e, m) = Pieces(s, m)
         /\ \A i \in 1..m : s[i] = Piece(nm, e, i)
<1>1. m \in Nat /\ \A i \in 1..m : s[i] = Piece(nm, e, i)
  BY DEF AreFields
<1>2. ArePieces(Symbols, s, m)
  BY <1>1, PieceType DEF ArePieces
<1>3. Joined(nm, e, m) = Pieces(s, m)
  BY DEF Joined
<1> QED BY <1>1, <1>2, <1>3

\* Fields that code the others, joined, code the others, joined.
LEMMA CodesJoined ==
  ASSUME NEW nm, NEW e, NEW d, NEW m, AreFields(nm, e, m), AreFields(nm, d, m),
         \A i \in 1..m : Codes(e[i], d[i])
  PROVE  Codes(Joined(nm, e, m), Joined(nm, d, m))
<1> DEFINE s == [i \in 1..m |-> Piece(nm, e, i)]
           t == [i \in 1..m |-> Piece(nm, d, i)]
<1>1. /\ ArePieces(Symbols, s, m) /\ Joined(nm, e, m) = Pieces(s, m)
      /\ \A i \in 1..m : s[i] = Piece(nm, e, i)
  <2>1. s = [i \in 1..m |-> Piece(nm, e, i)]
    OBVIOUS
  <2> HIDE DEF s
  <2> QED BY <2>1, FieldPieces
<1>2. /\ ArePieces(Symbols, t, m) /\ Joined(nm, d, m) = Pieces(t, m)
      /\ \A i \in 1..m : t[i] = Piece(nm, d, i)
  <2>1. t = [i \in 1..m |-> Piece(nm, d, i)]
    OBVIOUS
  <2> HIDE DEF t
  <2> QED BY <2>1, FieldPieces
<1> HIDE DEF s, t
<1>3. ASSUME NEW i \in 1..m PROVE Codes(s[i], t[i])
  <2> DEFINE u == Separator(i)
             h == <<nm[i], Equals>>
  <2>1. u \in Seq(Symbols) /\ h \in Seq(Symbols)
    BY PieceType
  <2>2. \A j \in 1..Len(u) : u[j] \notin {Escape, Plus}
    BY DEF Separator, And, Escape, Plus
  <2>3. Codes(u, u)
    <3> HIDE DEF u
    <3> QED BY <2>1, <2>2, CodesSelf
  <2>4. \A j \in 1..Len(h) : h[j] \notin {Escape, Plus}
    <3>1. nm[i] \in Names
      BY DEF AreFields
    <3>2. nm[i] \notin {Escape, Plus} /\ Equals \notin {Escape, Plus}
      BY <3>1 DEF Names, Equals, Escape, Plus, encode, type, deviceCxt, request, forcequery
    <3>3. Len(h) = 2 /\ h[1] = nm[i] /\ h[2] = Equals /\ \A j \in 1..2 : j = 1 \/ j = 2
      OBVIOUS
    <3> HIDE DEF h
    <3> QED BY <3>2, <3>3
  <2>5. Codes(h, h)
    <3> HIDE DEF h
    <3> QED BY <2>1, <2>4, CodesSelf
  <2>6. Codes(e[i], d[i])
    OBVIOUS
  <2> HIDE DEF u, h
  <2>7. Codes(Cat(u, Cat(h, e[i])), Cat(u, Cat(h, d[i])))
    BY <2>3, <2>5, <2>6, CodesCat
  <2> QED BY <1>1, <1>2, <2>7 DEF u, h, Piece
<1>4. m \in 0..m
  BY DEF AreFields
<1> QED BY <1>1, <1>2, <1>3, <1>4, CodesPieces

\* The body of a request
LEMMA BodyIsJoined ==
  ASSUME NEW m \in Nat, NEW s \in [1..m -> Names \X Values], NEW times
  PROVE  Body(s, times) = Joined([i \in 1..m |-> s[i][1]], [i \in 1..m |-> Encoded(s[i][2], times)], m)
<1> DEFINE nm == [i \in 1..m |-> s[i][1]]
           e  == [i \in 1..m |-> Encoded(s[i][2], times)]
           p  == [i \in 1..m |-> Piece(nm, e, i)]
           q  == [i \in 1..m |-> (IF i = 1 THEN <<>> ELSE <<And>>) \o Field(s[i], times)]
<1>1. Body(s, times) = FlattenSeq(q)
  BY DEF Body
<1>2. \A i \in 1..m : nm[i] = s[i][1] /\ e[i] = Encoded(s[i][2], times)
  OBVIOUS
<1> HIDE DEF nm, e
<1>3. \A i \in 1..m : Piece(nm, e, i) = (IF i = 1 THEN <<>> ELSE <<And>>) \o Field(s[i], times)
  BY <1>2 DEF Piece, Field, Separator, Cat
<1>4. p = q
  BY <1>3
<1>5. p = [i \in 1..m |-> p[i]]
  OBVIOUS
<1> HIDE DEF p, q
<1>6. Body(s, times) = Pieces(p, m)
  BY <1>1, <1>4, <1>5 DEF Pieces
<1> QED BY <1>6 DEF p, Joined, nm, e

-----------------------------------------------------------------------------
(* url_utf8_decode of a code. *)

LEMMA UnitRuns ==
  ASSUME NEW X, Len(X) \in Nat, NEW last \in Nat, last <= Len(X),
         NEW p \in Nat, NEW q \in Nat, NEW c, Unit(X, p, q, c), q <= last
  PROVE  OneTurn(X, last, p, q, c)
<1>1. CASE q = p + 1 /\ X[p + 1] = c /\ c \notin {Escape, Plus}
  <2>1. ~IsEscape(X, p + 1, last)
    BY <1>1 DEF IsEscape
  <2>2. p + 1 <= last
    BY <1>1
  <2> QED BY <1>1, <2>1, <2>2 DEF OneTurn
<1>2. CASE /\ q = p + 3 /\ X[p + 1] = Escape /\ isxdigit(X[p + 2]) /\ isxdigit(X[p + 3])
           /\ c = 16 * unhex(X[p + 2]) + unhex(X[p + 3])
  <2>1. /\ p + 1 <= last /\ (p + 1) + 1 = p + 2 /\ (p + 1) + 2 = p + 3 /\ p + 3 <= last + 1
        /\ p + 2 <= Len(X) /\ p + 3 <= Len(X)
    BY <1>2
  <2>2. At(X, (p + 1) + 1) = X[p + 2] /\ At(X, (p + 1) + 2) = X[p + 3]
    BY <2>1 DEF At
  <2>3. IsEscape(X, p + 1, last)
    BY <1>2, <2>1, <2>2 DEF IsEscape
  <2> QED BY <1>2, <2>1, <2>3 DEF OneTurn
<1> QED BY <1>1, <1>2 DEF Unit

\* A code is at least as long as what it stands for.
LEMMA CodeLonger ==
  ASSUME NEW x, NEW w, NEW pos, IsCode(x, w, pos)
  PROVE  \A j \in 0..Len(w) : j <= pos[j]
<1> DEFINE m == Len(w)
           T == {j \in Nat : j <= m => j <= pos[j]}
<1>1. /\ m \in Nat /\ pos[0] = 0 /\ \A j \in 0..m : pos[j] \in Nat
      /\ \A j \in 1..m : Unit(x, pos[j - 1], pos[j], w[j])
  BY DEF IsCode
<1> HIDE DEF m
<1>2. 0 \in T
  BY <1>1
<1>3. ASSUME NEW j \in Nat, j \in T PROVE j + 1 \in T
  <2> SUFFICES ASSUME j + 1 <= m PROVE j + 1 <= pos[j + 1]
    OBVIOUS
  <2>1. j + 1 \in 1..m /\ j \in 0..m /\ j + 1 \in 0..m /\ (j + 1) - 1 = j /\ j <= m
    BY <1>1
  <2>2. pos[j] \in Nat /\ pos[j + 1] \in Nat /\ j <= pos[j]
    BY <1>1, <1>3, <2>1
  <2>3. Unit(x, pos[j], pos[j + 1], w[j + 1])
    BY <1>1, <2>1
  <2>4. pos[j + 1] = pos[j] + 1 \/ pos[j + 1] = pos[j] + 3
    BY <2>3 DEF Unit
  <2> QED BY <2>2, <2>4
<1> HIDE DEF T
<1>4. Nat \subseteq T
  BY <1>2, <1>3, NatSetInduction
<1> QED BY <1>1, <1>4 DEF T, m

\* Decoding a code gives back what it stands for, up to the end of the buffer.
LEMMA DecodeCode ==
  ASSUME NEW X, Len(X) \in Nat, NEW x, NEW w, Codes(x, w),
         NEW a, Holds(X, a, x, Len(x)), a + Len(x) <= Len(X), NEW max \in Nat, max > 0
  PROVE  url_utf8_decode(X, a + 1, a + Len(x), max) = SubSeq(w, 1, Room(Len(w), max))
<1>1. PICK f : IsCode(x, w, f)
  BY DEF Codes
<1> DEFINE m == Len(w)
           b == a + Len(x)
           pos == [j \in 0..m |-> a + f[j]]
<1>2. /\ m \in Nat /\ Len(x) \in Nat /\ f[0] = 0 /\ f[m] = Len(x)
      /\ \A j \in 0..m : f[j] \in Nat /\ f[j] <= Len(x)
      /\ \A j \in 1..m : Unit(x, f[j - 1], f[j], w[j])
  BY <1>1 DEF IsCode
<1>3. a \in Nat /\ b \in Nat /\ b <= Len(X) /\ m <= Len(x)
  <2>1. a \in Nat
    BY DEF Holds
  <2>2. m \in 0..m
    BY <1>2
  <2>3. m <= f[m]
    BY <1>1, <2>2, CodeLonger
  <2> QED BY <1>2, <2>1, <2>3
<1>4. \A j \in 0..m : pos[j] = a + f[j]
  OBVIOUS
<1> HIDE DEF pos
<1>5. ASSUME NEW j \in 0..m PROVE pos[j] \in Nat
  <2>1. pos[j] = a + f[j] /\ f[j] \in Nat
    BY <1>2, <1>4
  <2> QED BY <1>3, <2>1
<1>6. ASSUME NEW j \in 1..m PROVE OneTurn(X, b, pos[j - 1], pos[j], w[j])
  <2>1. j \in 0..m /\ j - 1 \in 0..m
    BY <1>2
  <2> DEFINE p == f[j - 1]
             q == f[j]
             c == w[j]
             n == Len(x)
  <2>2. /\ p \in Nat /\ q \in Nat /\ q <= n /\ Unit(x, p, q, c) /\ n \in Nat
        /\ pos[j - 1] = a + p /\ pos[j] = a + q /\ w[j] = c /\ Holds(X, a, x, n)
    BY <1>2, <1>4, <2>1
  <2>3. b = a + n
    OBVIOUS
  <2> HIDE DEF p, q, c, n, b, m
  <2>4. Unit(X, a + p, a + q, c)
    BY <2>2, UnitMoves
  <2>5. a + p \in Nat /\ a + q \in Nat /\ a + q <= b
    BY <1>3, <2>2, <2>3
  <2>6. OneTurn(X, b, a + p, a + q, c)
    BY <1>3, <2>4, <2>5, UnitRuns
  <2> QED BY <2>2, <2>6
<1>7. w \in Seq(Symbols)
  BY DEF Codes
<1>8. Runs(X, b, pos, w)
  BY <1>2, <1>5, <1>6, <1>7 DEF Runs
<1>9. m <= Len(X) /\ pos[m] = b /\ pos[0] = a
  <2>1. m \in 0..m /\ 0 \in 0..m
    BY <1>2
  <2>2. pos[m] = a + f[m] /\ pos[0] = a + f[0]
    BY <1>4, <2>1
  <2> DEFINE n == Len(x)
  <2>3. n \in Nat /\ m <= n /\ b = a + n
    BY <1>2, <1>3
  <2>4. pos[m] = b /\ pos[0] = a + 0
    BY <1>2, <2>2
  <2> HIDE DEF n, b, m
  <2> QED BY <1>2, <1>3, <2>3, <2>4
<1>10. pos[m] >= b
  <2> HIDE DEF b
  <2> QED BY <1>3, <1>9
<1>11. url_utf8_decode(X, pos[0] + 1, b, max) = SubSeq(w, 1, Room(Len(w), max))
  <2>1. Len(w) <= Len(X) /\ pos[Len(w)] >= b
    BY <1>9, <1>10
  <2> HIDE DEF b, m
  <2> QED BY <1>3, <1>8, <2>1, DecodeRuns
<1> HIDE DEF b
<1> QED BY <1>9, <1>11 DEF b

\* r is a beginning of w, with at most two bytes behind it.
Begins(r, w) ==
    /\ r \in Seq(Symbols)
    /\ \E k \in 0..Len(w), g \in 0..2 : k + g = Len(r) /\ SubSeq(r, 1, k) = SubSeq(w, 1, k)

\* Where a cut behind byte n falls: behind k units, and up to two bytes of an
\* escape.
Leaves(x, pos, n, k) ==
    /\ n - pos[k] \in 0..2
    /\ n - pos[k] > 0 => x[pos[k] + 1] = Escape
    /\ n - pos[k] = 2 => isxdigit(x[pos[k] + 2])

LEMMA CutFalls ==
  ASSUME NEW x, NEW w, NEW pos, IsCode(x, w, pos), NEW n \in Nat, n <= Len(x)
  PROVE  \E k \in 0..Len(w) : Leaves(x, pos, n, k)
<1> DEFINE m == Len(w)
           T == {j \in 0..m : pos[j] > n}
<1>1. /\ m \in Nat /\ Len(x) \in Nat /\ pos[0] = 0 /\ pos[m] = Len(x)
      /\ \A j \in 0..m : pos[j] \in Nat
      /\ \A j \in 1..m : Unit(x, pos[j - 1], pos[j], w[j])
  BY DEF IsCode
<1> HIDE DEF m
<1>2. CASE T = {}
  <2>1. m \in 0..m /\ ~(pos[m] > n)
    BY <1>1, <1>2
  <2>2. n - pos[m] = 0
    BY <1>1, <2>1
  <2>3. Leaves(x, pos, n, m)
    BY <2>2 DEF Leaves
  <2> QED BY <2>1, <2>3 DEF m
<1>3. CASE T # {}
  <2>1. T \subseteq Nat
    BY <1>1
  <2>2. PICK j \in T : \A i \in T : j <= i
    BY <1>3, <2>1, LeastNatural
  <2>3. j \in 0..m /\ pos[j] > n /\ j # 0
    BY <1>1, <2>2
  <2> DEFINE k == j - 1
             p == pos[k]
             q == pos[j]
  <2>4. k \in 0..m /\ k + 1 = j /\ j \in 1..m /\ ~(j <= k)
    BY <1>1, <2>3
  <2>5. ~(p > n) /\ p \in Nat /\ q \in Nat /\ q > n
    BY <1>1, <2>2, <2>3, <2>4
  <2>6. Unit(x, p, q, w[j])
    BY <1>1, <2>4
  <2> HIDE DEF p, q
  <2>7. CASE q = p + 1
    <3>1. n - p = 0
      BY <2>5, <2>7
    <3>2. Leaves(x, pos, n, k)
      BY <3>1 DEF Leaves, p
    <3> QED BY <2>4, <3>2 DEF m
  <2>8. CASE q = p + 3 /\ x[p + 1] = Escape /\ isxdigit(x[p + 2])
    <3>1. n - p \in 0..2
      BY <2>5, <2>8
    <3>2. Leaves(x, pos, n, k)
      BY <2>8, <3>1 DEF Leaves, p
    <3> QED BY <2>4, <3>2 DEF m
  <2> QED BY <2>6, <2>7, <2>8 DEF Unit
<1> QED BY <1>2, <1>3

\* Decoding a code that ends early, at the end of the text.
LEMMA DecodeCut ==
  ASSUME NEW X, Len(X) \in Nat, NEW x, NEW w, Codes(x, w), NEW n \in Nat, n <= Len(x),
         NEW a, Holds(X, a, x, n), a + n = Len(X), NEW max \in Nat, max > Len(X) + 1
  PROVE  Begins(url_utf8_decode(X, a + 1, Len(X), max), w)
<1>1. PICK f : IsCode(x, w, f)
  BY DEF Codes
<1>2. PICK k \in 0..Len(w) : Leaves(x, f, n, k)
  BY <1>1, CutFalls
<1> DEFINE m == Len(w)
           N == Len(X)
           p == f[k]
           g == n - p
           u == SubSeq(w, 1, k)
           z == SubSeq(x, p + 1, n)
           r == Cat(u, z)
           pos == [j \in 0..(k + g) |-> IF j <= k THEN a + f[j] ELSE a + p + (j - k)]
<1>3. /\ m \in Nat /\ Len(x) \in Nat /\ f[0] = 0 /\ f[m] = Len(x)
      /\ \A j \in 0..m : f[j] \in Nat /\ f[j] <= Len(x)
      /\ \A j \in 1..m : Unit(x, f[j - 1], f[j], w[j])
      /\ \A j \in 0..m : j <= f[j]
  BY <1>1, CodeLonger DEF IsCode
<1>4. /\ a \in Nat /\ N \in Nat /\ a + n = N /\ \A i \in 1..n : X[a + i] = x[i]
      /\ x \in Seq(Symbols) /\ w \in Seq(Symbols)
  BY DEF Holds, Codes
<1>5. /\ g \in 0..2 /\ (g > 0 => x[p + 1] = Escape) /\ (g = 2 => isxdigit(x[p + 2]))
      /\ p \in Nat /\ k \in Nat /\ k <= m /\ k <= p /\ p + g = n /\ p <= n
  <2>1. /\ g \in 0..2 /\ (g > 0 => x[p + 1] = Escape) /\ (g = 2 => isxdigit(x[p + 2]))
        /\ p \in Nat /\ k <= p
    BY <1>2, <1>3 DEF Leaves
  <2>2. k \in Nat /\ k <= m
    BY <1>3
  <2> HIDE DEF p, m
  <2> QED BY <2>1, <2>2
<1>6. /\ IsPart(Symbols, w, u, 0, k) /\ IsPart(Symbols, x, z, p, n)
  <2>1. 0 + 1 = 1 /\ 0 <= k
    BY <1>5
  <2> HIDE DEF p
  <2> QED BY <1>4, <1>5, <2>1, PartIs
<1>7. /\ u \in Seq(Symbols) /\ Len(u) = k /\ \A i \in 1..k : u[i] = w[i]
      /\ z \in Seq(Symbols) /\ Len(z) = g /\ \A i \in 1..g : z[i] = x[p + i]
  <2>1. k - 0 = k /\ \A i \in 1..k : 0 + i = i
    BY <1>5
  <2> HIDE DEF u, z, p
  <2> QED BY <1>6, <2>1 DEF IsPart
<1> HIDE DEF u, z
<1>8. /\ Holds(r, 0, u, k) /\ Holds(r, k, z, g) /\ r \in Seq(Symbols) /\ Len(r) = k + g
  <2>1. u \in Seq(Symbols) /\ z \in Seq(Symbols) /\ Len(u) = k /\ Len(z) = g
    BY <1>7
  <2> HIDE DEF r, p, g
  <2>2. /\ Holds(Cat(u, z), 0, u, Len(u)) /\ Holds(Cat(u, z), Len(u), z, Len(z))
        /\ Cat(u, z) \in Seq(Symbols) /\ Len(Cat(u, z)) = Len(u) + Len(z)
    BY <2>1, CatParts
  <2> QED BY <2>1, <2>2 DEF r
<1>9. /\ \A i \in 1..k : r[i] = w[i]
      /\ \A i \in 1..g : r[k + i] = x[p + i]
  <2>1. \A i \in 1..k : 0 + i = i
    BY <1>5
  <2> HIDE DEF r, p, g
  <2> QED BY <1>7, <1>8, <2>1 DEF Holds
<1> HIDE DEF r, m, N
<1>10. /\ \A j \in 0..k : pos[j] = a + f[j]
       /\ \A j \in 0..g : pos[k + j] = a + p + j
  <2>0. g \in Nat /\ p \in Nat /\ p = f[k]
    BY <1>5
  <2> HIDE DEF g, p
  <2>1. \A j \in 0..k : pos[j] = a + f[j]
    BY <1>5, <2>0
  <2>2. ASSUME NEW j \in 0..g PROVE pos[k + j] = a + p + j
    <3>1. CASE j = 0
      <4>1. k + j = k /\ k \in 0..k /\ a + p + j = a + p
        BY <1>4, <1>5, <3>1, <2>0
      <4> HIDE DEF pos
      <4> QED BY <2>0, <2>1, <4>1
    <3>2. CASE j # 0
      <4>1. k + j \in 0..(k + g) /\ ~(k + j <= k) /\ (k + j) - k = j
        BY <1>5, <2>0, <3>2
      <4> QED BY <4>1
    <3> QED BY <3>1, <3>2
  <2> QED BY <2>1, <2>2
<1> HIDE DEF pos
<1>11. ASSUME NEW j \in 0..(k + g) PROVE pos[j] \in Nat
  <2>1. CASE j <= k
    <3>1. j \in 0..k /\ j \in 0..m
      <4>1. g \in Nat /\ m \in Nat
        BY <1>3, <1>5
      <4> HIDE DEF g, p
      <4> QED BY <1>5, <2>1, <4>1
    <3>2. pos[j] = a + f[j] /\ f[j] \in Nat
      BY <1>3, <1>10, <3>1
    <3> QED BY <1>4, <3>2
  <2>2. CASE j > k
    <3>0. g \in Nat /\ p \in Nat
      BY <1>5
    <3> HIDE DEF g, p
    <3>1. j - k \in 0..g /\ j = k + (j - k)
      BY <1>5, <2>2, <3>0
    <3>2. pos[j] = a + p + (j - k)
      BY <1>10, <3>1
    <3>3. j - k \in Nat /\ a \in Nat
      BY <1>4, <3>0, <3>1
    <3> QED BY <3>0, <3>2, <3>3
  <2> QED BY <1>5, <2>1, <2>2
<1>12. ASSUME NEW j \in 1..(k + g) PROVE OneTurn(X, N, pos[j - 1], pos[j], r[j])
  <2>0. g \in 0..2 /\ p \in Nat /\ p + g = n
    BY <1>5
  <2>1. CASE j <= k
    <3>1. j \in 0..k /\ j - 1 \in 0..k /\ j \in 1..k /\ j \in 1..m /\ j \in 0..m /\ j - 1 \in 0..m
      <4>1. g \in Nat /\ m \in Nat
        BY <1>3, <1>5
      <4> HIDE DEF g, p
      <4> QED BY <1>5, <2>1, <4>1
    <3> DEFINE s == f[j - 1]
               q == f[j]
               c == w[j]
    <3>2. /\ s \in Nat /\ q \in Nat /\ Unit(x, s, q, c)
          /\ pos[j - 1] = a + s /\ pos[j] = a + q /\ r[j] = c
      BY <1>3, <1>9, <1>10, <3>1
    <3>3. q <= n
      <4>1. \A i \in 1..k : f[i] <= f[k]
        <5> DEFINE T == {i \in Nat : i <= k => f[k - i] <= f[k]}
        <5>1. 0 \in T
          <6>1. k - 0 = k /\ f[k] \in Nat
            BY <1>5
          <6> QED BY <6>1
        <5>2. ASSUME NEW i \in Nat, i \in T PROVE i + 1 \in T
          <6> SUFFICES ASSUME i + 1 <= k PROVE f[k - (i + 1)] <= f[k]
            OBVIOUS
          <6> DEFINE y == k - i
          <6>1. /\ y \in 1..m /\ y - 1 = k - (i + 1) /\ y \in 0..m /\ y - 1 \in 0..m /\ i <= k
            BY <1>3, <1>5
          <6>2. f[y] <= f[k]
            BY <5>2, <6>1
          <6> HIDE DEF y
          <6>3. Unit(x, f[y - 1], f[y], w[y]) /\ f[y - 1] \in Nat /\ f[y] \in Nat /\ f[k] \in Nat
            BY <1>3, <1>5, <6>1
          <6>4. f[y] = f[y - 1] + 1 \/ f[y] = f[y - 1] + 3
            BY <6>3 DEF Unit
          <6>5. f[y - 1] <= f[k]
            BY <6>2, <6>3, <6>4
          <6> QED BY <6>1, <6>5
        <5> HIDE DEF T
        <5>3. Nat \subseteq T
          BY <5>1, <5>2, NatSetInduction
        <5>4. \A i \in 1..k : k - i \in Nat /\ k - i <= k /\ k - (k - i) = i
          BY <1>5
        <5> QED BY <5>3, <5>4 DEF T
      <4>2. q <= p
        BY <3>1, <4>1
      <4> HIDE DEF q, p, g
      <4> QED BY <1>5, <3>2, <4>2
    <3> HIDE DEF s, q, c
    <3>4. Unit(X, a + s, a + q, c)
      BY <3>2, <3>3, UnitMoves
    <3>5. a + s \in Nat /\ a + q \in Nat /\ a + q <= N /\ N <= N
      BY <1>4, <3>2, <3>3
    <3>6. OneTurn(X, N, a + s, a + q, c)
      BY <1>4, <3>4, <3>5, UnitRuns DEF N
    <3> QED BY <3>2, <3>6
  <2>2. CASE j > k
    <3> DEFINE i == j - k
               h == a + p + (i - 1)
    <3> HIDE DEF p, g
    <3>1. /\ i \in 1..g /\ j = k + i /\ j - 1 = k + (i - 1) /\ i \in 0..g /\ i - 1 \in 0..g
      BY <1>5, <2>0, <2>2
    <3>2. i \in Nat /\ p + i \in 1..n /\ a + (p + i) = h + 1 /\ a + p + i = h + 1 /\ h \in Nat /\ h + 1 <= N
      BY <1>4, <2>0, <3>1
    <3> HIDE DEF i
    <3>3. pos[j] = h + 1 /\ pos[j - 1] = h
      BY <1>10, <3>1, <3>2
    <3>4. r[j] = x[p + i] /\ X[h + 1] = x[p + i]
      BY <1>4, <1>9, <3>1, <3>2
    <3>5. isxdigit(x[p + i]) => x[p + i] # Escape /\ x[p + i] # Plus
      <4>1. \A c : isxdigit(c) => c # Escape /\ c # Plus
        BY DEF isxdigit, Escape, Plus
      <4> QED BY <4>1
    <3>6. i = 1 \/ (i = 2 /\ g = 2)
      BY <2>0, <3>1
    <3>7. (i = 1 => x[p + i] = Escape) /\ (i = 2 => isxdigit(x[p + i]))
      <4>0. (g > 0 => x[p + 1] = Escape) /\ (g = 2 => isxdigit(x[p + 2]))
        BY <1>5
      <4>1. CASE i = 1
        <5>1. g > 0
          BY <2>0, <3>1, <4>1
        <5> QED BY <4>0, <4>1, <5>1
      <4>2. CASE i = 2 /\ g = 2
        BY <4>0, <4>2
      <4> QED BY <3>6, <4>1, <4>2
    <3>8. x[p + i] # Plus
      BY <3>5, <3>6, <3>7 DEF Escape, Plus
    <3>9. ~IsEscape(X, h + 1, N)
      <4>1. CASE i = 2
        BY <3>4, <3>5, <3>7, <4>1 DEF IsEscape
      <4>2. CASE i = 1 /\ g = 1
        <5>1. h + 1 = N /\ ~((h + 1) + 2 <= N + 1)
          BY <1>4, <2>0, <3>2, <4>2
        <5> QED BY <5>1 DEF IsEscape
      <4>3. CASE i = 1 /\ g = 2
        <5>1. (h + 1) + 2 = N + 1 /\ ~((h + 1) + 2 <= N)
          BY <1>4, <2>0, <3>2, <4>3
        <5>2. At(X, (h + 1) + 2) = 0
          BY <5>1 DEF At, N
        <5>3. ~isxdigit(0)
          BY DEF isxdigit
        <5> QED BY <5>2, <5>3 DEF IsEscape
      <4>4. g = 1 \/ g = 2
        BY <2>0, <3>1
      <4> QED BY <3>6, <4>1, <4>2, <4>3, <4>4
    <3>10. OneTurn(X, N, h, h + 1, x[p + i])
      BY <3>2, <3>4, <3>8, <3>9 DEF OneTurn
    <3> QED BY <3>3, <3>4, <3>10
  <2> QED BY <1>5, <2>1, <2>2
<1>13. Runs(X, N, pos, r)
  <2>1. k + g \in Nat
    BY <1>5
  <2> QED BY <1>8, <1>11, <1>12, <2>1 DEF Runs
<1>14. /\ pos[0] = a /\ pos[k + g] = N /\ k + g <= N /\ Room(k + g, max) = k + g /\ k + g \in Nat /\ max > 0
  <2>0. 0 \in 0..k /\ g \in 0..g
    BY <1>5
  <2>1. pos[0] = a + f[0] /\ pos[k + g] = a + p + g
    BY <1>10, <2>0
  <2>2. pos[0] = a
    BY <1>3, <1>4, <2>1
  <2>3. g \in Nat /\ p \in Nat /\ p + g = n /\ k <= p /\ k \in Nat
    BY <1>5
  <2>4. max > N + 1
    BY DEF N
  <2> HIDE DEF g, p
  <2> QED BY <1>4, <2>1, <2>2, <2>3, <2>4 DEF Room
<1>15. url_utf8_decode(X, a + 1, N, max) = r
  <2>1. url_utf8_decode(X, pos[0] + 1, N, max) = SubSeq(r, 1, Room(Len(r), max))
    <3>1. Len(r) <= N /\ pos[Len(r)] >= N
      <4>1. N >= N
        BY <1>4
      <4> QED BY <1>8, <1>14, <4>1
    <3> QED BY <1>4, <1>13, <1>14, <3>1, DecodeRuns DEF N
  <2>2. SubSeq(r, 1, Len(r)) = r
    BY <1>8, SubSeqWhole
  <2> HIDE DEF g
  <2> QED BY <1>8, <1>14, <2>1, <2>2
<1>16. SubSeq(r, 1, k) = u
  <2>1. IsPart(Symbols, r, SubSeq(r, 0 + 1, k), 0, k)
    <3>1. k \in Nat /\ 0 <= k /\ k <= Len(r)
      <4> HIDE DEF g, p
      <4>1. g \in Nat
        BY <1>5 DEF g, p
      <4> QED BY <1>5, <1>8, <4>1
    <3> QED BY <1>8, <3>1, PartIs
  <2>2. 0 + 1 = 1 /\ k - 0 = k /\ \A i \in 1..k : 0 + i = i
    BY <1>5
  <2> DEFINE v == SubSeq(r, 1, k)
  <2>3. v \in Seq(Symbols) /\ Len(v) = k /\ \A i \in 1..k : v[i] = r[i]
    <3> HIDE DEF v
    <3> QED BY <2>1, <2>2 DEF IsPart, v
  <2> HIDE DEF v
  <2>4. v = u
    BY <1>7, <1>9, <2>3, SameElements
  <2> QED BY <2>4 DEF v
<1>17. Begins(r, w)
  <2>1. k \in 0..Len(w) /\ g \in 0..2 /\ k + g = Len(r)
    BY <1>5, <1>8
  <2> HIDE DEF g
  <2> QED BY <1>8, <1>16, <2>1 DEF Begins, u
<1> QED BY <1>15, <1>17 DEF N

-----------------------------------------------------------------------------
(* The places of the fields in a text. *)

\* Where the value of field i begins, when the field before ends at b[i - 1]:
\* behind the separator, the name and the '='.
ValueAt(b, i) == b[i - 1] + (IF i = 1 THEN 2 ELSE 3)

\* Field i of D: separator, name, '=', and d[i] up to b[i].
FieldLies(D, nm, d, b, i) ==
    /\ b[i - 1] \in Nat /\ b[i] \in Nat /\ Len(d[i]) \in Nat
    /\ ValueAt(b, i) + Len(d[i]) = b[i]
    /\ i # 1 => D[b[i - 1] + 1] = And
    /\ D[ValueAt(b, i) - 1] = nm[i] /\ D[ValueAt(b, i)] = Equals
    /\ Holds(D, ValueAt(b, i), d[i], Len(d[i]))

Layout(D, nm, d, m, b) ==
    /\ m \in Nat /\ m # 0 /\ Len(D) \in Nat /\ D \in Seq(Symbols)
    /\ \A i \in 0..m : b[i] \in Nat
    /\ b[0] = 0 /\ b[m] = Len(D)
    /\ \A i \in 1..m : /\ FieldLies(D, nm, d, b, i)
                       /\ nm[i] \in Names /\ d[i] \in Seq(Clean)

\* The three parts of a piece; o is 1 if it begins with a separator.
IsPiece(x, nm, d, i, o) ==
    /\ Len(d[i]) \in Nat /\ Len(x) = o + 2 + Len(d[i])
    /\ i # 1 => x[1] = And
    /\ x[o + 1] = nm[i] /\ x[o + 2] = Equals
    /\ \A j \in 1..Len(d[i]) : x[o + 2 + j] = d[i][j]

LEMMA PieceParts ==
  ASSUME NEW nm, NEW d, NEW m, AreFields(nm, d, m), NEW i \in 1..m,
         NEW o, o = IF i = 1 THEN 0 ELSE 1
  PROVE  IsPiece(Piece(nm, d, i), nm, d, i, o)
<1> DEFINE u == Separator(i)
           h == <<nm[i], Equals>>
           e == d[i]
           y == Cat(h, e)
           z == Cat(u, y)
<1>1. u \in Seq(Symbols) /\ h \in Seq(Symbols) /\ e \in Seq(Symbols) /\ y \in Seq(Symbols)
  BY PieceType
<1>2. Len(u) = o /\ (i # 1 => o = 1 /\ u[1] = And) /\ o \in 0..1
  BY DEF Separator
<1>3. Len(h) = 2 /\ h[1] = nm[i] /\ h[2] = Equals
  OBVIOUS
<1>4. Piece(nm, d, i) = z
  BY DEF Piece
<1> HIDE DEF u, h, e
<1>5. Holds(y, 0, h, Len(h)) /\ Holds(y, Len(h), e, Len(e)) /\ Len(y) = Len(h) + Len(e) /\ Len(e) \in Nat
  BY <1>1, CatParts
<1> HIDE DEF y
<1>6. Holds(z, 0, u, Len(u)) /\ Holds(z, Len(u), y, Len(y)) /\ Len(z) = Len(u) + Len(y)
  BY <1>1, CatParts
<1> HIDE DEF z
<1> DEFINE n == Len(e)
<1>7. n \in Nat /\ Len(y) = 2 + n /\ Len(z) = o + (2 + n)
  BY <1>2, <1>3, <1>5, <1>6
<1>8. y[1] = nm[i] /\ y[2] = Equals /\ \A j \in 1..n : y[2 + j] = e[j]
  <2>1. 0 + 1 = 1 /\ 0 + 2 = 2 /\ 1 \in 1..2 /\ 2 \in 1..2
    OBVIOUS
  <2> QED BY <1>3, <1>5, <2>1 DEF Holds
<1>9. /\ o = 1 => z[1] = u[1]
      /\ \A j \in 1..(2 + n) : z[o + j] = y[j]
  <2>1. o = 1 => 0 + 1 = 1 /\ 1 \in 1..o
    OBVIOUS
  <2> HIDE DEF n
  <2> QED BY <1>2, <1>6, <1>7, <2>1 DEF Holds
<1>10. n = Len(d[i])
  BY DEF e
<1> HIDE DEF n
<1>11. 1 \in 1..(2 + n) /\ 2 \in 1..(2 + n) /\ (\A j \in 1..n : 2 + j \in 1..(2 + n) /\ o + (2 + j) = o + 2 + j)
       /\ o + (2 + n) = o + 2 + n
  BY <1>2, <1>7
<1> QED BY <1>2, <1>4, <1>7, <1>8, <1>9, <1>10, <1>11 DEF e, IsPiece

LEMMA JoinedLayout ==
  ASSUME NEW nm, NEW d, NEW m, AreFields(nm, d, m), \A i \in 1..m : d[i] \in Seq(Clean)
  PROVE  \E b : Layout(Joined(nm, d, m), nm, d, m, b)
<1> DEFINE s == [i \in 1..m |-> Piece(nm, d, i)]
           b == [i \in 0..m |-> Len(Pieces(s, i))]
           D == Joined(nm, d, m)
<1>1. /\ ArePieces(Symbols, s, m) /\ D = Pieces(s, m)
      /\ \A i \in 1..m : s[i] = Piece(nm, d, i)
  <2>1. s = [i \in 1..m |-> Piece(nm, d, i)]
    OBVIOUS
  <2> HIDE DEF s
  <2> QED BY <2>1, FieldPieces
<1>2. \A i \in 0..m : b[i] = Len(Pieces(s, i))
  OBVIOUS
<1> HIDE DEF b, s, D
<1>3. m \in Nat /\ m # 0 /\ \A i \in 1..m : nm[i] \in Names
  BY DEF AreFields
<1>4. \A i \in 0..m : b[i] \in Nat
  BY <1>1, <1>2, PiecesType
<1>5. D \in Seq(Symbols) /\ b[0] = 0 /\ b[m] = Len(D) /\ Len(D) \in Nat
  <2>1. 0 \in 0..m /\ m \in 0..m
    BY <1>3
  <2>2. Pieces(s, 0) = <<>> /\ Pieces(s, m) \in Seq(Symbols)
    BY <1>1, <2>1, PiecesStep, PiecesType
  <2> QED BY <1>1, <1>2, <1>4, <2>1, <2>2
<1>6. ASSUME NEW i \in 1..m PROVE FieldLies(D, nm, d, b, i)
  <2>1. i - 1 \in 0..m /\ i \in 0..m /\ m \in 0..m /\ i - 1 < m /\ (i - 1) + 1 = i
    BY <1>3
  <2>2. Placed(s, i - 1, m)
    BY <1>1, <2>1, PieceAt
  <2> DEFINE o == IF i = 1 THEN 0 ELSE 1
             a == b[i - 1]
             c == b[i]
             e == d[i]
             n == Len(e)
             v == ValueAt(b, i)
             x == s[i]
  <2>3. /\ a \in Nat /\ c = a + Len(x) /\ \A j \in 1..Len(x) : D[a + j] = x[j]
    BY <1>1, <1>2, <2>1, <2>2 DEF Placed
  <2>4. o \in 0..1 /\ (i # 1 => o = 1) /\ v = a + (o + 2)
    <3>1. v = a + (IF i = 1 THEN 2 ELSE 3)
      BY DEF ValueAt
    <3> HIDE DEF a, v
    <3> QED BY <3>1
  <2>5. /\ n \in Nat /\ Len(x) = o + 2 + n /\ (i # 1 => x[1] = And)
        /\ x[o + 1] = nm[i] /\ x[o + 2] = Equals /\ \A j \in 1..n : x[o + 2 + j] = e[j]
    <3>1. o = IF i = 1 THEN 0 ELSE 1
      OBVIOUS
    <3>2. x = Piece(nm, d, i)
      BY <1>1
    <3> HIDE DEF o, x
    <3>3. IsPiece(Piece(nm, d, i), nm, d, i, o)
      BY <3>1, PieceParts
    <3> QED BY <3>2, <3>3 DEF IsPiece
  <2>6. a = b[i - 1] /\ c = b[i] /\ c \in Nat
    BY <1>4, <2>1
  <2> HIDE DEF o, a, c, v, x
  <2> DEFINE l == Len(x)
  <2> HIDE DEF n
  <2>7. /\ l \in Nat /\ c = a + l /\ l = o + 2 + n /\ \A j \in 1..l : D[a + j] = x[j]
    BY <2>3, <2>4, <2>5
  <2> HIDE DEF l
  <2>8. /\ v + n = c /\ v - 1 = a + (o + 1) /\ v = a + (o + 2) /\ v \in Nat
        /\ o + 1 \in 1..l /\ o + 2 \in 1..l /\ (o = 1 => 1 \in 1..l)
        /\ \A j \in 1..n : o + 2 + j \in 1..l /\ v + j = a + (o + 2 + j)
    BY <2>3, <2>4, <2>5, <2>7
  <2>9. D[v - 1] = nm[i] /\ D[v] = Equals /\ (i # 1 => D[a + 1] = And)
    BY <2>4, <2>5, <2>7, <2>8
  <2>10. \A j \in 1..n : D[v + j] = e[j]
    BY <2>5, <2>7, <2>8
  <2>11. Holds(D, v, e, n)
    BY <2>5, <2>8, <2>10 DEF Holds
  <2> QED BY <2>3, <2>5, <2>6, <2>8, <2>9, <2>11 DEF FieldLies, v, n
<1>7. Layout(D, nm, d, m, b)
  BY <1>3, <1>4, <1>5, <1>6 DEF Layout
<1> QED BY <1>7 DEF D

\* The fields lie one behind the other.
LEMMA LayoutOrder ==
  ASSUME NEW D, NEW nm, NEW d, NEW m, NEW b, Layout(D, nm, d, m, b), NEW i \in 1..m
  PROVE  /\ ValueAt(b, i) \in Nat /\ b[i - 1] + 2 <= ValueAt(b, i) /\ ValueAt(b, i) <= b[i]
         /\ b[i] \in Nat /\ b[i - 1] \in Nat
         /\ \A k \in 0..m : i <= k => b[i] <= b[k]
<1>1. /\ m \in Nat /\ \A k \in 1..m : FieldLies(D, nm, d, b, k)
  BY DEF Layout
<1>2. ASSUME NEW k \in 1..m
      PROVE  /\ ValueAt(b, k) \in Nat /\ b[k - 1] + 2 <= ValueAt(b, k) /\ ValueAt(b, k) <= b[k]
             /\ b[k] \in Nat /\ b[k - 1] \in Nat
  <2> DEFINE a == b[k - 1]
             c == b[k]
             v == ValueAt(b, k)
             n == Len(d[k])
  <2>1. a \in Nat /\ c \in Nat /\ n \in Nat /\ v + n = c
    BY <1>1 DEF FieldLies
  <2>2. v = a + (IF k = 1 THEN 2 ELSE 3)
    BY DEF ValueAt
  <2> HIDE DEF a, c, v, n
  <2>3. v \in Nat /\ a + 2 <= v /\ v <= c
    BY <2>1, <2>2
  <2> QED BY <2>1, <2>3 DEF a, c, v
<1>3. \A k \in 0..m : i <= k => b[i] <= b[k]
  <2> DEFINE T == {k \in Nat : k \in 0..m /\ i <= k => b[i] <= b[k]}
  <2>1. 0 \in T
    <3>1. ~(i <= 0)
      BY <1>1
    <3> QED BY <3>1
  <2>2. ASSUME NEW k \in Nat, k \in T PROVE k + 1 \in T
    <3> SUFFICES ASSUME k + 1 \in 0..m, i <= k + 1 PROVE b[i] <= b[k + 1]
      OBVIOUS
    <3>1. CASE i = k + 1
      <4>1. b[i] \in Nat
        BY <1>2
      <4> QED BY <3>1, <4>1
    <3>2. CASE i # k + 1
      <4>1. k \in 0..m /\ i <= k /\ k + 1 \in 1..m /\ (k + 1) - 1 = k
        BY <1>1, <3>2
      <4>2. b[i] <= b[k] /\ b[i] \in Nat
        BY <1>2, <2>2, <4>1
      <4>3. /\ ValueAt(b, k + 1) \in Nat /\ b[k] + 2 <= ValueAt(b, k + 1)
            /\ ValueAt(b, k + 1) <= b[k + 1] /\ b[k + 1] \in Nat /\ b[k] \in Nat
        BY <1>2, <4>1
      <4> QED BY <4>2, <4>3
    <3> QED BY <3>1, <3>2
  <2> HIDE DEF T
  <2>3. Nat \subseteq T
    BY <2>1, <2>2, NatSetInduction
  <2>4. \A k \in 0..m : k \in Nat
    BY <1>1
  <2> QED BY <2>3, <2>4 DEF T
<1> QED BY <1>2, <1>3

\* Every byte belongs to a field.
LEMMA InField ==
  ASSUME NEW D, NEW nm, NEW d, NEW m, NEW b, Layout(D, nm, d, m, b), NEW p \in 1..Len(D)
  PROVE  \E i \in 1..m : b[i - 1] < p /\ p <= b[i]
<1> DEFINE T == {i \in 0..m : p <= b[i]}
<1>1. m \in Nat /\ Len(D) \in Nat /\ b[0] = 0 /\ b[m] = Len(D) /\ \A i \in 0..m : b[i] \in Nat
  BY DEF Layout
<1>2. m \in T /\ T \subseteq Nat
  BY <1>1
<1>3. PICK i \in T : \A j \in T : i <= j
  BY <1>2, LeastNatural
<1>4. i \in 0..m /\ p <= b[i] /\ i # 0
  BY <1>1, <1>3
<1>5. i \in 1..m /\ i - 1 \in 0..m /\ ~(i <= i - 1)
  BY <1>1, <1>4
<1>6. ~(p <= b[i - 1]) /\ b[i - 1] \in Nat
  BY <1>1, <1>3, <1>5
<1> QED BY <1>1, <1>4, <1>5, <1>6

\* The separators are where the layout says, and nowhere else.
LEMMA OnlySeparators ==
  ASSUME NEW D, NEW nm, NEW d, NEW m, NEW b, Layout(D, nm, d, m, b), NEW p \in 1..Len(D)
  PROVE  /\ D[p] = Equals => \E i \in 1..m : p = ValueAt(b, i)
         /\ D[p] = And => \E i \in 1..m : i # 1 /\ p = b[i - 1] + 1
<1>1. PICK i \in 1..m : b[i - 1] < p /\ p <= b[i]
  BY InField
<1> DEFINE a == b[i - 1]
           c == b[i]
           v == ValueAt(b, i)
           n == Len(d[i])
<1>2. /\ a \in Nat /\ c \in Nat /\ n \in Nat /\ v + n = c /\ Len(D) \in Nat
      /\ (i # 1 => D[a + 1] = And) /\ D[v - 1] = nm[i] /\ D[v] = Equals
      /\ \A j \in 1..n : D[v + j] = d[i][j]
      /\ nm[i] \in Names /\ d[i] \in Seq(Clean)
  BY DEF Layout, FieldLies, Holds
<1>3. v = a + (IF i = 1 THEN 2 ELSE 3)
  BY DEF ValueAt
<1>4. nm[i] \notin {And, Equals} /\ And # Equals /\ \A j \in 1..n : d[i][j] \notin {And, Equals}
  <2>1. \A j \in 1..n : d[i][j] \in Clean
    BY <1>2, CleanIsText
  <2> QED BY <1>2, <2>1, NamesClean DEF Clean, And, Equals
<1> HIDE DEF v, n
<1>5. a < p /\ p <= c
  BY <1>1
<1> HIDE DEF a, c
<1>6. p \in Nat
  BY <1>2
<1>7. \/ i # 1 /\ p = a + 1
      \/ p = v - 1
      \/ p = v
      \/ \E j \in 1..n : p = v + j
  <2>1. CASE p > v
    <3>1. p - v \in 1..n /\ p = v + (p - v)
      BY <1>2, <1>3, <1>5, <1>6, <2>1
    <3> QED BY <3>1
  <2>2. CASE ~(p > v)
    <3>1. v \in Nat
      BY <1>2, <1>3
    <3> QED BY <1>2, <1>3, <1>5, <1>6, <2>2, <3>1
  <2> QED BY <2>1, <2>2
<1>8. CASE i # 1 /\ p = a + 1
  BY <1>2, <1>4, <1>8 DEF a
<1>9. CASE p = v - 1
  BY <1>2, <1>4, <1>9
<1>10. CASE p = v
  BY <1>2, <1>4, <1>10 DEF v
<1>11. CASE \E j \in 1..n : p = v + j
  BY <1>2, <1>4, <1>11
<1> QED BY <1>7, <1>8, <1>9, <1>10, <1>11

LEMMA MinIs ==
  ASSUME NEW T, T \subseteq Int, NEW x \in T, \A y \in T : x <= y
  PROVE  Min(T) = x
<1> DEFINE P(y) == y \in T /\ \A z \in T : y <= z
<1>1. P(x)
  OBVIOUS
<1>2. ASSUME NEW y, P(y) PROVE y = x
  <2>1. x \in Int /\ y \in Int /\ x <= y /\ y <= x
    BY <1>2
  <2> QED BY <2>1
<1>3. Min(T) = CHOOSE y \in T : \A z \in T : y <= z
  BY DEF Min
<1>4. P(Min(T))
  BY <1>1, <1>3, Zenon
<1> HIDE DEF P
<1> QED BY <1>2, <1>4

\* X is D, cut behind byte n.
IsCut(X, D, n) ==
    /\ n \in Nat /\ n <= Len(D) /\ X \in Seq(Symbols) /\ Len(X) = n
    /\ \A i \in 1..n : X[i] = D[i]

\* k is the first field with this name.
IsFirst(nm, m, name, k) == /\ k \in 1..m /\ nm[k] = name
                           /\ \A i \in 1..m : nm[i] = name => k <= i

\* Where a name and a '=' are: at the fields with this name.
LEMMA KeysAreFields ==
  ASSUME NEW D, NEW nm, NEW d, NEW m, NEW b, Layout(D, nm, d, m, b),
         NEW X, NEW n, IsCut(X, D, n), NEW name \in Names
  PROVE  /\ \A p \in 1..(n - 1) : X[p] = name /\ X[p + 1] = Equals
               => \E i \in 1..m : p = ValueAt(b, i) - 1 /\ nm[i] = name
         /\ \A i \in 1..m : nm[i] = name /\ ValueAt(b, i) <= n
               => /\ ValueAt(b, i) - 1 \in 1..(n - 1)
                  /\ X[ValueAt(b, i) - 1] = name /\ X[(ValueAt(b, i) - 1) + 1] = Equals
<1>1. /\ n \in Nat /\ n <= Len(D) /\ Len(D) \in Nat /\ \A i \in 1..n : X[i] = D[i]
  BY DEF IsCut, Layout
<1>2. ASSUME NEW p \in 1..(n - 1), X[p] = name, X[p + 1] = Equals
      PROVE  \E i \in 1..m : p = ValueAt(b, i) - 1 /\ nm[i] = name
  <2>1. p \in 1..n /\ p + 1 \in 1..n /\ p + 1 \in 1..Len(D)
    BY <1>1
  <2>2. D[p + 1] = Equals /\ D[p] = name
    BY <1>1, <1>2, <2>1
  <2>3. PICK i \in 1..m : p + 1 = ValueAt(b, i)
    BY <2>1, <2>2, OnlySeparators
  <2> DEFINE v == ValueAt(b, i)
  <2>4. D[v - 1] = nm[i]
    BY DEF Layout, FieldLies
  <2>5. p + 1 = v
    BY <2>3
  <2> HIDE DEF v
  <2>6. p = v - 1
    BY <2>5
  <2> QED BY <2>2, <2>4, <2>6 DEF v
<1>3. ASSUME NEW i \in 1..m, nm[i] = name, ValueAt(b, i) <= n
      PROVE  /\ ValueAt(b, i) - 1 \in 1..(n - 1)
             /\ X[ValueAt(b, i) - 1] = name /\ X[(ValueAt(b, i) - 1) + 1] = Equals
  <2> DEFINE v == ValueAt(b, i)
             a == b[i - 1]
  <2>1. v \in Nat /\ a \in Nat /\ a + 2 <= v
    BY LayoutOrder
  <2>2. D[v - 1] = nm[i] /\ D[v] = Equals /\ v <= n
    BY <1>3 DEF Layout, FieldLies
  <2> HIDE DEF v, a
  <2>3. v - 1 \in 1..(n - 1) /\ v - 1 \in 1..n /\ v \in 1..n /\ (v - 1) + 1 = v
    BY <1>1, <2>1, <2>2
  <2>4. X[v - 1] = name /\ X[v] = Equals
    BY <1>1, <1>3, <2>2, <2>3
  <2> QED BY <2>3, <2>4 DEF v
<1> QED BY <1>2, <1>3

\* The value that is found is that of the first field with the name ...
LEMMA KeyFound ==
  ASSUME NEW D, NEW nm, NEW d, NEW m, NEW b, Layout(D, nm, d, m, b),
         NEW X, NEW n, IsCut(X, D, n), NEW name \in Names,
         NEW k, IsFirst(nm, m, name, k), ValueAt(b, k) <= n
  PROVE  KeyStart(X, name) = ValueAt(b, k) + 1
<1> DEFINE at == {i \in 1..(Len(X) - 1) : X[i] = name /\ X[i + 1] = Equals}
           v == ValueAt(b, k)
<1>0. n \in Nat /\ Len(X) = n /\ k \in 1..m /\ nm[k] = name /\ \A i \in 1..m : nm[i] = name => k <= i
  BY DEF IsCut, IsFirst
<1>1. v - 1 \in at
  BY <1>0, KeysAreFields
<1>2. at \subseteq Int
  BY <1>0
<1>3. v \in Nat /\ b[k] \in Nat /\ v <= b[k] /\ (\A i \in 0..m : k <= i => b[k] <= b[i]) /\ m \in Nat
  BY <1>0, LayoutOrder DEF Layout
<1>4. ASSUME NEW p \in at PROVE v - 1 <= p
  <2>0. p \in 1..(n - 1) /\ X[p] = name /\ X[p + 1] = Equals
    BY <1>0
  <2>1. PICK i \in 1..m : p = ValueAt(b, i) - 1 /\ nm[i] = name
    <3> HIDE DEF at, v
    <3> QED BY <2>0, KeysAreFields
  <2>2. k <= i
    BY <1>0, <2>1
  <2>3. CASE i = k
    <3>1. p = v - 1
      BY <2>1, <2>3
    <3> HIDE DEF v
    <3> QED BY <1>3, <3>1
  <2>4. CASE i # k
    <3>1. i - 1 \in 0..m /\ k <= i - 1
      BY <1>0, <1>3, <2>2, <2>4
    <3> DEFINE y == ValueAt(b, i)
               a == b[i - 1]
               c == b[k]
    <3>2. y \in Nat /\ a \in Nat /\ a + 2 <= y
      BY LayoutOrder
    <3>3. c <= a /\ c \in Nat /\ v \in Nat /\ v <= c /\ p = y - 1
      BY <1>3, <2>1, <3>1
    <3> HIDE DEF y, a, c, v
    <3> QED BY <3>2, <3>3
  <2> QED BY <2>3, <2>4
<1> HIDE DEF at
<1>5. Min(at) = v - 1
  BY <1>1, <1>2, <1>4, MinIs
<1>6. KeyStart(X, name) = Min(at) + 2
  BY <1>1 DEF KeyStart, at
<1> HIDE DEF v
<1> QED BY <1>3, <1>5, <1>6 DEF v

\* ... or there is none, when the text ends before it.
LEMMA KeyMissing ==
  ASSUME NEW D, NEW nm, NEW d, NEW m, NEW b, Layout(D, nm, d, m, b),
         NEW X, NEW n, IsCut(X, D, n), NEW name \in Names,
         \A i \in 1..m : nm[i] = name => ValueAt(b, i) > n
  PROVE  KeyStart(X, name) = 0
<1> DEFINE at == {i \in 1..(Len(X) - 1) : X[i] = name /\ X[i + 1] = Equals}
<1>0. n \in Nat /\ Len(X) = n
  BY DEF IsCut
<1>1. at = {}
  <2> SUFFICES ASSUME NEW p \in at PROVE FALSE
    OBVIOUS
  <2>1. PICK i \in 1..m : p = ValueAt(b, i) - 1 /\ nm[i] = name
    BY <1>0, KeysAreFields
  <2> DEFINE v == ValueAt(b, i)
  <2>2. v \in Nat /\ v > n /\ p = v - 1 /\ p \in 1..(n - 1)
    BY <1>0, <2>1, LayoutOrder
  <2> HIDE DEF v
  <2> QED BY <1>0, <2>2
<1> QED BY <1>1 DEF KeyStart

\* The value ends where its field ends, or the text.
LEMMA KeyEnds ==
  ASSUME NEW D, NEW nm, NEW d, NEW m, NEW b, Layout(D, nm, d, m, b),
         NEW X, NEW n, IsCut(X, D, n), NEW k \in 1..m, ValueAt(b, k) <= n
  PROVE  KeyEnd(X, ValueAt(b, k) + 1) = IF b[k] <= n THEN b[k] ELSE n
<1> DEFINE v == ValueAt(b, k)
           c == b[k]
           ends == {i \in (v + 1)..Len(X) : X[i] = And}
<1>0. /\ n \in Nat /\ Len(X) = n /\ n <= Len(D) /\ Len(D) \in Nat /\ \A i \in 1..n : X[i] = D[i]
      /\ m \in Nat /\ b[m] = Len(D)
  BY DEF IsCut, Layout
<1>1. v \in Nat /\ c \in Nat /\ v <= c /\ v <= n
  BY LayoutOrder
<1>2. ASSUME NEW p \in ends PROVE p \in Nat /\ p <= n /\ D[p] = And /\ c + 1 <= p
  <2>0. \A w \in Nat : p \in (w + 1)..n => p \in 1..n /\ p \in 1..Len(D) /\ p > w
    BY <1>0
  <2>1. p \in 1..n /\ p \in 1..Len(D) /\ X[p] = And /\ p > v
    <3>1. p \in (v + 1)..n /\ X[p] = And
      BY <1>0
    <3> HIDE DEF v
    <3> QED BY <1>1, <2>0, <3>1
  <2>2. D[p] = And
    BY <1>0, <2>1
  <2>3. PICK i \in 1..m : i # 1 /\ p = b[i - 1] + 1
    BY <2>1, <2>2, OnlySeparators
  <2>4. i - 1 \in 1..m /\ i - 1 \in 0..m /\ k \in 0..m
    BY <1>0, <2>3
  <2>5. k <= i - 1
    <3> SUFFICES ASSUME ~(k <= i - 1) PROVE FALSE
      OBVIOUS
    <3>1. i <= k /\ i \in 0..m /\ k - 1 \in 0..m /\ i - 1 <= k - 1
      BY <1>0, <2>3
    <3>2. b[i - 1] <= b[k - 1]
      BY <2>4, <3>1, LayoutOrder
    <3> DEFINE a == b[i - 1]
               e == b[k - 1]
    <3>3. a \in Nat /\ e \in Nat /\ e + 2 <= v /\ a <= e /\ p = a + 1
      BY <2>3, <3>2, LayoutOrder
    <3> HIDE DEF a, e, v
    <3> QED BY <1>1, <2>1, <3>3
  <2>6. c <= b[i - 1]
    BY <2>4, <2>5, LayoutOrder
  <2> DEFINE a == b[i - 1]
  <2>7. a \in Nat /\ p = a + 1 /\ c <= a
    BY <2>3, <2>6, LayoutOrder
  <2> HIDE DEF a, v, c
  <2> QED BY <1>0, <1>1, <2>1, <2>2, <2>7
<1>3. CASE c + 1 <= n
  <2>1. k # m
    <3> SUFFICES ASSUME k = m PROVE FALSE
      OBVIOUS
    <3>1. c = Len(D)
      BY <1>0
    <3> HIDE DEF c
    <3> QED BY <1>0, <1>1, <1>3, <3>1
  <2>2. k + 1 \in 1..m /\ k + 1 # 1 /\ (k + 1) - 1 = k
    BY <1>0, <2>1
  <2>3. D[b[(k + 1) - 1] + 1] = And
    BY <2>2 DEF Layout, FieldLies
  <2>4. D[c + 1] = And
    BY <2>2, <2>3
  <2>5. c + 1 \in ends
    <3>1. c + 1 \in (v + 1)..Len(X) /\ c + 1 \in 1..n
      <4> HIDE DEF v, c
      <4> QED BY <1>0, <1>1, <1>3
    <3> QED BY <1>0, <2>4, <3>1
  <2> HIDE DEF ends, v, c
  <2>6. ends \subseteq Int /\ c + 1 \in ends /\ \A p \in ends : c + 1 <= p
    BY <1>2, <2>5
  <2>7. Min(ends) = c + 1
    BY <2>6, MinIs
  <2>8. KeyEnd(X, v + 1) = Min(ends) - 1
    BY <2>5 DEF KeyEnd, ends
  <2>9. c <= n /\ (c + 1) - 1 = c
    BY <1>0, <1>1, <1>3
  <2> QED BY <2>7, <2>8, <2>9 DEF v, c
<1>4. CASE ~(c + 1 <= n)
  <2>1. ends = {}
    <3> SUFFICES ASSUME NEW p \in ends PROVE FALSE
      OBVIOUS
    <3>1. p \in Nat /\ p <= n /\ c + 1 <= p
      BY <1>2
    <3> HIDE DEF c, v, ends
    <3> QED BY <1>0, <1>1, <1>4, <3>1
  <2>2. KeyEnd(X, v + 1) = Len(X)
    BY <2>1 DEF KeyEnd
  <2> HIDE DEF c, v
  <2>3. (IF c <= n THEN c ELSE n) = n
    BY <1>0, <1>1, <1>4
  <2> QED BY <1>0, <2>2, <2>3 DEF c, v
<1> QED BY <1>3, <1>4

\* A text without NUL is a C string.
LEMMA CStringWhole ==
  ASSUME NEW r \in Seq(Symbols)
  PROVE  CString(r) = r
<1>1. \A i \in 1..Len(r) : r[i] \in Symbols
  BY ElementOfSeq
<1>2. 0 \notin Symbols
  BY DEF Symbols, true
<1>3. {i \in 1..Len(r) : r[i] = 0} = {}
  BY <1>1, <1>2
<1> QED BY <1>3 DEF CString

LEMMA BeginsNothing ==
  ASSUME NEW w \in Seq(Symbols)
  PROVE  Begins(<<>>, w)
<1>1. SubSeq(<<>>, 1, 0) = <<>> /\ SubSeq(w, 1, 0) = <<>> /\ <<>> \in Seq(Symbols)
  <2>1. <<>> \in Seq(Symbols) /\ 1 > 0
    OBVIOUS
  <2> QED BY <2>1, SubSeqNothing
<1>2. Len(w) \in Nat /\ 0 \in 0..Len(w) /\ 0 \in 0..2 /\ 0 + 0 = Len(<<>>)
  BY LenProperties
<1> QED BY <1>1, <1>2 DEF Begins

LEMMA BeginsWhole ==
  ASSUME NEW w \in Seq(Symbols)
  PROVE  Begins(w, w)
<1>1. Len(w) \in Nat
  BY LenProperties
<1> DEFINE n == Len(w)
<1>2. n \in 0..n /\ 0 \in 0..2 /\ n + 0 = n
  BY <1>1
<1> HIDE DEF n
<1>3. n = Len(w)
  BY DEF n
<1> QED BY <1>2, <1>3 DEF Begins

LEMMA CodesShorter ==
  ASSUME NEW x, NEW w, Codes(x, w)
  PROVE  Len(w) <= Len(x) /\ Len(w) \in Nat /\ Len(x) \in Nat
<1>1. PICK f : IsCode(x, w, f)
  BY DEF Codes
<1>2. Len(w) \in Nat /\ Len(x) \in Nat /\ f[Len(w)] = Len(x)
  BY <1>1 DEF IsCode
<1>3. Len(w) \in 0..Len(w)
  BY <1>2
<1>4. Len(w) <= f[Len(w)]
  BY <1>1, <1>3, CodeLonger
<1> QED BY <1>2, <1>4

\* Decoding less than the buffer holds gives all of it.
LEMMA DecodeWhole ==
  ASSUME NEW X, Len(X) \in Nat, NEW x, NEW w, Codes(x, w),
         NEW a, Holds(X, a, x, Len(x)), a + Len(x) <= Len(X), NEW max \in Nat, max > Len(X) + 1
  PROVE  url_utf8_decode(X, a + 1, a + Len(x), max) = w
<1>1. Len(w) <= Len(x) /\ Len(w) \in Nat /\ Len(x) \in Nat /\ a \in Nat /\ w \in Seq(Symbols)
  BY CodesShorter DEF Holds, Codes
<1>2. Room(Len(w), max) = Len(w) /\ max > 0
  <2> DEFINE m == Len(w)
             n == Len(x)
             N == Len(X)
  <2>1. m <= n /\ m \in Nat /\ n \in Nat /\ a \in Nat /\ N \in Nat /\ a + n <= N /\ max > N + 1
    BY <1>1
  <2> HIDE DEF m, n, N
  <2>2. Room(m, max) = m /\ max > 0
    BY <2>1 DEF Room
  <2> QED BY <2>2 DEF m
<1>3. url_utf8_decode(X, a + 1, a + Len(x), max) = SubSeq(w, 1, Room(Len(w), max))
  BY <1>2, DecodeCode
<1>4. SubSeq(w, 1, Len(w)) = w
  BY <1>1, SubSeqWhole
<1> QED BY <1>2, <1>3, <1>4

\* What parse_content makes of the text of a request, cut or not: the value
\* of the first field with the name, or a beginning of it.
LEMMA ContentFound ==
  ASSUME NEW D, NEW nm, NEW d, NEW m, NEW b, Layout(D, nm, d, m, b),
         NEW X, NEW n, IsCut(X, D, n), n < RequestBuf, NEW name \in Names,
         NEW k, IsFirst(nm, m, name, k), NEW w, Codes(d[k], w)
  PROVE  /\ Begins(parse_content(X, name), w)
         /\ b[k] <= n => parse_content(X, name) = w
<1> DEFINE v == ValueAt(b, k)
           c == b[k]
           x == d[k]
           l == Len(x)
<1>0. /\ n \in Nat /\ Len(X) = n /\ n <= Len(D) /\ Len(D) \in Nat /\ \A i \in 1..n : X[i] = D[i]
      /\ k \in 1..m /\ w \in Seq(Symbols) /\ Codes(x, w)
      /\ \A i \in 1..m : nm[i] = name => k <= i
  BY DEF IsCut, Layout, IsFirst, Codes
<1>1. /\ v \in Nat /\ c \in Nat /\ v <= c /\ l \in Nat /\ v + l = c /\ m \in Nat
      /\ Holds(D, v, x, l)
  BY <1>0, LayoutOrder DEF Layout, FieldLies
<1>2. FieldBuf \in Nat /\ FieldBuf > n + 1
  BY <1>0, BuffersAssumption
<1>3. CASE v > n
  <2>1. ASSUME NEW i \in 1..m, nm[i] = name PROVE ValueAt(b, i) > n
    <3>1. CASE i = k
      BY <1>3, <3>1
    <3>2. CASE i # k
      <4>1. i - 1 \in 0..m /\ k <= i - 1
        BY <1>0, <1>1, <2>1, <3>2
      <4> DEFINE y == ValueAt(b, i)
                 a == b[i - 1]
      <4>2. y \in Nat /\ a \in Nat /\ a + 2 <= y /\ c <= a
        BY <1>0, <4>1, LayoutOrder
      <4> HIDE DEF y, a, c, v
      <4>3. y > n
        BY <1>0, <1>1, <1>3, <4>2
      <4> QED BY <4>3 DEF y
    <3> QED BY <3>1, <3>2
  <2>2. KeyStart(X, name) = 0
    BY <2>1, KeyMissing
  <2>3. parse_content(X, name) = <<>>
    BY <2>2 DEF parse_content
  <2>4. ~(c <= n)
    <3> HIDE DEF v, c
    <3> QED BY <1>0, <1>1, <1>3
  <2> QED BY <1>0, <2>3, <2>4, BeginsNothing
<1>4. CASE ~(v > n)
  <2>0. v <= n
    <3> HIDE DEF v
    <3> QED BY <1>0, <1>1, <1>4
  <2>1. KeyStart(X, name) = v + 1
    BY <2>0, KeyFound
  <2>2. KeyEnd(X, v + 1) = IF c <= n THEN c ELSE n
    BY <1>0, <2>0, KeyEnds
  <2>3. parse_content(X, name) = CString(url_utf8_decode(X, v + 1, KeyEnd(X, v + 1), FieldBuf))
    <3>1. v + 1 # 0
      <4> HIDE DEF v
      <4> QED BY <1>1
    <3> HIDE DEF v
    <3> QED BY <2>1, <3>1 DEF parse_content, FieldAt
  <2>4. CASE c <= n
    <3>1. Holds(X, v, x, l)
      <4> HIDE DEF v, c, x, l
      <4>1. \A i \in 1..l : v + i \in 1..n /\ D[v + i] = x[i]
        BY <1>0, <1>1, <2>4 DEF Holds
      <4>2. \A i \in 1..l : X[v + i] = x[i]
        BY <1>0, <4>1
      <4> QED BY <1>1, <4>2 DEF Holds
    <3>2. url_utf8_decode(X, v + 1, v + Len(x), FieldBuf) = w
      <4>1. v + Len(x) <= Len(X) /\ Len(X) \in Nat /\ FieldBuf > Len(X) + 1 /\ Holds(X, v, x, Len(x))
        BY <1>0, <1>1, <1>2, <2>4, <3>1
      <4> HIDE DEF v, x, c, l
      <4> QED BY <1>0, <1>2, <4>1, DecodeWhole
    <3>3. KeyEnd(X, v + 1) = v + Len(x)
      BY <1>1, <2>2, <2>4
    <3>4. parse_content(X, name) = w
      BY <1>0, <2>3, <3>2, <3>3, CStringWhole
    <3> QED BY <1>0, <3>4, BeginsWhole
  <2>5. CASE ~(c <= n)
    <3> DEFINE i == n - v
    <3>1. /\ i \in Nat /\ i <= l /\ v + i = n
      <4> HIDE DEF v, c, l
      <4> QED BY <1>0, <1>1, <2>0, <2>5
    <3>2. Holds(X, v, x, i)
      <4> HIDE DEF v, c, x, l, i
      <4>1. \A j \in 1..i : v + j \in 1..n /\ j \in 1..l
        BY <1>0, <1>1, <3>1
      <4>2. \A j \in 1..i : X[v + j] = x[j]
        BY <1>0, <1>1, <4>1 DEF Holds
      <4> QED BY <1>1, <3>1, <4>2 DEF Holds
    <3>3. Begins(url_utf8_decode(X, v + 1, Len(X), FieldBuf), w)
      <4>1. i <= Len(x) /\ v + i = Len(X) /\ Len(X) \in Nat /\ FieldBuf > Len(X) + 1
        BY <1>0, <1>2, <3>1
      <4> HIDE DEF v, x, i
      <4> QED BY <1>0, <1>2, <3>1, <3>2, <4>1, DecodeCut
    <3> DEFINE r == url_utf8_decode(X, v + 1, Len(X), FieldBuf)
    <3>4. parse_content(X, name) = CString(r)
      BY <1>0, <2>2, <2>3, <2>5
    <3>5. Begins(r, w)
      BY <3>3
    <3> HIDE DEF r
    <3>6. r \in Seq(Symbols)
      BY <3>5 DEF Begins
    <3>7. CString(r) = r
      BY <3>6, CStringWhole
    <3> QED BY <2>5, <3>4, <3>5, <3>7
  <2> QED BY <2>4, <2>5
<1> QED BY <1>3, <1>4

LEMMA ContentMissing ==
  ASSUME NEW D, NEW nm, NEW d, NEW m, NEW b, Layout(D, nm, d, m, b),
         NEW X, NEW n, IsCut(X, D, n), NEW name \in Names, \A i \in 1..m : nm[i] # name
  PROVE  parse_content(X, name) = <<>>
<1>1. KeyStart(X, name) = 0
  BY KeyMissing
<1> QED BY <1>1 DEF parse_content

-----------------------------------------------------------------------------
(* parse_worker *)

\* The text that the keys are looked for in: the first decode, or as much of
\* it as the buffer holds.
LEMMA TextSearched ==
  ASSUME NEW D, Codes(body, D), NEW b, NEW nm, NEW d, NEW m, Layout(D, nm, d, m, b)
  PROVE  IsCut(SearchedText, D, Room(Len(D), RequestBuf))
<1> DEFINE X == body
           l == Len(D)
           n == Room(l, RequestBuf)
           r == SubSeq(D, 1, n)
<1>1. Len(X) \in Nat /\ l \in Nat /\ D \in Seq(Symbols)
  BY CodesShorter DEF Codes
<1>2. RequestBuf \in Nat /\ RequestBuf > 1
  BY BuffersAssumption
<1>3. l >= 1
  <2>1. m \in 1..m /\ b[m] = l
    BY DEF Layout
  <2> DEFINE a == b[m - 1]
             v == ValueAt(b, m)
  <2>2. a \in Nat /\ v \in Nat /\ a + 2 <= v /\ v <= l
    BY <2>1, LayoutOrder
  <2> HIDE DEF a, v, l
  <2> QED BY <1>1, <2>2
<1>4. n \in Nat /\ n <= l /\ n >= 1
  <2> HIDE DEF l
  <2> QED BY <1>1, <1>2, <1>3 DEF Room
<1>5. url_utf8_decode(X, 1, Len(X), RequestBuf) = r
  <2> DEFINE N == Len(X)
             a == 0
  <2>1. N \in Nat /\ a + N = N /\ a + 1 = 1 /\ N <= N /\ a \in Nat /\ \A i \in 1..N : a + i = i
    BY <1>1
  <2> HIDE DEF N, a
  <2>2. Holds(X, a, X, N)
    BY <2>1 DEF Holds
  <2>3. Codes(X, D) /\ Len(X) \in Nat /\ RequestBuf > 0 /\ RequestBuf \in Nat /\ a + Len(X) <= Len(X)
        /\ Holds(X, a, X, Len(X))
    BY <1>1, <1>2, <2>1, <2>2 DEF N
  <2> HIDE DEF X
  <2>4. url_utf8_decode(X, a + 1, a + Len(X), RequestBuf) = SubSeq(D, 1, Room(Len(D), RequestBuf))
    BY <2>3, DecodeCode
  <2> QED BY <2>1, <2>4 DEF N
<1> HIDE DEF X, n
<1>6. r \in Seq(Symbols) /\ Len(r) = n /\ \A i \in 1..n : r[i] = D[i]
  <2>1. 0 + 1 = 1 /\ 0 <= n /\ n - 0 = n /\ \A i \in 1..n : 0 + i = i
    BY <1>4
  <2>2. IsPart(Symbols, D, SubSeq(D, 0 + 1, n), 0, n)
    BY <1>1, <1>4, <2>1, PartIs
  <2> HIDE DEF r
  <2>3. IsPart(Symbols, D, r, 0, n)
    BY <2>1, <2>2 DEF r
  <2> QED BY <2>1, <2>3 DEF IsPart
<1> HIDE DEF r
<1>7. r # <<>>
  BY <1>4, <1>6
<1>8. CString(r) = r
  BY <1>6, CStringWhole
<1>9. SearchedText = r
  BY <1>5, <1>7, <1>8, Zenon DEF SearchedText, X
<1>10. IsCut(r, D, n)
  BY <1>4, <1>6 DEF IsCut
<1> QED BY <1>9, <1>10 DEF n

\* What the fields of a request become.
IsFound(r, name, nm, v, m, whole) ==
    IF \A i \in 1..m : nm[i] # name
    THEN r = <<>>
    ELSE \E k : /\ IsFirst(nm, m, name, k)
                /\ Begins(r, v[k])
                /\ whole => r = v[k]

LEMMA FirstExists ==
  ASSUME NEW nm, NEW m \in Nat, NEW name, ~(\A i \in 1..m : nm[i] # name)
  PROVE  \E k : IsFirst(nm, m, name, k)
<1> DEFINE T == {i \in 1..m : nm[i] = name}
<1>1. T # {} /\ T \subseteq Nat
  OBVIOUS
<1>2. PICK k \in T : \A i \in T : k <= i
  BY <1>1, LeastNatural
<1> QED BY <1>2 DEF IsFirst

LEMMA FieldsAreFound ==
  ASSUME NEW nm, NEW e, NEW d, NEW v, NEW m, AreFields(nm, e, m), AreFields(nm, d, m),
         \A i \in 1..m : d[i] \in Seq(Clean) /\ Codes(e[i], d[i]) /\ Codes(d[i], v[i]),
         body = Joined(nm, e, m), NEW name \in Names
  PROVE  IsFound(Fields[name], name, nm, v, m, Len(Joined(nm, d, m)) < RequestBuf)
<1> DEFINE D == Joined(nm, d, m)
           l == Len(D)
           n == Room(l, RequestBuf)
           X == SearchedText
           r == parse_content(X, name)
<1>1. Codes(body, D)
  BY CodesJoined
<1>2. PICK b : Layout(D, nm, d, m, b)
  BY JoinedLayout
<1> HIDE DEF D
<1>3. IsCut(X, D, n)
  BY <1>1, <1>2, TextSearched
<1>4. /\ m \in Nat /\ b[m] = l /\ l \in Nat /\ RequestBuf \in Nat /\ RequestBuf > 1
      /\ m \in 0..m
  BY <1>2, BuffersAssumption DEF Layout
<1>5. n < RequestBuf /\ n \in Nat /\ (l < RequestBuf => n = l)
  <2> HIDE DEF l
  <2> QED BY <1>4 DEF Room
<1>6. Fields[name] = r
  BY DEF Fields
<1> HIDE DEF X, n, l
<1>7. CASE \A i \in 1..m : nm[i] # name
  BY <1>2, <1>3, <1>6, <1>7, ContentMissing DEF IsFound
<1>8. CASE ~(\A i \in 1..m : nm[i] # name)
  <2>1. PICK k : IsFirst(nm, m, name, k)
    BY <1>4, <1>8, FirstExists
  <2>2. k \in 1..m
    BY <2>1 DEF IsFirst
  <2>3. Codes(d[k], v[k])
    BY <2>2
  <2>4. Begins(r, v[k]) /\ (b[k] <= n => r = v[k])
    <3> HIDE DEF r
    <3> QED BY <1>2, <1>3, <1>5, <2>1, <2>3, ContentFound DEF r
  <2>5. l < RequestBuf => b[k] <= n
    <3>1. k <= m
      BY <1>4, <2>2
    <3>2. b[k] <= b[m]
      BY <1>2, <1>4, <2>2, <3>1, LayoutOrder
    <3> QED BY <1>4, <1>5, <3>2
  <2> HIDE DEF r
  <2>6. IsFound(r, name, nm, v, m, l < RequestBuf)
    BY <1>8, <2>1, <2>4, <2>5 DEF IsFound
  <2> QED BY <1>6, <2>6 DEF l, D
<1> QED BY <1>7, <1>8

\* The names and values of a request
NamesOf(s, m)  == [i \in 1..m |-> s[i][1]]
ValuesOf(s, m) == [i \in 1..m |-> s[i][2]]
CodedOf(s, m, times) == [i \in 1..m |-> Encoded(s[i][2], times)]

LEMMA RequestParts ==
  ASSUME NEW m \in Nat \ {0}, NEW s \in [1..m -> Names \X Values]
  PROVE  /\ \A i \in 1..m : /\ NamesOf(s, m)[i] = s[i][1] /\ ValuesOf(s, m)[i] = s[i][2]
                            /\ s[i][2] \in Seq(Symbols)
         /\ AreFields(NamesOf(s, m), ValuesOf(s, m), m)
         /\ \A t \in 1..2 : AreFields(NamesOf(s, m), CodedOf(s, m, t), m)
         /\ \A i \in 1..m : /\ Codes(CodedOf(s, m, 1)[i], ValuesOf(s, m)[i])
                            /\ CodedOf(s, m, 1)[i] \in Seq(Clean)
                            /\ Codes(CodedOf(s, m, 2)[i], CodedOf(s, m, 1)[i])
         /\ \A t \in 1..2 : Body(s, t) = Joined(NamesOf(s, m), CodedOf(s, m, t), m)
<1>1. ASSUME NEW i \in 1..m
      PROVE  /\ NamesOf(s, m)[i] = s[i][1] /\ ValuesOf(s, m)[i] = s[i][2]
             /\ s[i][1] \in Names /\ s[i][2] \in Seq(Symbols)
             /\ CodedOf(s, m, 1)[i] = URLEncoded(s[i][2])
             /\ CodedOf(s, m, 2)[i] = URLEncoded(URLEncoded(s[i][2]))
  <2>1. s[i] \in Names \X Values
    OBVIOUS
  <2>2. s[i][1] \in Names /\ s[i][2] \in Values
    BY <2>1
  <2>3. s[i][2] \in Seq(Symbols)
    BY <2>2, ValuesAssumption
  <2>4. Encoded(s[i][2], 1) = URLEncoded(s[i][2]) /\ Encoded(s[i][2], 2) = URLEncoded(URLEncoded(s[i][2]))
    BY DEF Encoded
  <2> QED BY <2>2, <2>3, <2>4 DEF NamesOf, ValuesOf, CodedOf
<1>2. ASSUME NEW i \in 1..m
      PROVE  /\ URLEncoded(s[i][2]) \in Seq(Clean) /\ URLEncoded(s[i][2]) \in Seq(Symbols)
             /\ Codes(URLEncoded(s[i][2]), s[i][2])
             /\ URLEncoded(URLEncoded(s[i][2])) \in Seq(Symbols)
             /\ Codes(URLEncoded(URLEncoded(s[i][2])), URLEncoded(s[i][2]))
  <2> DEFINE v == s[i][2]
             e == URLEncoded(v)
  <2>1. v \in Seq(Symbols)
    BY <1>1
  <2> HIDE DEF v
  <2>2. e \in Seq(Clean) /\ Codes(e, v)
    BY <2>1, URLCodes
  <2> HIDE DEF e
  <2>3. e \in Seq(Symbols)
    BY <2>2, CleanIsText
  <2>4. URLEncoded(e) \in Seq(Clean) /\ Codes(URLEncoded(e), e)
    BY <2>3, URLCodes
  <2>5. URLEncoded(e) \in Seq(Symbols)
    BY <2>4, CleanIsText
  <2> QED BY <2>2, <2>3, <2>4, <2>5 DEF e, v
<1>3. AreFields(NamesOf(s, m), ValuesOf(s, m), m)
  BY <1>1 DEF AreFields
<1>4. \A t \in 1..2 : t = 1 \/ t = 2
  OBVIOUS
<1>5. /\ AreFields(NamesOf(s, m), CodedOf(s, m, 1), m)
      /\ AreFields(NamesOf(s, m), CodedOf(s, m, 2), m)
  BY <1>1, <1>2 DEF AreFields
<1>6. ASSUME NEW t PROVE Body(s, t) = Joined(NamesOf(s, m), CodedOf(s, m, t), m)
  BY BodyIsJoined DEF NamesOf, CodedOf
<1> QED BY <1>1, <1>2, <1>3, <1>4, <1>5, <1>6

-----------------------------------------------------------------------------
(* The fields of a request *)

\* What a request is while it is being parsed and after: the fields that the
\* client sent, and their text or nothing.
RequestKept ==
    /\ encodings \in 1..2
    /\ sent = <<>> => body = <<>>
    /\ sent # <<>> => \E k \in Nat \ {0} : /\ sent \in [1..k -> Names \X Values]
                                           /\ body \in {<<>>, Body(sent, encodings)}

FieldsInv == RequestKept /\ FieldsRecovered /\ CutKeepsBeginnings

LEMMA LayoutNotEmpty ==
  ASSUME NEW D, NEW nm, NEW d, NEW m, NEW b, Layout(D, nm, d, m, b)
  PROVE  Len(D) \in Nat /\ Len(D) >= 1
<1>1. m \in 1..m /\ b[m] = Len(D) /\ Len(D) \in Nat
  BY DEF Layout
<1> DEFINE a == b[m - 1]
           v == ValueAt(b, m)
           l == Len(D)
<1>2. a \in Nat /\ v \in Nat /\ a + 2 <= v /\ v <= l
  BY <1>1, LayoutOrder
<1> HIDE DEF a, v, l
<1>3. l >= 1
  BY <1>1, <1>2 DEF l
<1> QED BY <1>1, <1>3 DEF l

\* The text of a request has at least one byte, and encoding it more does not
\* make it shorter.
LEMMA BodyNotEmpty ==
  ASSUME NEW k \in Nat \ {0}, NEW s \in [1..k -> Names \X Values], NEW t \in 1..2
  PROVE  Body(s, t) # <<>> /\ s # <<>>
<1> DEFINE nm == NamesOf(s, k)
           e == CodedOf(s, k, 1)
           f == CodedOf(s, k, 2)
           D == Joined(nm, e, k)
           E == Joined(nm, f, k)
<1>0. 1 \in 1..2 /\ 2 \in 1..2 /\ t \in {1, 2}
  OBVIOUS
<1>1. /\ AreFields(nm, e, k) /\ AreFields(nm, f, k)
      /\ Body(s, 1) = D /\ Body(s, 2) = E
      /\ \A i \in 1..k : e[i] \in Seq(Clean) /\ Codes(f[i], e[i])
  BY <1>0, RequestParts
<1>2. s # <<>>
  <2>1. 1 \in DOMAIN s
    OBVIOUS
  <2> QED BY <2>1
<1> HIDE DEF nm, e, f
<1>3. PICK b : Layout(D, nm, e, k, b)
  BY <1>1, JoinedLayout
<1>4. Codes(E, D)
  BY <1>1, CodesJoined
<1> HIDE DEF D, E
<1>5. Len(D) \in Nat /\ Len(D) >= 1
  BY <1>3, LayoutNotEmpty
<1>6. Len(E) \in Nat /\ Len(D) <= Len(E)
  BY <1>4, CodesShorter
<1>7. D # <<>> /\ E # <<>>
  BY <1>5, <1>6
<1> QED BY <1>0, <1>1, <1>2, <1>7

\* What parse_content finds under a name, and what the client meant by it.
LEMMA FoundIsMeant ==
  ASSUME NEW k \in Nat \ {0}, sent \in [1..k -> Names \X Values], NEW name \in Names,
         NEW r, NEW whole \in BOOLEAN,
         IsFound(r, name, NamesOf(sent, k), ValuesOf(sent, k), k, whole)
  PROVE  /\ whole => r = Meant(name)
         /\ \E j \in 0..Len(Meant(name)), g \in 0..2 :
               j + g = Len(r) /\ SubSeq(r, 1, j) = SubSeq(Meant(name), 1, j)
<1> DEFINE at == {i \in DOMAIN sent : sent[i][1] = name}
           nm == NamesOf(sent, k)
           v  == ValuesOf(sent, k)
<1>1. DOMAIN sent = 1..k /\ \A i \in 1..k : nm[i] = sent[i][1] /\ v[i] = sent[i][2]
  BY DEF NamesOf, ValuesOf
<1> HIDE DEF nm, v
<1>2. CASE \A i \in 1..k : nm[i] # name
  <2>1. at = {} /\ r = <<>>
    BY <1>1, <1>2 DEF IsFound, nm, v
  <2>2. Meant(name) = <<>>
    BY <2>1, Zenon DEF Meant
  <2>3. /\ Len(<<>>) = 0 /\ 0 + 0 = 0 /\ 0 \in 0..0 /\ 0 \in 0..2
    OBVIOUS
  <2> QED BY <2>1, <2>2, <2>3
<1>3. CASE ~(\A i \in 1..k : nm[i] # name)
  <2>1. PICK i : IsFirst(nm, k, name, i) /\ Begins(r, v[i]) /\ (whole => r = v[i])
    BY <1>3 DEF IsFound, nm, v
  <2>2. i \in at /\ (\A j \in at : i <= j) /\ at \subseteq Int
    <3>1. i \in 1..k /\ nm[i] = name /\ \A j \in 1..k : nm[j] = name => i <= j
      BY <2>1 DEF IsFirst
    <3>2. \A j : j \in at <=> (j \in 1..k /\ nm[j] = name)
      BY <1>1
    <3> HIDE DEF at
    <3> QED BY <3>1, <3>2
  <2>3. Min(at) = i
    <3> HIDE DEF at
    <3> QED BY <2>2, MinIs
  <2>4. Meant(name) = v[i]
    <3>1. at # {} /\ v[i] = sent[i][2]
      BY <1>1, <2>2
    <3> QED BY <2>3, <3>1, Zenon DEF Meant
  <2> QED BY <2>1, <2>4 DEF Begins
<1> QED BY <1>2, <1>3

\* What parse_worker finds in a request that is waiting to be parsed.
Recovers ==
    Fits \/ (/\ Len(OnceDecoded) < RequestBuf
             /\ \A i \in DOMAIN sent : Harmless(sent[i][2]))
    => \A n \in Names : Fields[n] = Meant(n)

KeepsBeginnings ==
    encodings = 2
    => \A n \in Names : \E k \in 0..Len(Meant(n)), g \in 0..2 :
          /\ k + g = Len(Fields[n])
          /\ SubSeq(Fields[n], 1, k) = SubSeq(Meant(n), 1, k)

LEMMA FieldsHold ==
  ASSUME NEW k \in Nat \ {0}, sent \in [1..k -> Names \X Values], encodings \in 1..2,
         body = Body(sent, encodings)
  PROVE  Recovers /\ KeepsBeginnings
<1> DEFINE nm == NamesOf(sent, k)
           v == ValuesOf(sent, k)
           e == CodedOf(sent, k, 1)
           f == CodedOf(sent, k, 2)
           whole == Len(OnceDecoded) < RequestBuf
<1>0. 1 \in 1..2 /\ 2 \in 1..2 /\ encodings \in {1, 2}
  OBVIOUS
<1>1. /\ AreFields(nm, e, k) /\ AreFields(nm, f, k) /\ AreFields(nm, v, k)
      /\ Body(sent, 1) = Joined(nm, e, k) /\ Body(sent, 2) = Joined(nm, f, k)
      /\ \A i \in 1..k : /\ e[i] \in Seq(Clean) /\ Codes(f[i], e[i]) /\ Codes(e[i], v[i])
                         /\ v[i] = sent[i][2] /\ v[i] \in Seq(Symbols)
  BY <1>0, RequestParts
<1>2. OnceDecoded = Joined(nm, e, k) /\ whole \in BOOLEAN
  BY <1>1 DEF OnceDecoded
<1>3. CASE encodings = 2
  <2>1. ASSUME NEW n \in Names PROVE IsFound(Fields[n], n, nm, v, k, whole)
    <3>1. body = Joined(nm, f, k)
      BY <1>1, <1>3
    <3> HIDE DEF nm, v, e, f
    <3>2. IsFound(Fields[n], n, nm, v, k, Len(Joined(nm, e, k)) < RequestBuf)
      BY <1>1, <3>1, FieldsAreFound
    <3> QED BY <1>2, <3>2
  <2>2. ASSUME NEW n \in Names
        PROVE  /\ whole => Fields[n] = Meant(n)
               /\ \E j \in 0..Len(Meant(n)), g \in 0..2 :
                     j + g = Len(Fields[n]) /\ SubSeq(Fields[n], 1, j) = SubSeq(Meant(n), 1, j)
    BY <1>2, <2>1, FoundIsMeant
  <2> QED BY <2>2, Zenon DEF Recovers, KeepsBeginnings, Fits
<1>4. CASE encodings = 1
  <2>1. encodings # 2
    BY <1>4
  <2>2. KeepsBeginnings /\ ~Fits
    BY <2>1 DEF KeepsBeginnings, Fits
  <2>3. ASSUME whole, \A i \in DOMAIN sent : Harmless(sent[i][2]), NEW n \in Names
        PROVE  Fields[n] = Meant(n)
    <3>1. ASSUME NEW i \in 1..k
          PROVE  v[i] \in Seq(Clean) /\ Codes(v[i], v[i])
      <4> DEFINE x == v[i]
      <4>1. Harmless(sent[i][2]) /\ v[i] = sent[i][2] /\ x \in Seq(Symbols)
        BY <1>1, <2>3
      <4> HIDE DEF x
      <4>2. \A j \in 1..Len(x) : x[j] \notin {Escape, And, Plus, Equals} /\ x[j] \in Symbols
        <5>1. DOMAIN x = 1..Len(x) /\ \A j \in 1..Len(x) : x[j] \in Symbols
          BY <4>1, LenProperties, ElementOfSeq
        <5>2. Harmless(x)
          BY <4>1 DEF x
        <5> QED BY <5>1, <5>2 DEF Harmless
      <4>3. \A j \in 1..Len(x) : x[j] \notin {Escape, Plus} /\ x[j] \in Clean
        BY <4>2 DEF Clean
      <4>4. Codes(x, x)
        BY <4>1, <4>3, CodesSelf
      <4>5. x \in Seq(Clean)
        BY <4>1, <4>3, NarrowSeq
      <4> QED BY <4>4, <4>5 DEF x
    <3>2. body = Joined(nm, e, k)
      BY <1>1, <1>4
    <3>3. IsFound(Fields[n], n, nm, v, k, TRUE)
      <4> HIDE DEF nm, v, e, f
      <4> DEFINE D == Joined(nm, e, k)
                 V == Joined(nm, v, k)
                 lD == Len(D)
                 lV == Len(V)
      <4>1. IsFound(Fields[n], n, nm, v, k, Len(Joined(nm, v, k)) < RequestBuf)
        BY <1>1, <3>1, <3>2, FieldsAreFound
      <4>2. Codes(D, V)
        BY <1>1, CodesJoined
      <4>3. lV <= lD /\ lV \in Nat /\ lD \in Nat
        <5> HIDE DEF D, V
        <5> QED BY <4>2, CodesShorter
      <4>4. lD < RequestBuf /\ RequestBuf \in Nat
        BY <1>2, <2>3, BuffersAssumption
      <4>5. lV < RequestBuf
        <5> HIDE DEF lD, lV
        <5> QED BY <4>3, <4>4
      <4> QED BY <4>1, <4>5
    <3> QED BY <3>3, FoundIsMeant
  <2> QED BY <2>2, <2>3, Zenon DEF Recovers
<1> QED BY <1>0, <1>3, <1>4

-----------------------------------------------------------------------------
(* The invariant *)

LEMMA FieldsInitInv == FieldsInit => FieldsInv
  BY DEF FieldsInit, FieldsInv, RequestKept, FieldsRecovered, CutKeepsBeginnings, Parsed

\* A request that has just come is not parsed yet.
LEMMA ReceiveInv == FieldsInv /\ ReceiveFields => FieldsInv'
<1> SUFFICES ASSUME FieldsInv, ReceiveFields PROVE FieldsInv'
  OBVIOUS
<1>1. PICK k \in 1..MaxFields, t \in 1..2 :
        \E fields \in [1..k -> Names \X Values] :
           sent' = fields /\ encodings' = t /\ body' = Body(fields, t)
  BY DEF ReceiveFields
<1>2. PICK fields \in [1..k -> Names \X Values] :
        sent' = fields /\ encodings' = t /\ body' = Body(fields, t)
  BY <1>1
<1>3. k \in Nat \ {0}
  BY BuffersAssumption
<1>4. body' # <<>> /\ sent' # <<>>
  BY <1>2, <1>3, BodyNotEmpty
<1>5. RequestKept'
  BY <1>2, <1>3, <1>4 DEF RequestKept
<1>6. ~Parsed'
  BY <1>4 DEF Parsed
<1> QED BY <1>5, <1>6 DEF FieldsInv, FieldsRecovered, CutKeepsBeginnings

\* The fields come from the request that the client sent.
LEMMA ParseInv == FieldsInv /\ ParseFields(Fields) => FieldsInv'
<1> SUFFICES ASSUME FieldsInv, ParseFields(Fields) PROVE FieldsInv'
  OBVIOUS
<1>1. /\ body # <<>> /\ body' = <<>> /\ found' = Fields
      /\ sent' = sent /\ encodings' = encodings
  BY DEF ParseFields
<1>2. RequestKept
  BY DEF FieldsInv
<1>3. PICK k \in Nat \ {0} : /\ sent \in [1..k -> Names \X Values]
                             /\ body \in {<<>>, Body(sent, encodings)}
  BY <1>1, <1>2 DEF RequestKept
<1>4. encodings \in 1..2 /\ body = Body(sent, encodings)
  BY <1>1, <1>2, <1>3 DEF RequestKept
<1>5. Recovers /\ KeepsBeginnings
  BY <1>3, <1>4, FieldsHold
<1>6. RequestKept'
  BY <1>1, <1>2, <1>3, <1>4 DEF RequestKept
<1>7. \A n : Meant(n)' = Meant(n)
  BY <1>1, Zenon DEF Meant
<1>8. (OnceDecoded' = OnceDecoded) /\ (Fits' = Fits)
  BY <1>1, Zenon DEF OnceDecoded, Fits
<1>9. FieldsRecovered'
  BY <1>1, <1>5, <1>7, <1>8, Zenon DEF FieldsRecovered, Recovers
<1>10. CutKeepsBeginnings'
  BY <1>1, <1>5, <1>7, Zenon DEF CutKeepsBeginnings, KeepsBeginnings
<1> QED BY <1>6, <1>9, <1>10 DEF FieldsInv

LEMMA RetrieveInv == FieldsInv /\ RetrieveFields => FieldsInv'
<1> SUFFICES ASSUME FieldsInv, RetrieveFields PROVE FieldsInv'
  OBVIOUS
<1>1. sent' = <<>> /\ encodings' = 1 /\ body = <<>> /\ body' = body
  BY DEF RetrieveFields
<1>2. RequestKept' /\ ~Parsed'
  BY <1>1 DEF RequestKept, Parsed
<1> QED BY <1>2 DEF FieldsInv, FieldsRecovered, CutKeepsBeginnings

LEMMA FieldsStay == FieldsInv /\ UNCHANGED fieldVars => FieldsInv'
<1> SUFFICES ASSUME FieldsInv, UNCHANGED fieldVars PROVE FieldsInv'
  OBVIOUS
<1>1. sent' = sent /\ encodings' = encodings /\ body' = body /\ found' = found
  BY DEF fieldVars
<1>2. RequestKept'
  BY <1>1 DEF FieldsInv, RequestKept
<1>3. /\ \A n : Meant(n)' = Meant(n)
      /\ (OnceDecoded' = OnceDecoded) /\ (Fits' = Fits) /\ (Parsed' = Parsed)
  BY <1>1, Zenon DEF Meant, OnceDecoded, Fits, Parsed
<1>4. FieldsRecovered' /\ CutKeepsBeginnings'
  BY <1>1, <1>3, Zenon DEF FieldsInv, FieldsRecovered, CutKeepsBeginnings
<1> QED BY <1>2, <1>4 DEF FieldsInv

\* In every state, what has been parsed is what the client meant.  No hypothesis
\* is made of the rest of parse_worker (worker_loader.cpp:69-127).
THEOREM FieldsInvariant == FieldsSpec => []FieldsInv
<1>1. FieldsInv /\ [FieldsNext]_fieldVars => FieldsInv'
  BY ReceiveInv, ParseInv, RetrieveInv, FieldsStay DEF FieldsNext
<1> QED BY <1>1, FieldsInitInv, PTL DEF FieldsSpec

\* A request that fits the buffer gives every field the value the client meant,
\* whatever bytes it holds (parse_worker, parse_content, url_utf8_decode).
THEOREM FieldsAreRecovered == FieldsSpec => []FieldsRecovered
<1>1. FieldsInv => FieldsRecovered
  BY DEF FieldsInv
<1> QED BY <1>1, FieldsInvariant, PTL

\* A longer request gives every field a beginning of its own value, and no byte
\* of another field.
THEOREM CutsKeepBeginnings == FieldsSpec => []CutKeepsBeginnings
<1>1. FieldsInv => CutKeepsBeginnings
  BY DEF FieldsInv
<1> QED BY <1>1, FieldsInvariant, PTL

-----------------------------------------------------------------------------
(* Arrays of JSON values *)

\* The keys of a set of indices.
Keys(I) == {IndexKey(i) : i \in I}

\* v is an array with an element at each index of I.
HasIndices(v, I) == v.type = arrayValue /\ DOMAIN v.m = Keys(I) /\ I \subseteq Nat

\* What size gives an array with these indices.
Spans(I, n) ==
    /\ n \in Nat
    /\ n = 0 => I = {}
    /\ n # 0 => n - 1 \in I /\ \A i \in I : i <= n - 1

LEMMA KeyOf ==
  ASSUME NEW I, NEW i
  PROVE  /\ IndexKey(i) \in Keys(I) <=> i \in I
         /\ IndexKey(i)[1] = i
<1>1. \A j : IndexKey(j)[1] = j
  BY DEF IndexKey
<1>2. ASSUME IndexKey(i) \in Keys(I) PROVE i \in I
  <2>1. PICK j \in I : IndexKey(i) = IndexKey(j)
    BY <1>2 DEF Keys
  <2> QED BY <1>1, <2>1
<1> QED BY <1>1, <1>2 DEF Keys

LEMMA MaxIs ==
  ASSUME NEW T, T \subseteq Int, NEW x \in T, \A y \in T : y <= x
  PROVE  Max(T) = x
<1> DEFINE P(y) == y \in T /\ \A z \in T : z <= y
<1>1. P(x)
  OBVIOUS
<1>2. ASSUME NEW y, P(y) PROVE y = x
  <2>1. x \in Int /\ y \in Int /\ x <= y /\ y <= x
    BY <1>2
  <2> QED BY <2>1
<1>3. Max(T) = CHOOSE y \in T : \A z \in T : z <= y
  BY DEF Max
<1>4. P(Max(T))
  BY <1>1, <1>3, Zenon
<1> HIDE DEF P
<1> QED BY <1>2, <1>4

LEMMA SizeIs ==
  ASSUME NEW v, NEW I, HasIndices(v, I), NEW n, Spans(I, n)
  PROVE  size(v) = n
<1> DEFINE T == {k[1] : k \in DOMAIN v.m}
<1>1. T = I
  <2>1. ASSUME NEW k \in Keys(I) PROVE k[1] \in I
    <3>1. PICK i \in I : k = IndexKey(i)
      BY <2>1 DEF Keys
    <3> QED BY <3>1, KeyOf
  <2>2. ASSUME NEW i \in I PROVE \E k \in Keys(I) : i = k[1]
    <3>1. IndexKey(i) \in Keys(I) /\ IndexKey(i)[1] = i
      BY KeyOf
    <3> QED BY <3>1
  <2> QED BY <2>1, <2>2 DEF HasIndices
<1>2. CASE n = 0
  <2>1. DOMAIN v.m = {} /\ v.type = arrayValue
    BY <1>2 DEF HasIndices, Spans, Keys
  <2> QED BY <1>2, <2>1 DEF size, arrayValue, objectValue
<1>3. CASE n # 0
  <2>1. n - 1 \in I /\ n \in Nat /\ I \subseteq Int /\ \A i \in I : i <= n - 1
    BY <1>3 DEF Spans, HasIndices
  <2>2. Max(I) = n - 1
    <3> DEFINE x == n - 1
    <3> HIDE DEF x
    <3> QED BY <2>1, MaxIs DEF x
  <2>3. IndexKey(n - 1) \in DOMAIN v.m
    BY <2>1, KeyOf DEF HasIndices
  <2>4. DOMAIN v.m # {} /\ v.type = arrayValue
    BY <2>3 DEF HasIndices
  <2>5. size(v) = Max(T) + 1
    BY <2>4 DEF size, arrayValue, objectValue
  <2> HIDE DEF T
  <2> QED BY <1>1, <2>1, <2>2, <2>5
<1> QED BY <1>2, <1>3

\* A set of indices below a bound has a greatest one.
LEMMA SpanExists ==
  ASSUME NEW N \in Nat, NEW I, I \subseteq 0..N
  PROVE  \E n \in 0..(N + 1) : Spans(I, n)
<1> DEFINE U == {u \in Nat : \A i \in I : i < u}
<1>1. N + 1 \in U /\ U \subseteq Nat
  OBVIOUS
<1>2. PICK n \in U : \A u \in U : n <= u
  BY <1>1, LeastNatural
<1>3. n \in 0..(N + 1)
  BY <1>1, <1>2
<1>4. CASE n = 0
  BY <1>2, <1>3, <1>4 DEF Spans
<1>5. CASE n # 0
  <2>1. n - 1 \in Nat /\ n - 1 \notin U
    BY <1>2, <1>5
  <2>2. PICK i \in I : ~(i < n - 1)
    BY <2>1
  <2>3. i = n - 1
    BY <1>2, <2>1, <2>2
  <2> QED BY <1>2, <1>3, <1>5, <2>2, <2>3 DEF Spans
<1> QED BY <1>4, <1>5

\* The sequence that an array stands for.
LEMMA ElementsAre ==
  ASSUME NEW w, NEW J, HasIndices(w, J), NEW n, Spans(J, n),
         NEW S, NEW q \in Seq(S), Len(q) = n,
         \A i \in 1..n : q[i] = IF i - 1 \in J THEN w.m[IndexKey(i - 1)] ELSE Null
  PROVE  size(w) = n /\ Elements(w) = q
<1>1. size(w) = n
  BY SizeIs
<1>2. ASSUME NEW i \in 1..n PROVE Element(w, i - 1) = q[i]
  <2> DEFINE k == IndexKey(i - 1)
  <2>1. w.type = arrayValue /\ (k \in DOMAIN w.m <=> i - 1 \in J)
    BY KeyOf DEF HasIndices
  <2>2. Element(w, i - 1) = IF k \in DOMAIN w.m THEN w.m[k] ELSE Null
    BY <2>1 DEF Element
  <2> QED BY <2>1, <2>2
<1>3. q = [i \in 1..n |-> q[i]]
  <2>1. q \in [1..n -> S]
    BY LenProperties
  <2> QED BY <2>1
<1>4. Elements(w) = [i \in 1..n |-> Element(w, i - 1)]
  BY <1>1 DEF Elements
<1>5. [i \in 1..n |-> Element(w, i - 1)] = [i \in 1..n |-> q[i]]
  BY <1>2
<1> QED BY <1>1, <1>3, <1>4, <1>5

Stored == Items \cup {Null}

\* v is an array of stored values, with these indices.
IsArray(v, I) ==
    /\ v = [type |-> arrayValue, n |-> 0, s |-> <<>>, m |-> v.m]
    /\ v.m \in [Keys(I) -> Stored] /\ I \subseteq Nat

\* The values at the indices of w.
Gives(w, J, f) == \A j \in J : w.m[IndexKey(j)] = f[j]

LEMMA ArrayHas ==
  ASSUME NEW v, NEW I, IsArray(v, I)
  PROVE  /\ HasIndices(v, I) /\ v.type = arrayValue
         /\ \A i \in I : v.m[IndexKey(i)] \in Stored
<1>1. v.type = arrayValue
  BY DEF IsArray
<1>2. DOMAIN v.m = Keys(I) /\ I \subseteq Nat /\ \A k \in Keys(I) : v.m[k] \in Stored
  BY DEF IsArray
<1>3. \A i \in I : IndexKey(i) \in Keys(I)
  BY KeyOf
<1> QED BY <1>1, <1>2, <1>3 DEF HasIndices

\* Another map in an array.
LEMMA MapChanged ==
  ASSUME NEW v, NEW I, IsArray(v, I), NEW J, J \subseteq Nat, NEW f \in [Keys(J) -> Stored]
  PROVE  IsArray([v EXCEPT !.m = f], J) /\ [v EXCEPT !.m = f].m = f
<1>1. [v EXCEPT !.m = f] = [type |-> arrayValue, n |-> 0, s |-> <<>>, m |-> f]
  BY DEF IsArray
<1> QED BY <1>1 DEF IsArray

LEMMA KeysUnion ==
  ASSUME NEW I, NEW i
  PROVE  Keys(I) \cup {IndexKey(i)} = Keys(I \cup {i})
  BY DEF Keys

LEMMA MadeIs ==
  ASSUME NEW v, NEW I, IsArray(v, I), NEW i \in Nat
  PROVE  /\ IsArray(ElementMade(v, i), I \cup {i})
         /\ \A j \in I \cup {i} :
               ElementMade(v, i).m[IndexKey(j)] = IF j \in I THEN v.m[IndexKey(j)] ELSE Null
<1> DEFINE k == IndexKey(i)
           w == ElementMade(v, i)
<1>1. v.type = arrayValue /\ DOMAIN v.m = Keys(I) /\ I \subseteq Nat
  BY ArrayHas DEF HasIndices
<1>2. w = WithKey(v, k)
  BY <1>1 DEF ElementMade, Become, arrayValue, nullValue
<1>3. CASE i \in I
  <2>1. k \in DOMAIN v.m /\ I \cup {i} = I
    BY <1>1, <1>3, KeyOf
  <2>2. w = v
    BY <1>2, <2>1 DEF WithKey
  <2> HIDE DEF w
  <2> QED BY <2>1, <2>2 DEF w
<1>4. CASE i \notin I
  <2> DEFINE f == Updated(v.m, [x \in {k} |-> Null])
             J == I \cup {i}
  <2>1. k \notin DOMAIN v.m
    BY <1>1, <1>4, KeyOf
  <2>2. w = [v EXCEPT !.m = f]
    BY <1>2, <2>1 DEF WithKey
  <2>3. DOMAIN v.m \cup {k} = Keys(J)
    BY <1>1, KeysUnion
  <2>4. f = [y \in Keys(J) |-> IF y \in {k} THEN Null ELSE v.m[y]]
    <3>1. DOMAIN [x \in {k} |-> Null] = {k} /\ \A y \in {k} : [x \in {k} |-> Null][y] = Null
      OBVIOUS
    <3> QED BY <2>3, <3>1 DEF Updated
  <2>5. f \in [Keys(J) -> Stored]
    <3>1. \A y \in Keys(J) : y = k \/ v.m[y] \in Stored
      BY <2>3 DEF IsArray
    <3>2. Null \in Stored
      BY DEF Stored
    <3> QED BY <2>4, <3>1, <3>2
  <2>6. J \subseteq Nat
    BY <1>1
  <2>7. \A j \in J : f[IndexKey(j)] = IF j \in I THEN v.m[IndexKey(j)] ELSE Null
    <3>1. \A j \in J : IndexKey(j) \in Keys(J) /\ (IndexKey(j) = k <=> j = i)
      BY KeyOf
    <3> QED BY <1>4, <2>4, <3>1
  <2> HIDE DEF f, J, w
  <2>8. IsArray(w, J) /\ w.m = f
    BY <2>2, <2>5, <2>6, MapChanged
  <2> QED BY <2>7, <2>8 DEF w, J
<1> QED BY <1>3, <1>4

LEMMA AssignedIs ==
  ASSUME NEW w, NEW J, IsArray(w, J), w # Thrown, NEW i \in J, NEW x \in Stored
  PROVE  /\ IsArray(Assigned(w, IndexKey(i), x), J)
         /\ \A j \in J : Assigned(w, IndexKey(i), x).m[IndexKey(j)] = IF j = i THEN x ELSE w.m[IndexKey(j)]
<1> DEFINE k == IndexKey(i)
           f == [w.m EXCEPT ![k] = x]
           r == Assigned(w, k, x)
<1>1. w.m \in [Keys(J) -> Stored] /\ J \subseteq Nat /\ k \in Keys(J)
  BY KeyOf DEF IsArray
<1>2. r = [w EXCEPT !.m = f]
  BY DEF Assigned
<1>3. f \in [Keys(J) -> Stored]
  BY <1>1
<1>4. \A j \in J : f[IndexKey(j)] = IF j = i THEN x ELSE w.m[IndexKey(j)]
  <2>1. \A j \in J : IndexKey(j) \in Keys(J) /\ (IndexKey(j) = k <=> j = i)
    BY KeyOf
  <2> QED BY <1>1, <2>1
<1> HIDE DEF f, r
<1>5. IsArray(r, J) /\ r.m = f
  BY <1>1, <1>2, <1>3, MapChanged
<1> QED BY <1>4, <1>5 DEF r

LEMMA WithoutIs ==
  ASSUME NEW v, NEW I, IsArray(v, I), NEW R, NEW K, K = Keys(R)
  PROVE  /\ IsArray(Without(v, K), I \ R)
         /\ \A j \in I \ R : Without(v, K).m[IndexKey(j)] = v.m[IndexKey(j)]
<1> DEFINE J == I \ R
           f == Restrict(v.m, DOMAIN v.m \ K)
           r == Without(v, K)
<1>1. v.m \in [Keys(I) -> Stored] /\ DOMAIN v.m = Keys(I) /\ J \subseteq Nat
  BY DEF IsArray
<1>2. r = [v EXCEPT !.m = f]
  BY DEF Without
<1>3. Keys(I) \ K = Keys(J)
  <2>1. \A i : IndexKey(i) \in K <=> i \in R
    BY KeyOf
  <2> QED BY <2>1, KeyOf DEF Keys
<1>4. f = [y \in Keys(J) |-> v.m[y]]
  BY <1>1, <1>3 DEF Restrict
<1>5. f \in [Keys(J) -> Stored]
  BY <1>1, <1>3, <1>4
<1>6. \A j \in J : f[IndexKey(j)] = v.m[IndexKey(j)]
  BY <1>4, KeyOf
<1> HIDE DEF f, r, J
<1>7. IsArray(r, J) /\ r.m = f
  BY <1>1, <1>2, <1>5, MapChanged
<1> QED BY <1>6, <1>7 DEF r, J

\* v is an array of n elements without holes.
IsList(v, n) == IsArray(v, 0..(n - 1)) /\ n \in Nat

LEMMA ListSpans ==
  ASSUME NEW n \in Nat
  PROVE  Spans(0..(n - 1), n) /\ 0..(n - 1) \subseteq Nat
  BY DEF Spans

LEMMA ListIs ==
  ASSUME NEW v, NEW n, IsList(v, n)
  PROVE  /\ size(v) = n /\ n \in Nat
         /\ Elements(v) \in Seq(Stored) /\ Len(Elements(v)) = n
         /\ \A i \in 1..n : Elements(v)[i] = v.m[IndexKey(i - 1)] /\ v.m[IndexKey(i - 1)] \in Stored
<1> DEFINE e == [i \in 1..n |-> v.m[IndexKey(i - 1)]]
           I == 0..(n - 1)
<1>1. n \in Nat /\ IsArray(v, I) /\ Spans(I, n)
  BY ListSpans DEF IsList
<1>2. HasIndices(v, I) /\ \A j \in I : v.m[IndexKey(j)] \in Stored
  BY <1>1, ArrayHas
<1>3. \A i \in 1..n : i - 1 \in I
  BY <1>1
<1>4. e \in Seq(Stored) /\ Len(e) = n /\ \A i \in 1..n : e[i] = v.m[IndexKey(i - 1)]
  <2>1. e \in [1..n -> Stored]
    BY <1>2, <1>3
  <2>2. \A i \in 1..n : e[i] = v.m[IndexKey(i - 1)]
    OBVIOUS
  <2> HIDE DEF e
  <2> QED BY <1>1, <2>1, <2>2, SeqDef
<1>5. \A i \in 1..n : e[i] = IF i - 1 \in I THEN v.m[IndexKey(i - 1)] ELSE Null
  BY <1>3, <1>4
<1> HIDE DEF e, I
<1>6. size(v) = n /\ Elements(v) = e
  BY <1>1, <1>2, <1>4, <1>5, ElementsAre
<1> QED BY <1>1, <1>2, <1>3, <1>4, <1>6

LEMMA ListDense ==
  ASSUME NEW v, NEW n, IsList(v, n)
  PROVE  Dense(v)
<1>1. size(v) = n /\ HasIndices(v, 0..(n - 1))
  BY ListIs, ArrayHas DEF IsList
<1> QED BY <1>1 DEF Dense, HasIndices, Keys

\* A list whose elements are those of q.
LEMMA ListOf ==
  ASSUME NEW w, NEW n, IsList(w, n), NEW S, NEW q \in Seq(S), Len(q) = n,
         \A i \in 1..n : w.m[IndexKey(i - 1)] = q[i]
  PROVE  Dense(w) /\ Elements(w) = q
<1>1. /\ Elements(w) \in Seq(Stored) /\ Len(Elements(w)) = n /\ n \in Nat
      /\ \A i \in 1..n : Elements(w)[i] = w.m[IndexKey(i - 1)]
  BY ListIs
<1> DEFINE e == Elements(w)
<1> HIDE DEF e
<1>2. e \in [1..n -> Stored] /\ q \in [1..n -> S]
  BY <1>1, LenProperties DEF e
<1>3. \A i \in 1..n : e[i] = q[i]
  BY <1>1 DEF e
<1>4. e = q
  BY <1>2, <1>3
<1> QED BY <1>4, ListDense DEF e

LEMMA Appended ==
  ASSUME NEW v, NEW n, IsList(v, n), NEW x \in Stored, ElementMade(v, n) # Thrown
  PROVE  Dense(append(v, x)) /\ Elements(append(v, x)) = Append(Elements(v), x)
<1> DEFINE e == Elements(v)
           I == 0..(n - 1)
           J == I \cup {n}
           w == ElementMade(v, n)
           r == Assigned(w, IndexKey(n), x)
           q == Append(e, x)
<1>1. /\ size(v) = n /\ n \in Nat /\ e \in Seq(Stored) /\ Len(e) = n
      /\ \A i \in 1..n : e[i] = v.m[IndexKey(i - 1)]
  BY ListIs
<1>2. append(v, x) = r
  BY <1>1 DEF append
<1>3. J = 0..((n + 1) - 1) /\ n \in J /\ n + 1 \in Nat
  BY <1>1
<1>4. IsArray(v, I)
  BY DEF IsList
<1> HIDE DEF I
<1>5. IsArray(w, J) /\ \A j \in J : w.m[IndexKey(j)] = IF j \in I THEN v.m[IndexKey(j)] ELSE Null
  <2>1. n \in Nat
    BY <1>1
  <2> QED BY <1>4, <2>1, MadeIs
<1> HIDE DEF e, w, J
<1>6. IsArray(r, J) /\ \A j \in J : r.m[IndexKey(j)] = IF j = n THEN x ELSE w.m[IndexKey(j)]
  BY <1>3, <1>5, AssignedIs DEF w
<1>7. IsList(r, n + 1)
  BY <1>3, <1>6 DEF IsList
<1>8. q \in Seq(Stored) /\ Len(q) = n + 1 /\ q[n + 1] = x /\ \A i \in 1..n : q[i] = e[i]
  BY <1>1, AppendProperties
<1> HIDE DEF r, q
<1>9. ASSUME NEW i \in 1..(n + 1) PROVE r.m[IndexKey(i - 1)] = q[i]
  <2>1. CASE i = n + 1
    <3>1. i - 1 = n
      BY <1>1, <2>1
    <3> QED BY <1>3, <1>6, <1>8, <2>1, <3>1
  <2>2. CASE i # n + 1
    <3>1. i \in 1..n /\ i - 1 \in I /\ i - 1 \in J /\ i - 1 # n
      BY <1>1, <2>2 DEF I, J
    <3>2. r.m[IndexKey(i - 1)] = v.m[IndexKey(i - 1)]
      BY <1>5, <1>6, <3>1
    <3> QED BY <1>1, <1>8, <3>1, <3>2
  <2> QED BY <2>1, <2>2
<1>10. Dense(r) /\ Elements(r) = q
  BY <1>7, <1>8, <1>9, ListOf
<1> QED BY <1>2, <1>10 DEF q, e

\* What resize leaves when it drops elements.
LEMMA ShrinksTo ==
  ASSUME NEW v, NEW n, IsList(v, n), NEW i \in 0..(n - 1)
  PROVE  /\ IsArray(resize(v, i), 0..(i - 1))
         /\ Elements(resize(v, i)) = SubSeq(Elements(v), 1, i)
<1> DEFINE e == Elements(v)
           I == 0..(n - 1)
           J == 0..(i - 1)
           R == i..(n - 1)
           K == {IndexKey(j) : j \in R}
           w == resize(v, i)
           q == SubSeq(e, 1, i)
<1>1. /\ size(v) = n /\ n \in Nat /\ e \in Seq(Stored) /\ Len(e) = n
      /\ \A j \in 1..n : e[j] = v.m[IndexKey(j - 1)]
  BY ListIs
<1>2. IsArray(v, I) /\ v.type = arrayValue
  BY ArrayHas DEF IsList
<1>3. i \in Nat /\ i <= n /\ I \ R = J /\ Spans(J, i) /\ J \subseteq Nat /\ ~(i > n)
  BY <1>1, ListSpans
<1>4. K = Keys(R)
  BY DEF Keys
<1>5. /\ IsArray(w, J) /\ \A j \in J : w.m[IndexKey(j)] = v.m[IndexKey(j)]
  <2>1. CASE i = 0
    <3>1. w = clear(v)
      BY <1>1, <1>2, <1>3, <2>1 DEF resize, Become, arrayValue, nullValue
    <3>2. w = [v EXCEPT !.m = <<>>]
      BY <1>2, <3>1 DEF clear, isContainer
    <3>3. J = {} /\ Keys(J) = {}
      BY <2>1 DEF Keys
    <3>4. <<>> \in [Keys(J) -> Stored]
      BY <3>3
    <3> HIDE DEF I, w, J
    <3>5. IsArray(w, J)
      BY <1>2, <1>3, <3>2, <3>4, MapChanged
    <3> QED BY <3>3, <3>5
  <2>2. CASE i # 0
    <3>1. w = Shrunk(v, i)
      BY <1>1, <1>2, <1>3, <2>2 DEF resize, arrayValue
    <3> DEFINE r == Without(v, K)
    <3>2. /\ IsArray(r, J) /\ \A j \in J : r.m[IndexKey(j)] = v.m[IndexKey(j)]
      <4> HIDE DEF I, J, K, R
      <4> QED BY <1>2, <1>3, <1>4, WithoutIs
    <3>3. size(r) = i
      BY <1>3, <3>2, ArrayHas, SizeIs
    <3>4. w = r
      BY <1>1, <3>1, <3>3 DEF Shrunk
    <3> HIDE DEF w, r
    <3> QED BY <3>2, <3>4
  <2> QED BY <2>1, <2>2
<1>6. q \in Seq(Stored) /\ Len(q) = i /\ \A j \in 1..i : q[j] = e[j]
  <2> HIDE DEF e
  <2>1. 0 + 1 = 1 /\ 0 <= i /\ i - 0 = i /\ \A j \in 1..i : 0 + j = j
    BY <1>3
  <2>2. IsPart(Stored, e, SubSeq(e, 0 + 1, i), 0, i)
    BY <1>1, <1>3, <2>1, PartIs
  <2>3. IsPart(Stored, e, q, 0, i)
    BY <2>1, <2>2
  <2> HIDE DEF q
  <2> QED BY <2>1, <2>3 DEF IsPart
<1> HIDE DEF e, w, q
<1>7. \A j \in 1..i : w.m[IndexKey(j - 1)] = q[j]
  <2>1. \A j \in 1..i : j \in 1..n /\ j - 1 \in J
    BY <1>1, <1>3
  <2> QED BY <1>1, <1>5, <1>6, <2>1
<1>8. IsList(w, i)
  BY <1>3, <1>5 DEF IsList
<1>9. Elements(w) = q
  BY <1>6, <1>7, <1>8, ListOf
<1> QED BY <1>5, <1>9 DEF w, q, e

\* A value at an index of a list.
LEMMA ElementIs ==
  ASSUME NEW v, NEW n, IsList(v, n), NEW j \in 0..(n - 1)
  PROVE  Element(v, j) = v.m[IndexKey(j)] /\ v.m[IndexKey(j)] \in Stored
<1>1. IsArray(v, 0..(n - 1))
  BY DEF IsList
<1>2. HasIndices(v, 0..(n - 1)) /\ v.m[IndexKey(j)] \in Stored
  BY <1>1, ArrayHas
<1>3. IndexKey(j) \in DOMAIN v.m /\ v.type = arrayValue
  BY <1>2, KeyOf DEF HasIndices
<1> QED BY <1>2, <1>3 DEF Element

\* What removeIndex leaves: the elements behind the one removed move down.
LEMMA Moved ==
  ASSUME NEW v, NEW n, IsList(v, n), NEW i \in 0..(n - 1)
  PROVE  /\ IsList(removeIndex(v, i), n - 1)
         /\ \A j \in 0..(n - 2) : removeIndex(v, i).m[IndexKey(j)]
                                    = IF j < i THEN v.m[IndexKey(j)] ELSE v.m[IndexKey(j + 1)]
<1> DEFINE I == 0..(n - 1)
           last == n - 1
           R == i..(last - 1)
           K == {IndexKey(j) : j \in R}
           moved == [k \in K |-> Element(v, k[1] + 1)]
           f == Updated(v.m, moved)
           y == [v EXCEPT !.m = f]
           D == {IndexKey(last)}
           w == Without(y, D)
<1>1. size(v) = n /\ n \in Nat
  BY ListIs
<1>2. IsArray(v, I) /\ v.type = arrayValue /\ DOMAIN v.m = Keys(I)
  BY ArrayHas DEF IsList, HasIndices
<1>3. /\ IndexKey(i) \in DOMAIN v.m /\ i \in Nat /\ last \in Nat /\ R \subseteq I /\ I \subseteq Nat
      /\ \A j \in R : j + 1 \in I
  BY <1>1, <1>2, KeyOf
<1>4. removeIndex(v, i) = w
  BY <1>1, <1>2, <1>3 DEF removeIndex
<1>5. \A j \in I : Element(v, j) = v.m[IndexKey(j)] /\ v.m[IndexKey(j)] \in Stored
  BY ElementIs
<1>6. /\ K = Keys(R) /\ DOMAIN moved = K
      /\ \A j \in R : moved[IndexKey(j)] = v.m[IndexKey(j + 1)] /\ moved[IndexKey(j)] \in Stored
  <2>1. K = Keys(R) /\ DOMAIN moved = K
    BY DEF Keys
  <2>2. ASSUME NEW j \in R PROVE moved[IndexKey(j)] = v.m[IndexKey(j + 1)] /\ moved[IndexKey(j)] \in Stored
    <3>1. IndexKey(j) \in K /\ IndexKey(j)[1] = j
      BY KeyOf
    <3>2. moved[IndexKey(j)] = Element(v, j + 1)
      BY <3>1
    <3> QED BY <1>3, <1>5, <3>2
  <2> QED BY <2>1, <2>2
<1> HIDE DEF moved, K
<1>7. /\ f \in [Keys(I) -> Stored]
      /\ \A j \in I : f[IndexKey(j)] = IF j \in R THEN v.m[IndexKey(j + 1)] ELSE v.m[IndexKey(j)]
  <2>1. \A j : IndexKey(j) \in K <=> j \in R
    BY <1>6, KeyOf
  <2>2. Keys(I) \cup K = Keys(I)
    BY <1>3, <1>6 DEF Keys
  <2>3. f = [k \in Keys(I) |-> IF k \in K THEN moved[k] ELSE v.m[k]]
    BY <1>2, <1>6, <2>2 DEF Updated
  <2>4. ASSUME NEW j \in I
        PROVE f[IndexKey(j)] = IF j \in R THEN v.m[IndexKey(j + 1)] ELSE v.m[IndexKey(j)]
    <3>1. IndexKey(j) \in Keys(I)
      BY KeyOf
    <3> QED BY <1>6, <2>1, <2>3, <3>1
  <2>5. ASSUME NEW k \in Keys(I) PROVE f[k] \in Stored
    <3>1. PICK j \in I : k = IndexKey(j)
      BY DEF Keys
    <3> QED BY <1>3, <1>5, <2>4, <3>1
  <2> QED BY <2>3, <2>4, <2>5
<1> HIDE DEF f
<1>8. IsArray(y, I) /\ y.m = f
  BY <1>2, <1>3, <1>7, MapChanged
<1>9. D = Keys({last})
  BY DEF Keys
<1>10. I \ {last} = 0..((n - 1) - 1) /\ last = n - 1 /\ 0..((n - 1) - 1) = 0..(n - 2)
  BY <1>1
<1> HIDE DEF y, w, D, I, last
<1>11. IsArray(w, I \ {last}) /\ \A j \in I \ {last} : w.m[IndexKey(j)] = y.m[IndexKey(j)]
  BY <1>8, <1>9, WithoutIs DEF w
<1>12. IsList(w, n - 1)
  BY <1>3, <1>10, <1>11 DEF IsList
<1>13. ASSUME NEW j \in 0..(n - 2)
       PROVE  w.m[IndexKey(j)] = IF j < i THEN v.m[IndexKey(j)] ELSE v.m[IndexKey(j + 1)]
  <2>1. j \in I \ {last} /\ j \in I
    BY <1>10
  <2>2. w.m[IndexKey(j)] = IF j \in R THEN v.m[IndexKey(j + 1)] ELSE v.m[IndexKey(j)]
    BY <1>7, <1>8, <1>11, <2>1
  <2>3. j \in R <=> ~(j < i)
    BY <1>1, <1>3 DEF last
  <2> QED BY <2>2, <2>3
<1> QED BY <1>4, <1>12, <1>13

LEMMA Removed ==
  ASSUME NEW v, NEW n, IsList(v, n), NEW i \in 0..(n - 1)
  PROVE  /\ Dense(removeIndex(v, i))
         /\ Elements(removeIndex(v, i)) = RemoveAt(Elements(v), i + 1)
<1> DEFINE e == Elements(v)
           w == removeIndex(v, i)
           p == SubSeq(e, 1, i)
           r == SubSeq(e, i + 2, n)
           q == Cat(p, r)
<1>1. /\ size(v) = n /\ n \in Nat /\ e \in Seq(Stored) /\ Len(e) = n
      /\ \A j \in 1..n : e[j] = v.m[IndexKey(j - 1)]
  BY ListIs
<1>2. i \in Nat /\ i <= n /\ i + 1 \in Nat /\ i + 1 <= n /\ n - (i + 1) \in Nat
  BY <1>1
<1>3. RemoveAt(e, i + 1) = q
  <2>1. (i + 1) - 1 = i /\ (i + 1) + 1 = i + 2
    BY <1>2
  <2> QED BY <1>1, <2>1 DEF RemoveAt, Cat
<1>4. /\ IsList(w, n - 1)
      /\ \A j \in 0..(n - 2) : w.m[IndexKey(j)] = IF j < i THEN v.m[IndexKey(j)] ELSE v.m[IndexKey(j + 1)]
  BY Moved
<1> HIDE DEF e, w
<1>5. p \in Seq(Stored) /\ Len(p) = i /\ \A j \in 1..i : p[j] = e[j]
  <2>1. 0 + 1 = 1 /\ 0 <= i /\ i - 0 = i /\ \A j \in 1..i : 0 + j = j
    BY <1>2
  <2>2. IsPart(Stored, e, SubSeq(e, 0 + 1, i), 0, i)
    BY <1>1, <1>2, <2>1, PartIs
  <2>3. IsPart(Stored, e, p, 0, i)
    BY <2>1, <2>2
  <2> HIDE DEF p
  <2> QED BY <2>1, <2>3 DEF IsPart
<1>6. r \in Seq(Stored) /\ Len(r) = n - (i + 1) /\ \A j \in 1..(n - (i + 1)) : r[j] = e[(i + 1) + j]
  <2> DEFINE a == i + 1
  <2>1. a + 1 = i + 2 /\ a \in Nat /\ a <= n
    BY <1>2
  <2> HIDE DEF a
  <2>2. IsPart(Stored, e, SubSeq(e, a + 1, n), a, n)
    BY <1>1, <2>1, PartIs
  <2>3. IsPart(Stored, e, r, a, n)
    BY <2>1, <2>2
  <2> HIDE DEF r
  <2>4. r \in Seq(Stored) /\ Len(r) = n - a /\ \A j \in 1..(n - a) : r[j] = e[a + j]
    BY <2>3 DEF IsPart
  <2> QED BY <2>4 DEF a
<1> HIDE DEF p, r
<1>7. IsCat(Stored, p, r)
  BY <1>5, <1>6, CatAt
<1>8. /\ q \in Seq(Stored) /\ Len(q) = i + (n - (i + 1))
      /\ \A j \in 1..i : q[j] = p[j]
      /\ \A j \in 1..(n - (i + 1)) : q[i + j] = r[j]
  BY <1>5, <1>6, <1>7 DEF IsCat
<1> HIDE DEF q
<1>9. ASSUME NEW j \in 1..(n - 1) PROVE w.m[IndexKey(j - 1)] = q[j]
  <2>1. j - 1 \in 0..(n - 2) /\ j \in 1..n /\ j + 1 \in 1..n /\ (j - 1) + 1 = j /\ (j + 1) - 1 = j
    BY <1>1
  <2>2. CASE j <= i
    <3>1. j - 1 < i /\ j \in 1..i
      BY <1>2, <2>2
    <3> QED BY <1>1, <1>4, <1>5, <1>8, <2>1, <3>1
  <2>3. CASE j > i
    <3>1. ~(j - 1 < i) /\ j - i \in 1..(n - (i + 1)) /\ i + (j - i) = j /\ (i + 1) + (j - i) = j + 1
      BY <1>1, <1>2, <2>3
    <3>2. q[j] = e[j + 1]
      BY <1>6, <1>8, <3>1
    <3>3. e[j + 1] = v.m[IndexKey(j)]
      BY <1>1, <2>1
    <3> QED BY <1>4, <2>1, <3>1, <3>2, <3>3
  <2> QED BY <1>2, <2>2, <2>3
<1>10. i + (n - (i + 1)) = n - 1
  BY <1>1, <1>2
<1>11. Dense(w) /\ Elements(w) = q
  <2>1. Len(q) = n - 1 /\ q \in Seq(Stored)
    BY <1>8, <1>10
  <2> QED BY <1>4, <1>9, <2>1, ListOf
<1> QED BY <1>3, <1>11 DEF w, e

\* resize makes the last of the new elements only; the one before it is a hole,
\* which reads as a null.
LEMMA Grown ==
  ASSUME NEW v, NEW n, IsList(v, n)
  PROVE  Elements(resize(v, n + 2)) = Elements(v) \o <<Null, Null>>
<1> DEFINE e == Elements(v)
           I == 0..(n - 1)
           J == I \cup {n + 1}
           w == ElementMade(v, n + 1)
           z == <<Null, Null>>
           q == Cat(e, z)
<1>1. /\ size(v) = n /\ n \in Nat /\ e \in Seq(Stored) /\ Len(e) = n
      /\ \A j \in 1..n : e[j] = v.m[IndexKey(j - 1)]
  BY ListIs
<1>2. IsArray(v, I) /\ v.type = arrayValue
  BY ArrayHas DEF IsList
<1>3. n + 1 \in Nat /\ n + 2 # 0 /\ n + 2 > n /\ (n + 2) - 1 = n + 1 /\ n + 2 \in Nat /\ I \subseteq Nat
  BY <1>1
<1>4. resize(v, n + 2) = w
  BY <1>1, <1>2, <1>3 DEF resize, arrayValue
<1>5. IsArray(w, J) /\ \A j \in J : w.m[IndexKey(j)] = IF j \in I THEN v.m[IndexKey(j)] ELSE Null
  <2> DEFINE k == n + 1
  <2>1. k \in Nat
    BY <1>3
  <2> HIDE DEF k, I
  <2>2. /\ IsArray(ElementMade(v, k), I \cup {k})
        /\ \A j \in I \cup {k} : ElementMade(v, k).m[IndexKey(j)]
                                   = IF j \in I THEN v.m[IndexKey(j)] ELSE Null
    BY <1>2, <2>1, MadeIs
  <2> QED BY <2>2 DEF k
<1>6. Spans(J, n + 2)
  <2>1. (n + 2) - 1 \in J /\ \A j \in J : j <= (n + 2) - 1
    BY <1>1
  <2> QED BY <1>3, <2>1 DEF Spans
<1>7. z \in Seq(Stored) /\ Len(z) = 2 /\ z[1] = Null /\ z[2] = Null
  <2>1. Null \in Stored
    BY DEF Stored
  <2> QED BY <2>1
<1> HIDE DEF e, w, z
<1>8. IsCat(Stored, e, z)
  BY <1>1, <1>7, CatAt
<1>9. /\ q \in Seq(Stored) /\ Len(q) = n + 2
      /\ \A j \in 1..n : q[j] = e[j]
      /\ q[n + 1] = Null /\ q[n + 2] = Null
  <2>1. 1 \in 1..Len(z) /\ 2 \in 1..Len(z)
    BY <1>7
  <2> QED BY <1>1, <1>7, <1>8, <2>1 DEF IsCat
<1> HIDE DEF q
<1>10. ASSUME NEW j \in 1..(n + 2)
       PROVE  q[j] = IF j - 1 \in J THEN w.m[IndexKey(j - 1)] ELSE Null
  <2>1. CASE j \in 1..n
    <3>1. j - 1 \in J /\ j - 1 \in I
      BY <1>1, <2>1
    <3> QED BY <1>1, <1>5, <1>9, <2>1, <3>1
  <2>2. CASE j = n + 1
    <3>1. j - 1 \notin J
      BY <1>1, <2>2
    <3> QED BY <1>9, <2>2, <3>1
  <2>3. CASE j = n + 2
    <3>1. j - 1 \in J /\ j - 1 \notin I
      BY <1>1, <2>3
    <3> QED BY <1>5, <1>9, <2>3, <3>1
  <2> QED BY <1>1, <2>1, <2>2, <2>3
<1> HIDE DEF J
<1>11. HasIndices(w, J)
  BY <1>5, ArrayHas
<1>12. Elements(w) = q
  BY <1>6, <1>9, <1>10, <1>11, ElementsAre
<1> QED BY <1>4, <1>12 DEF q, e, z, Cat

-----------------------------------------------------------------------------
(* The values that calls lead to *)

IsObject(v) ==
    /\ v = [type |-> objectValue, n |-> 0, s |-> <<>>, m |-> v.m]
    /\ v.m \in [DOMAIN v.m -> Stored]

\* Null, or an array with indices up to MaxSize or an object, of stored values.
Shaped(v) ==
    \/ v = Null
    \/ \E I \in SUBSET (0..MaxSize) : IsArray(v, I)
    \/ IsObject(v)

RootInv == Shaped(root) /\ size(root) <= MaxSize

LEMMA InArrays ==
  ASSUME NEW v, NEW I \in SUBSET (0..MaxSize), IsArray(v, I)
  PROVE  v \in Arrays /\ v # Thrown /\ Shaped(v)
<1>1. v.m \in [{IndexKey(i) : i \in I} -> Items \cup {Null}]
  BY DEF IsArray, Keys, Stored
<1>2. v = [type |-> arrayValue, n |-> 0, s |-> <<>>, m |-> v.m]
  BY DEF IsArray
<1>3. v.m \in UNION {[{IndexKey(i) : i \in J} -> Items \cup {Null}] : J \in SUBSET (0..MaxSize)}
  BY <1>1
<1> DEFINE M == UNION {[{IndexKey(i) : i \in J} -> Items \cup {Null}] : J \in SUBSET (0..MaxSize)}
<1>4. v \in [type : {arrayValue}, n : {0}, s : {<<>>}, m : M]
  <2> HIDE DEF M
  <2> DEFINE f == v.m
  <2>1. f \in M
    BY <1>3 DEF M
  <2>2. v = [type |-> arrayValue, n |-> 0, s |-> <<>>, m |-> f]
    BY <1>2
  <2> HIDE DEF f
  <2> QED BY <2>1, <2>2
<1>5. v \in Arrays
  BY <1>4 DEF Arrays
<1> QED BY <1>5, EditAssumption DEF Shaped

\* The size of an array is a bound of its indices.
LEMMA ArraySize ==
  ASSUME NEW v, NEW I \in SUBSET (0..MaxSize), IsArray(v, I)
  PROVE  size(v) \in Nat /\ Spans(I, size(v))
<1>1. PICK n \in 0..(MaxSize + 1) : Spans(I, n)
  BY SpanExists, EditAssumption
<1>2. size(v) = n
  BY <1>1, ArrayHas, SizeIs
<1> QED BY <1>1, <1>2 DEF Spans

LEMMA EmptyArray ==
  /\ IsArray(Value(arrayValue), {})
  /\ \A v, I : IsArray(v, I) => IsArray([v EXCEPT !.m = <<>>], {})
<1>1. Keys({}) = {} /\ <<>> \in [Keys({}) -> Stored]
  BY DEF Keys
<1>2. IsArray(Value(arrayValue), {})
  BY <1>1 DEF IsArray, Value
<1>3. \A v, I : IsArray(v, I) => IsArray([v EXCEPT !.m = <<>>], {})
  BY <1>1, MapChanged
<1> QED BY <1>2, <1>3

LEMMA ObjectChanged ==
  ASSUME NEW v, IsObject(v), NEW D, NEW f \in [D -> Stored]
  PROVE  IsObject([v EXCEPT !.m = f])
<1>1. [v EXCEPT !.m = f] = [type |-> objectValue, n |-> 0, s |-> <<>>, m |-> f]
  BY DEF IsObject
<1> QED BY <1>1 DEF IsObject

LEMMA NoMembers == <<>> \in [{} -> Stored] /\ DOMAIN <<>> = {}
  OBVIOUS

LEMMA Types ==
  /\ Null.type = nullValue /\ Null.m = <<>> /\ size(Null) = 0
  /\ \A v : IsObject(v) => v.type = objectValue
  /\ \A v, I : IsArray(v, I) => v.type = arrayValue
  /\ nullValue # arrayValue /\ nullValue # objectValue /\ arrayValue # objectValue
<1>1. nullValue # arrayValue /\ nullValue # objectValue /\ arrayValue # objectValue
  BY DEF nullValue, arrayValue, objectValue
<1>2. Null.type = nullValue /\ Null.m = <<>>
  BY DEF Null, Value
<1>3. size(Null) = 0
  BY <1>1, <1>2 DEF size
<1>4. \A v : IsObject(v) => v.type = objectValue
  BY DEF IsObject
<1>5. \A v, I : IsArray(v, I) => v.type = arrayValue
  BY ArrayHas
<1> QED BY <1>1, <1>2, <1>3, <1>4, <1>5

\* Making an element of what is not an object.
LEMMA MadeShaped ==
  ASSUME NEW v, Shaped(v), NEW i \in 0..MaxSize
  PROVE  \/ ElementMade(v, i) = Thrown
         \/ \E J \in SUBSET (0..MaxSize) : i \in J /\ IsArray(ElementMade(v, i), J)
<1>0. i \in Nat
  BY EditAssumption
<1>1. ASSUME NEW w, NEW I \in SUBSET (0..MaxSize), IsArray(w, I)
      PROVE  \E J \in SUBSET (0..MaxSize) : i \in J /\ IsArray(ElementMade(w, i), J)
  <2>1. IsArray(ElementMade(w, i), I \cup {i})
    BY <1>0, <1>1, MadeIs
  <2> QED BY <2>1
<1>2. CASE v = Null
  <2> DEFINE w == Value(arrayValue)
  <2>1. IsArray(w, {}) /\ w.type = arrayValue
    BY EmptyArray DEF Value
  <2>2. ElementMade(v, i) = WithKey(w, IndexKey(i))
    BY <1>2, Types DEF ElementMade, Become
  <2>3. ElementMade(w, i) = WithKey(w, IndexKey(i))
    BY <2>1, Types DEF ElementMade, Become
  <2> HIDE DEF w
  <2>4. \E J \in SUBSET (0..MaxSize) : i \in J /\ IsArray(ElementMade(w, i), J)
    BY <1>1, <2>1
  <2> QED BY <2>2, <2>3, <2>4
<1>3. CASE \E I \in SUBSET (0..MaxSize) : IsArray(v, I)
  BY <1>1, <1>3
<1>4. CASE IsObject(v)
  BY <1>4, Types DEF ElementMade
<1> QED BY <1>2, <1>3, <1>4 DEF Shaped

LEMMA SetShaped ==
  ASSUME NEW v, Shaped(v), NEW i \in 0..MaxSize, NEW x \in Items,
         Assigned(ElementMade(v, i), IndexKey(i), x) # Thrown
  PROVE  Shaped(Assigned(ElementMade(v, i), IndexKey(i), x))
<1> DEFINE w == ElementMade(v, i)
           r == Assigned(w, IndexKey(i), x)
<1>1. w # Thrown
  BY DEF Assigned
<1>2. PICK J \in SUBSET (0..MaxSize) : i \in J /\ IsArray(w, J)
  BY <1>1, MadeShaped
<1>3. x \in Stored
  BY DEF Stored
<1> HIDE DEF w
<1>4. IsArray(r, J)
  BY <1>1, <1>2, <1>3, AssignedIs
<1> QED BY <1>4 DEF Shaped, w

LEMMA WithoutShaped ==
  ASSUME NEW v, NEW I \in SUBSET (0..MaxSize), IsArray(v, I), NEW R
  PROVE  Shaped(Without(v, Keys(R)))
<1>1. IsArray(Without(v, Keys(R)), I \ R)
  BY WithoutIs
<1>2. I \ R \in SUBSET (0..MaxSize)
  OBVIOUS
<1> QED BY <1>1, <1>2 DEF Shaped

LEMMA ResizeShaped ==
  ASSUME NEW v, Shaped(v), NEW n \in 0..MaxSize, resize(v, n) # Thrown
  PROVE  Shaped(resize(v, n))
<1> DEFINE w == resize(v, n)
<1>0. {} \in SUBSET (0..MaxSize) /\ n \in Nat
  BY EditAssumption
<1>1. v.type \in {nullValue, arrayValue}
  BY DEF resize
<1>2. CASE n = 0
  <2> DEFINE b == Become(v, arrayValue)
  <2>1. w = clear(b)
    BY <1>1, <1>2 DEF resize
  <2>2. \E I : IsArray(b, I)
    <3>1. CASE v.type = nullValue
      BY <3>1, EmptyArray DEF Become
    <3>2. CASE v.type = arrayValue
      <4>1. b = v
        BY <3>2, Types DEF Become
      <4>2. \E I : IsArray(v, I)
        BY <3>2, Types DEF Shaped
      <4> QED BY <4>1, <4>2
    <3> QED BY <1>1, <3>1, <3>2
  <2> HIDE DEF b
  <2>3. PICK I : IsArray(b, I)
    BY <2>2
  <2>4. clear(b) = [b EXCEPT !.m = <<>>]
    BY <2>3, Types DEF clear, isContainer
  <2>5. IsArray(w, {})
    BY <2>1, <2>3, <2>4, EmptyArray
  <2> HIDE DEF w
  <2> QED BY <1>0, <2>5 DEF Shaped, w
<1>3. CASE n # 0 /\ n > size(v)
  <2>1. w = ElementMade(v, n - 1)
    BY <1>1, <1>3 DEF resize
  <2>2. n - 1 \in 0..MaxSize
    BY <1>0, <1>3, EditAssumption
  <2>3. \E J \in SUBSET (0..MaxSize) : IsArray(w, J)
    <3>1. \/ ElementMade(v, n - 1) = Thrown
          \/ \E J \in SUBSET (0..MaxSize) : IsArray(ElementMade(v, n - 1), J)
      <4> DEFINE i == n - 1
      <4>1. i \in 0..MaxSize
        BY <2>2
      <4> HIDE DEF i
      <4> QED BY <4>1, MadeShaped DEF i
    <3> QED BY <2>1, <3>1
  <2> HIDE DEF w
  <2> QED BY <2>3 DEF Shaped, w
<1>4. CASE n # 0 /\ ~(n > size(v))
  <2> DEFINE K == {IndexKey(i) : i \in n..(size(v) - 1)}
             kept == Without(v, K)
  <2>1. w = Shrunk(v, n)
    BY <1>1, <1>4 DEF resize
  <2>2. w = kept
    BY <2>1 DEF Shrunk
  <2>3. v # Null
    BY <1>0, <1>4, Types
  <2>4. PICK I \in SUBSET (0..MaxSize) : IsArray(v, I)
    BY <1>1, <2>3, Types DEF Shaped
  <2>5. K = Keys(n..(size(v) - 1))
    BY DEF Keys
  <2>6. Shaped(kept)
    <3> HIDE DEF K
    <3> QED BY <2>4, <2>5, WithoutShaped
  <2> QED BY <2>2, <2>6
<1> QED BY <1>2, <1>3, <1>4

\* removeIndex of an array with holes.
LEMMA RemoveIndexShaped ==
  ASSUME NEW v, Shaped(v), NEW i \in 0..MaxSize
  PROVE  Shaped(removeIndex(v, i))
<1> DEFINE last == size(v) - 1
           R == i..(last - 1)
           K == {IndexKey(j) : j \in R}
           moved == [k \in K |-> Element(v, k[1] + 1)]
           f == Updated(v.m, moved)
           y == [v EXCEPT !.m = f]
           D == {IndexKey(last)}
           w == Without(y, D)
<1>1. CASE v.type = arrayValue /\ IndexKey(i) \in DOMAIN v.m
  <2>1. removeIndex(v, i) = w
    BY <1>1 DEF removeIndex
  <2>2. PICK I \in SUBSET (0..MaxSize) : IsArray(v, I)
    BY <1>1, Types DEF Shaped
  <2>3. /\ DOMAIN v.m = Keys(I) /\ i \in I /\ Spans(I, size(v)) /\ I \subseteq Nat
        /\ \A k \in Keys(I) : v.m[k] \in Stored
    BY <1>1, <2>2, KeyOf, ArraySize DEF IsArray
  <2>4. R \subseteq 0..MaxSize /\ R \subseteq Nat
    <3>1. size(v) \in Nat /\ last \in 0..MaxSize /\ MaxSize \in Nat
      BY <2>2, <2>3, EditAssumption DEF Spans
    <3> HIDE DEF last
    <3> QED BY <3>1
  <2>5. Null \in Stored
    BY DEF Stored
  <2>6. \A j : Element(v, j) \in Stored
    BY <1>1, <2>3, <2>5 DEF Element
  <2>7. K = Keys(R) /\ DOMAIN moved = K /\ \A k \in K : moved[k] \in Stored
    BY <2>6 DEF Keys
  <2> HIDE DEF moved, K
  <2> DEFINE J == I \cup R
  <2>8. Keys(I) \cup K = Keys(J)
    BY <2>7 DEF Keys
  <2>9. f = [k \in Keys(J) |-> IF k \in K THEN moved[k] ELSE v.m[k]]
    BY <2>3, <2>7, <2>8 DEF Updated
  <2>10. f \in [Keys(J) -> Stored]
    BY <2>3, <2>7, <2>8, <2>9
  <2>11. J \in SUBSET (0..MaxSize) /\ J \subseteq Nat
    BY <2>3, <2>4
  <2>12. D = Keys({last})
    BY DEF Keys
  <2> HIDE DEF f, J, R, D, last
  <2>13. IsArray(y, J)
    BY <2>2, <2>10, <2>11, MapChanged
  <2> HIDE DEF y
  <2>14. Shaped(w)
    BY <2>11, <2>12, <2>13, WithoutShaped
  <2> QED BY <2>1, <2>14
<1>2. CASE ~(v.type = arrayValue /\ IndexKey(i) \in DOMAIN v.m)
  <2>1. removeIndex(v, i) = v
    BY <1>2 DEF removeIndex
  <2> QED BY <2>1
<1> QED BY <1>1, <1>2

LEMMA AppendShaped ==
  ASSUME NEW v, Shaped(v), size(v) <= MaxSize, NEW x \in Items, append(v, x) # Thrown
  PROVE  Shaped(append(v, x))
<1> DEFINE i == size(v)
           w == ElementMade(v, i)
<1>1. append(v, x) = Assigned(w, IndexKey(i), x)
  BY DEF append
<1>2. w # Thrown
  BY <1>1 DEF Assigned
<1>3. v.type \in {nullValue, arrayValue}
  BY <1>2 DEF ElementMade
<1>4. v = Null \/ \E I \in SUBSET (0..MaxSize) : IsArray(v, I)
  BY <1>3, Types DEF Shaped
<1>5. i \in Nat
  BY <1>4, Types, ArraySize
<1>6. i \in 0..MaxSize
  BY <1>5, EditAssumption
<1> HIDE DEF i
<1>7. Assigned(ElementMade(v, i), IndexKey(i), x) # Thrown
  BY <1>1 DEF i
<1> QED BY <1>1, <1>6, <1>7, SetShaped DEF i

LEMMA MemberShaped ==
  ASSUME NEW v, Shaped(v), NEW name, NEW x \in Items, Assigned(MemberMade(v, name), name, x) # Thrown
  PROVE  Shaped(Assigned(MemberMade(v, name), name, x))
<1> DEFINE b == Become(v, objectValue)
           w == MemberMade(v, name)
           r == Assigned(w, name, x)
<1>1. w # Thrown
  BY DEF Assigned
<1>2. v.type \in {nullValue, objectValue} /\ w = WithKey(b, name)
  BY <1>1 DEF MemberMade
<1>3. IsObject(b)
  <2>1. IsObject(Value(objectValue))
    BY NoMembers DEF IsObject, Value
  <2>2. CASE v.type = nullValue
    BY <2>1, <2>2 DEF Become
  <2>3. CASE v.type = objectValue
    BY <2>3, Types DEF Become, Shaped
  <2> QED BY <1>2, <2>2, <2>3
<1> HIDE DEF b
<1>4. IsObject(w)
  <2> DEFINE f == Updated(b.m, [y \in {name} |-> Null])
  <2>1. w = b \/ w = [b EXCEPT !.m = f]
    BY <1>2 DEF WithKey
  <2>2. f \in [DOMAIN b.m \cup {name} -> Stored]
    BY <1>3 DEF IsObject, Updated, Stored
  <2> HIDE DEF f, w
  <2> QED BY <1>3, <2>1, <2>2, ObjectChanged
<1>5. IsObject(r)
  <2> DEFINE f == [w.m EXCEPT ![name] = x]
  <2>1. r = [w EXCEPT !.m = f]
    BY <1>1 DEF Assigned
  <2> HIDE DEF w
  <2>2. f \in [DOMAIN w.m -> Stored]
    BY <1>4 DEF IsObject, Stored
  <2> HIDE DEF f
  <2> QED BY <1>4, <2>1, <2>2, ObjectChanged
<1> QED BY <1>5 DEF Shaped

LEMMA RemoveMemberShaped ==
  ASSUME NEW v, Shaped(v), NEW name
  PROVE  Shaped(removeMember(v, name))
<1>1. CASE isMember(v, name)
  <2> DEFINE f == Restrict(v.m, DOMAIN v.m \ {name})
  <2>1. IsObject(v)
    BY <1>1, Types DEF isMember, Shaped
  <2>2. removeMember(v, name) = [v EXCEPT !.m = f]
    BY <1>1 DEF removeMember, Without
  <2>3. f \in [DOMAIN v.m \ {name} -> Stored]
    BY <2>1 DEF IsObject, Restrict
  <2> HIDE DEF f
  <2> QED BY <2>1, <2>2, <2>3, ObjectChanged DEF Shaped
<1>2. CASE ~isMember(v, name)
  BY <1>2 DEF removeMember
<1> QED BY <1>1, <1>2

LEMMA ClearShaped ==
  ASSUME NEW v, Shaped(v), clear(v) # Thrown
  PROVE  Shaped(clear(v))
<1>1. clear(v) = [v EXCEPT !.m = <<>>]
  BY DEF clear
<1>2. CASE v = Null
  BY <1>1, <1>2 DEF Shaped, Null, Value
<1>3. CASE \E I \in SUBSET (0..MaxSize) : IsArray(v, I)
  <2>1. IsArray(clear(v), {}) /\ {} \in SUBSET (0..MaxSize)
    BY <1>1, <1>3, EmptyArray
  <2> QED BY <2>1 DEF Shaped
<1>4. CASE IsObject(v)
  <2> DEFINE f == <<>>
  <2>1. f \in [{} -> Stored]
    BY NoMembers
  <2>2. clear(v) = [v EXCEPT !.m = f]
    BY <1>1
  <2> HIDE DEF f
  <2>3. IsObject([v EXCEPT !.m = f])
    BY <1>4, <2>1, ObjectChanged
  <2> QED BY <2>2, <2>3 DEF Shaped
<1> QED BY <1>2, <1>3, <1>4 DEF Shaped

LEMMA EditKeeps == ASSUME NEW v, Edit(v), v # Thrown => Shaped(v) PROVE RootInv'
<1>1. v # Thrown /\ size(v) <= MaxSize /\ root' = v
  BY DEF Edit
<1>2. Shaped(v)
  BY <1>1
<1> QED BY <1>1, <1>2 DEF RootInv

LEMMA RootInit == EditInit => RootInv
<1> SUFFICES ASSUME EditInit PROVE RootInv
  OBVIOUS
<1>1. root = Null /\ size(root) = 0
  BY Types DEF EditInit
<1> QED BY <1>1, EditAssumption DEF RootInv, Shaped

LEMMA RootNext == RootInv /\ [EditNext]_root => RootInv'
<1> SUFFICES ASSUME RootInv, [EditNext]_root PROVE RootInv'
  OBVIOUS
<1>0. Shaped(root) /\ size(root) <= MaxSize
  BY DEF RootInv
<1>1. CASE SetMember
  <2>1. PICK name \in MemberNames, x \in Items : Edit(Assigned(MemberMade(root, name), name, x))
    BY <1>1 DEF SetMember
  <2> DEFINE v == Assigned(MemberMade(root, name), name, x)
  <2>2. v # Thrown => Shaped(v)
    BY <1>0, MemberShaped
  <2> HIDE DEF v
  <2> QED BY <2>1, <2>2, EditKeeps DEF v
<1>2. CASE SetElement
  <2>1. PICK i \in 0..(MaxSize - 1), x \in Items : Edit(Assigned(ElementMade(root, i), IndexKey(i), x))
    BY <1>2 DEF SetElement
  <2> DEFINE v == Assigned(ElementMade(root, i), IndexKey(i), x)
  <2>2. i \in 0..MaxSize
    BY EditAssumption
  <2>3. v # Thrown => Shaped(v)
    BY <1>0, <2>2, SetShaped
  <2> HIDE DEF v
  <2> QED BY <2>1, <2>3, EditKeeps DEF v
<1>3. CASE AppendItem
  <2>1. PICK x \in Items : Edit(append(root, x))
    BY <1>3 DEF AppendItem
  <2>2. append(root, x) # Thrown => Shaped(append(root, x))
    BY <1>0, AppendShaped
  <2> QED BY <2>1, <2>2, EditKeeps
<1>4. CASE Resize
  <2>1. PICK n \in 0..MaxSize : Edit(resize(root, n))
    BY <1>4 DEF Resize
  <2>2. resize(root, n) # Thrown => Shaped(resize(root, n))
    BY <1>0, ResizeShaped
  <2> QED BY <2>1, <2>2, EditKeeps
<1>5. CASE RemoveMember
  <2>1. PICK name \in MemberNames : Edit(removeMember(root, name))
    BY <1>5 DEF RemoveMember
  <2>2. Shaped(removeMember(root, name))
    BY <1>0, RemoveMemberShaped
  <2> QED BY <2>1, <2>2, EditKeeps
<1>6. CASE RemoveIndex
  <2>1. PICK i \in 0..MaxSize : Edit(removeIndex(root, i))
    BY <1>6 DEF RemoveIndex
  <2>2. Shaped(removeIndex(root, i))
    BY <1>0, RemoveIndexShaped
  <2> QED BY <2>1, <2>2, EditKeeps
<1>7. CASE Clear
  <2>1. Edit(clear(root))
    BY <1>7 DEF Clear
  <2>2. clear(root) # Thrown => Shaped(clear(root))
    BY <1>0, ClearShaped
  <2> QED BY <2>1, <2>2, EditKeeps
<1>8. CASE UNCHANGED root
  BY <1>8 DEF RootInv
<1> QED BY <1>1, <1>2, <1>3, <1>4, <1>5, <1>6, <1>7, <1>8 DEF EditNext

\* The calls keep the indices of an array in its map, with holes or without.
THEOREM RootInvariant == EditSpec => []RootInv
  BY RootInit, RootNext, PTL DEF EditSpec

\* A dense array of the values that calls lead to is a list.
LEMMA RootIsList ==
  ASSUME RootInv, Dense(root)
  PROVE  /\ IsList(root, size(root)) /\ size(root) <= MaxSize
         /\ ElementMade(root, size(root)) # Thrown
<1> DEFINE n == size(root)
<1>1. PICK I \in SUBSET (0..MaxSize) : IsArray(root, I)
  BY Types DEF RootInv, Shaped, Dense
<1>2. n \in Nat /\ n <= MaxSize /\ MaxSize \in Nat
  BY <1>1, ArraySize, EditAssumption DEF RootInv
<1>3. DOMAIN root.m = Keys(0..(n - 1)) /\ DOMAIN root.m = Keys(I)
  BY <1>1 DEF Dense, Keys, IsArray
<1> HIDE DEF n
<1>4. 0..(n - 1) = I
  <2>1. \A i : i \in I <=> i \in 0..(n - 1)
    BY <1>3, KeyOf
  <2> QED BY <2>1
<1>5. IsList(root, n)
  BY <1>1, <1>2, <1>4 DEF IsList
<1>6. n \in 0..MaxSize /\ Shaped(root) /\ I \cup {n} \in SUBSET (0..MaxSize) /\ n \in Nat
  BY <1>2 DEF RootInv
<1>7. IsArray(ElementMade(root, n), I \cup {n})
  BY <1>1, <1>6, MadeIs
<1>8. ElementMade(root, n) # Thrown
  BY <1>6, <1>7, InArrays
<1> QED BY <1>2, <1>5, <1>8 DEF n

LEMMA ArraysHold == RootInv => ArraysAreSequences
<1> SUFFICES ASSUME RootInv, Dense(root) PROVE
       /\ \A x \in Items : Dense(append(root, x)) /\ Elements(append(root, x)) = Append(Elements(root), x)
       /\ \A i \in 0..(size(root) - 1) :
             /\ Dense(removeIndex(root, i))
             /\ Elements(removeIndex(root, i)) = RemoveAt(Elements(root), i + 1)
             /\ Elements(resize(root, i)) = SubSeq(Elements(root), 1, i)
       /\ Elements(resize(root, size(root) + 2)) = Elements(root) \o <<Null, Null>>
  BY DEF ArraysAreSequences
<1> DEFINE n == size(root)
<1>1. IsList(root, n) /\ ElementMade(root, n) # Thrown
  BY RootIsList
<1> HIDE DEF n
<1>2. ASSUME NEW x \in Items
      PROVE  Dense(append(root, x)) /\ Elements(append(root, x)) = Append(Elements(root), x)
  <2>1. x \in Stored
    BY DEF Stored
  <2> QED BY <1>1, <2>1, Appended
<1>3. ASSUME NEW i \in 0..(n - 1)
      PROVE  /\ Dense(removeIndex(root, i))
             /\ Elements(removeIndex(root, i)) = RemoveAt(Elements(root), i + 1)
             /\ Elements(resize(root, i)) = SubSeq(Elements(root), 1, i)
  BY <1>1, Removed, ShrinksTo
<1>4. Elements(resize(root, n + 2)) = Elements(root) \o <<Null, Null>>
  BY <1>1, Grown
<1> QED BY <1>2, <1>3, <1>4 DEF n

\* append, removeIndex and resize act on an array as on a sequence, however
\* many elements it has and whatever they are (json.cpp:3067-3310).
THEOREM ArraysStaySequences == EditSpec => []ArraysAreSequences
  BY RootInvariant, ArraysHold, PTL

-----------------------------------------------------------------------------
(* The numbers of JSON values *)

\* The limits are integers, and those that are doubles are kept as they are.
LEMMA Limits ==
  /\ RealUnit \in Nat \ {0}
  /\ maxInt \in Nat /\ maxInt > 0 /\ minInt = -maxInt - 1
  /\ maxUInt \in Nat /\ maxUInt > 0
  /\ maxInt64 \in Nat /\ minInt64 = -maxInt64 - 1 /\ maxUInt64 \in Nat
  /\ maxInt < maxInt64 /\ maxUInt < maxInt64 /\ maxInt64 < maxUInt64
<1>1. /\ 2 ^ (IntBits - 1) \in Int /\ 2 ^ IntBits \in Int
      /\ 2 ^ (LargestBits - 1) \in Int /\ 2 ^ LargestBits \in Int
  BY JsonNumbersAssumption
<1> QED BY <1>1, JsonNumbersAssumption DEF maxInt, minInt, maxUInt, maxInt64, minInt64, maxUInt64

LEMMA Doubles ==
  /\ \A i \in {minInt, maxInt, 0, maxUInt, minInt64} : AsDouble(i) = i * RealUnit
  /\ AsDouble(maxInt64) = (maxInt64 + 1) * RealUnit
  /\ AsDouble(maxUInt64) = (maxUInt64 + 1) * RealUnit
<1>1. \A i \in {minInt, maxInt, 0, maxUInt, minInt64} : i \notin {maxInt64, maxUInt64}
  BY Limits
<1> QED BY <1>1 DEF AsDouble

\* The double next to a real is an integer of its fractions, too.
LEMMA RoundedInt ==
  ASSUME NEW r \in Int
  PROVE  Rounded(r) \in Int
<1> DEFINE m == Magnitude(r)
           s == Spacing(m \div RealUnit)
           step == RealUnit * s
<1>1. m \in Nat
  BY DEF Magnitude
<1>2. s \in Nat \ {0}
  <2> DEFINE n == m \div RealUnit
             K == {k \in 1..DoubleScale : n >= 2 ^ (DoubleBits + k - 1)}
  <2>1. IsFiniteSet(1..DoubleScale) /\ Cardinality(1..DoubleScale) = DoubleScale
    BY JsonNumbersAssumption, FS_Interval
  <2>2. Cardinality(K) \in Nat /\ Cardinality(K) <= DoubleScale
    BY <2>1, FS_Subset, FS_CardinalityType, K \subseteq 1..DoubleScale
  <2>3. Cardinality(K) \in 0..DoubleScale
    BY <2>2, JsonNumbersAssumption
  <2> QED BY <2>3, JsonNumbersAssumption DEF Spacing
<1> HIDE DEF m, s
<1>3. step \in Nat \ {0}
  <2>1. \A a \in Nat \ {0}, b \in Nat \ {0} : a * b \in Nat \ {0}
    OBVIOUS
  <2> QED BY <1>2, <2>1, JsonNumbersAssumption
<1> HIDE DEF step
<1>4. Nearest(m, step) \in Int
  <2> DEFINE q == m \div step
  <2>1. q \in Int
    BY <1>1, <1>3
  <2> HIDE DEF q
  <2>2. q * step \in Int /\ (q + 1) * step \in Int
    BY <1>3, <2>1
  <2> QED BY <2>2 DEF Nearest, q
<1>5. RealUnit * 2 ^ (DoubleBits - 1) \in Int
  <2>1. 2 ^ (DoubleBits - 1) \in Int
    BY JsonNumbersAssumption
  <2>2. \A a \in Int, b \in Int : a * b \in Int
    OBVIOUS
  <2> QED BY <2>1, <2>2, JsonNumbersAssumption
<1> DEFINE bound == RealUnit * 2 ^ (DoubleBits - 1)
<1>6. bound \in Int
  BY <1>5
<1> HIDE DEF bound
<1>7. /\ m < bound \/ m >= bound
      /\ r >= 0 \/ r < 0
  BY <1>1, <1>6
<1>8. Rounded(r) = CASE m < bound -> r
                     [] m >= bound /\ r >= 0 -> Nearest(m, step)
                     [] m >= bound /\ r < 0 -> -Nearest(m, step)
  BY DEF Rounded, m, s, step, bound
<1> QED BY <1>4, <1>7, <1>8

\* A cast from double stays between two integers, and keeps an integer.
LEMMA Truncates ==
  ASSUME NEW r \in Int, NEW lo \in Int, NEW hi \in Int, lo <= 0, 0 <= hi,
         lo * RealUnit <= r, r <= hi * RealUnit
  PROVE  /\ Truncated(r) \in lo..hi
         /\ IsIntegral(r) => Truncated(r) * RealUnit = r
<1> DEFINE U == RealUnit
<1>1. U \in Nat \ {0} /\ lo * U <= r /\ r <= hi * U
  BY Limits
<1>2. ASSUME NEW u \in Nat \ {0}, NEW x \in Nat, NEW m \in Nat, x <= m * u
      PROVE  x \div u \in 0..m /\ (x % u = 0 => (x \div u) * u = x)
  BY <1>2
<1>3. ASSUME NEW u \in Nat \ {0}, NEW x \in Nat, (-x) % u = 0
      PROVE  x % u = 0
  <2> DEFINE k == (-x) \div u
  <2>1. k \in Int /\ -x = u * k
    BY <1>3
  <2> HIDE DEF k
  <2>2. x = u * (-k) + 0
    BY <2>1
  <2> QED BY <2>1, <2>2
<1>4. CASE r >= 0
  <2>1. r \div U \in 0..hi /\ (r % U = 0 => (r \div U) * U = r)
    <3> HIDE DEF U
    <3> QED BY <1>1, <1>2, <1>4
  <2>2. Truncated(r) = r \div U
    BY <1>4 DEF Truncated
  <2> HIDE DEF U
  <2>3. r \div U \in lo..hi
    <3> DEFINE q == r \div U
    <3>1. q \in 0..hi
      BY <2>1
    <3> HIDE DEF q
    <3> QED BY <3>1 DEF q
  <2> QED BY <2>1, <2>2, <2>3 DEF IsIntegral, U
<1>5. CASE ~(r >= 0)
  <2> DEFINE x == -r
             m == -lo
             q == x \div U
  <2>1. x \in Nat /\ m \in Nat /\ r = -x
    BY <1>5
  <2>2. x <= m * U
    <3>1. \A u \in Nat : lo * u <= r => -r <= (-lo) * u
      OBVIOUS
    <3> HIDE DEF U
    <3> QED BY <1>1, <3>1 DEF x, m
  <2>3. Truncated(r) = -q
    BY <1>5 DEF Truncated
  <2> HIDE DEF U, x, q
  <2>4. q \in 0..m /\ (x % U = 0 => q * U = x)
    <3> HIDE DEF m
    <3> QED BY <1>1, <1>2, <2>1, <2>2 DEF q
  <2>5. -q \in lo..hi
    BY <2>4
  <2>6. r % U = 0 => (-q) * U = r
    <3>1. r % U = 0 => x % U = 0
      BY <1>1, <1>3, <2>1
    <3>2. q * U = x => (-q) * U = -x
      <4>1. \A a \in Int, b \in Int : (-a) * b = -(a * b)
        OBVIOUS
      <4>2. q \in Int /\ U \in Int
        BY <1>1, <2>4
      <4> QED BY <4>1, <4>2
    <3> QED BY <2>1, <2>4, <3>1, <3>2
  <2> QED BY <2>3, <2>5, <2>6 DEF IsIntegral, U
<1> QED BY <1>4, <1>5

LEMMA TypesDiffer ==
  /\ intValue = 1 /\ uintValue = 2 /\ realValue = 3 /\ stringValue = 4
  /\ booleanValue = 5 /\ nullValue = 0 /\ arrayValue = 6 /\ objectValue = 7
  BY DEF intValue, uintValue, realValue, stringValue, booleanValue, nullValue, arrayValue, objectValue

\* The values that conversions and tests are about: Int and UInt kept in v.n.
LEMMA IntegersConvert ==
  ASSUME NEW v, v.n \in Int, v.type \in {intValue, uintValue}
  PROVE  ConvertsExactly(v)
<1> DEFINE n == v.n
<1>1. n \in Int /\ n # Thrown /\ Rounded(n * RealUnit) # Thrown /\ (n # 0) # Thrown
  <2>1. n \in Int /\ Rounded(n * RealUnit) \in Int
    BY Limits, RoundedInt
  <2> HIDE DEF n
  <2> QED BY <2>1, EditAssumption
<1>2. /\ isInt(v) <=> minInt <= n /\ n <= maxInt
      /\ isUInt(v) <=> 0 <= n /\ n <= maxUInt
      /\ isInt64(v) <=> n <= maxInt64
      /\ isUInt64(v) <=> n >= 0
  BY TypesDiffer DEF isInt, isUInt, isInt64, isUInt64, FitsInt
<1>3. /\ asInt(v) = IF isInt(v) THEN n ELSE Thrown
      /\ asUInt(v) = IF isUInt(v) THEN n ELSE Thrown
      /\ asInt64(v) = IF isInt64(v) THEN n ELSE Thrown
      /\ asUInt64(v) = IF isUInt64(v) THEN n ELSE Thrown
      /\ asDouble(v) = Rounded(n * RealUnit)
      /\ asBool(v) = (n # 0)
  <2>1. asBool(v) = (n # 0)
    <3>1. CASE v.type = intValue
      BY <3>1, TypesDiffer DEF asBool
    <3>2. CASE v.type = uintValue
      BY <3>2, TypesDiffer DEF asBool
    <3> QED BY <3>1, <3>2
  <2>2. /\ asInt(v) = IF isInt(v) THEN n ELSE Thrown
        /\ asUInt(v) = IF isUInt(v) THEN n ELSE Thrown
        /\ asInt64(v) = IF isInt64(v) THEN n ELSE Thrown
        /\ asUInt64(v) = IF isUInt64(v) THEN n ELSE Thrown
    BY TypesDiffer DEF asInt, asUInt, asInt64, asUInt64, AsInteger
  <2>3. asDouble(v) = Rounded(n * RealUnit)
    BY TypesDiffer DEF asDouble
  <2> QED BY <2>1, <2>2, <2>3
<1>4. /\ isConvertibleTo(v, intValue) <=> isInt(v)
      /\ isConvertibleTo(v, uintValue) <=> isUInt(v)
      /\ isConvertibleTo(v, realValue) <=> isNumeric(v)
      /\ isConvertibleTo(v, booleanValue) <=> isNumeric(v)
  BY TypesDiffer DEF isConvertibleTo
<1>5. isNumeric(v)
  <2>1. n <= maxInt64 \/ n >= 0
    BY <1>1, Limits
  <2> QED BY <1>2, <2>1 DEF isNumeric, isIntegral
<1>0. ExactValue(v) = n * RealUnit
  BY TypesDiffer DEF ExactValue
<1> HIDE DEF n
<1>6. /\ asInt(v) \in minInt..maxInt \cup {Thrown}
      /\ asUInt(v) \in 0..maxUInt \cup {Thrown}
  BY <1>1, <1>2, <1>3, Limits
<1>7. /\ isConvertibleTo(v, intValue) <=> asInt(v) # Thrown
      /\ isConvertibleTo(v, uintValue) <=> asUInt(v) # Thrown
      /\ isConvertibleTo(v, realValue) <=> asDouble(v) # Thrown
      /\ isConvertibleTo(v, booleanValue) <=> asBool(v) # Thrown
  BY <1>1, <1>3, <1>4, <1>5
<1> QED BY <1>0, <1>3, <1>6, <1>7 DEF ConvertsExactly

\* Doubles: a test holds below the rounded limit, a conversion up to it.
LEMMA RealsConvert ==
  ASSUME NEW v, v.n \in Int, v.type = realValue
  PROVE  ConvertsExactly(v)
<1> DEFINE n == v.n
           t == Truncated(n)
<1>1. n \in Int /\ n # Thrown /\ (n # 0) # Thrown
  BY EditAssumption
<1>2. /\ isInt(v) <=> InRange(n, minInt, maxInt) /\ IsIntegral(n)
      /\ isUInt(v) <=> InRange(n, 0, maxUInt) /\ IsIntegral(n)
      /\ isInt64(v) => InRange(n, minInt64, maxInt64) /\ IsIntegral(n)
      /\ isUInt64(v) => InRange(n, 0, maxUInt64) /\ IsIntegral(n)
  <2>1. /\ isInt(v) <=> InRange(n, minInt, maxInt) /\ IsIntegral(n)
        /\ isUInt(v) <=> InRange(n, 0, maxUInt) /\ IsIntegral(n)
    BY TypesDiffer DEF isInt, isUInt, FitsInt
  <2>2. /\ isInt64(v) <=> AsDouble(minInt64) <= n /\ n < AsDouble(maxInt64) /\ IsIntegral(n)
        /\ isUInt64(v) <=> 0 <= n /\ n < AsDouble(maxUInt64) /\ IsIntegral(n)
    BY TypesDiffer DEF isInt64, isUInt64
  <2>3. AsDouble(maxInt64) \in Int /\ AsDouble(maxUInt64) \in Int /\ AsDouble(0) = 0
    BY Doubles, Limits
  <2> HIDE DEF n
  <2> QED BY <1>1, <2>1, <2>2, <2>3 DEF InRange
<1>3. /\ asInt(v) = IF InRange(n, minInt, maxInt) THEN t ELSE Thrown
      /\ asUInt(v) = IF InRange(n, 0, maxUInt) THEN t ELSE Thrown
      /\ asInt64(v) = IF InRange(n, minInt64, maxInt64) THEN t ELSE Thrown
      /\ asUInt64(v) = IF InRange(n, 0, maxUInt64) THEN t ELSE Thrown
      /\ asDouble(v) = n
      /\ asBool(v) = (n # 0)
      /\ ExactValue(v) = n
  BY TypesDiffer DEF asInt, asUInt, asInt64, asUInt64, AsInteger, asDouble, asBool, ExactValue
<1>4. /\ isConvertibleTo(v, intValue) <=> isInt(v) \/ InRange(n, minInt, maxInt)
      /\ isConvertibleTo(v, uintValue) <=> isUInt(v) \/ InRange(n, 0, maxUInt)
      /\ isConvertibleTo(v, realValue) /\ isConvertibleTo(v, booleanValue)
  BY TypesDiffer DEF isConvertibleTo, isNumeric, isDouble
<1> HIDE DEF n, t
<1>5. ASSUME NEW lo \in Int, NEW hi \in Int, lo <= 0, 0 <= hi,
             lo * RealUnit <= n, n <= hi * RealUnit
      PROVE  t \in lo..hi /\ (IsIntegral(n) => t * RealUnit = n)
  BY <1>1, <1>5, Truncates DEF t
<1>6. /\ InRange(n, minInt, maxInt) => t \in minInt..maxInt /\ (IsIntegral(n) => t * RealUnit = n)
      /\ InRange(n, 0, maxUInt) => t \in 0..maxUInt /\ (IsIntegral(n) => t * RealUnit = n)
  <2>1. /\ InRange(n, minInt, maxInt) => minInt * RealUnit <= n /\ n <= maxInt * RealUnit
        /\ InRange(n, 0, maxUInt) => 0 * RealUnit <= n /\ n <= maxUInt * RealUnit
    BY Doubles DEF InRange
  <2>2. /\ minInt \in Int /\ maxInt \in Int /\ minInt <= 0 /\ 0 <= maxInt
        /\ 0 \in Int /\ maxUInt \in Int /\ 0 <= 0 /\ 0 <= maxUInt
    BY Limits
  <2>3. InRange(n, minInt, maxInt) => t \in minInt..maxInt /\ (IsIntegral(n) => t * RealUnit = n)
    BY <1>5, <2>1, <2>2
  <2>4. InRange(n, 0, maxUInt) => t \in 0..maxUInt /\ (IsIntegral(n) => t * RealUnit = n)
    BY <1>5, <2>1, <2>2
  <2> QED BY <2>3, <2>4
<1>7. /\ InRange(n, minInt64, maxInt64) => t \in Int /\ (IsIntegral(n) => t * RealUnit = n)
      /\ InRange(n, 0, maxUInt64) => t \in Int /\ (IsIntegral(n) => t * RealUnit = n)
  <2> DEFINE a == maxInt64 + 1
             b == maxUInt64 + 1
  <2>1. /\ InRange(n, minInt64, maxInt64) => minInt64 * RealUnit <= n /\ n <= a * RealUnit
        /\ InRange(n, 0, maxUInt64) => 0 * RealUnit <= n /\ n <= b * RealUnit
    BY Doubles DEF InRange
  <2>2. /\ minInt64 \in Int /\ a \in Int /\ minInt64 <= 0 /\ 0 <= a
        /\ 0 \in Int /\ b \in Int /\ 0 <= 0 /\ 0 <= b
    BY Limits
  <2> HIDE DEF a, b
  <2>3. InRange(n, minInt64, maxInt64) => t \in minInt64..a /\ (IsIntegral(n) => t * RealUnit = n)
    BY <1>5, <2>1, <2>2
  <2>4. InRange(n, 0, maxUInt64) => t \in 0..b /\ (IsIntegral(n) => t * RealUnit = n)
    BY <1>5, <2>1, <2>2
  <2>5. \A x, y \in Int : \A z \in x..y : z \in Int
    OBVIOUS
  <2> QED BY <2>2, <2>3, <2>4, <2>5
<1>8. /\ asInt(v) \in minInt..maxInt \cup {Thrown}
      /\ asUInt(v) \in 0..maxUInt \cup {Thrown}
  BY <1>3, <1>6
<1>9. /\ isInt(v) => asInt(v) * RealUnit = ExactValue(v)
      /\ isUInt(v) => asUInt(v) * RealUnit = ExactValue(v)
      /\ isInt64(v) => asInt64(v) * RealUnit = ExactValue(v)
      /\ isUInt64(v) => asUInt64(v) * RealUnit = ExactValue(v)
  BY <1>2, <1>3, <1>6, <1>7
<1>10. /\ isConvertibleTo(v, intValue) <=> asInt(v) # Thrown
       /\ isConvertibleTo(v, uintValue) <=> asUInt(v) # Thrown
       /\ isConvertibleTo(v, realValue) <=> asDouble(v) # Thrown
       /\ isConvertibleTo(v, booleanValue) <=> asBool(v) # Thrown
  <2>1. /\ InRange(n, minInt, maxInt) => t # Thrown
        /\ InRange(n, 0, maxUInt) => t # Thrown
    <3>1. \A x, y \in Int : \A z \in x..y : z \in Int
      OBVIOUS
    <3>2. minInt \in Int /\ maxInt \in Int /\ maxUInt \in Int /\ 0 \in Int
      BY Limits
    <3> QED BY <1>6, <3>1, <3>2, EditAssumption
  <2> QED BY <1>1, <1>2, <1>3, <1>4, <2>1
<1> QED BY <1>8, <1>9, <1>10 DEF ConvertsExactly

\* A Boolean counts as 0 or 1, null as 0, and nothing else converts.
LEMMA OthersConvert ==
  ASSUME NEW v, HasNumber(v), v.type \notin {intValue, uintValue, realValue}
  PROVE  ConvertsExactly(v)
<1>0. /\ ~isInt(v) /\ ~isUInt(v) /\ ~isInt64(v) /\ ~isUInt64(v)
  BY DEF isInt, isUInt, isInt64, isUInt64, FitsInt
<1>1. v.type # realValue /\ ~isNumeric(v)
  BY <1>0 DEF isNumeric, isDouble, isIntegral
<1>2. /\ \A t \in {intValue, uintValue, realValue, booleanValue} :
            isConvertibleTo(v, t) <=> v.type \in {booleanValue, nullValue}
  BY <1>0, <1>1, TypesDiffer DEF isConvertibleTo
<1>3. 0 \in minInt..maxInt /\ 1 \in minInt..maxInt /\ 0 \in 0..maxUInt /\ 1 \in 0..maxUInt
  BY Limits
<1>4. 0 # Thrown /\ 1 # Thrown /\ 0 * RealUnit # Thrown /\ 1 * RealUnit # Thrown
      /\ TRUE # Thrown /\ FALSE # Thrown
  <2>1. TRUE # Thrown /\ FALSE # Thrown
    BY EditAssumption, Zenon
  <2>2. 0 * RealUnit = 0 /\ 1 * RealUnit = RealUnit /\ RealUnit \in Int
    BY Limits
  <2>3. 0 # Thrown /\ 1 # Thrown /\ RealUnit # Thrown
    BY <2>2, EditAssumption
  <2> QED BY <2>1, <2>2, <2>3
<1>5. CASE v.type = nullValue
  <2>1. asInt(v) = 0 /\ asUInt(v) = 0 /\ asDouble(v) = 0 /\ asBool(v) = FALSE
    BY <1>5, TypesDiffer DEF asInt, asUInt, AsInteger, asDouble, asBool
  <2> QED BY <1>0, <1>2, <1>3, <1>4, <1>5, <2>1 DEF ConvertsExactly
<1>6. CASE v.type = booleanValue
  <2>1. asInt(v) = v.n /\ asUInt(v) = v.n /\ asDouble(v) = v.n * RealUnit /\ asBool(v) = (v.n # 0)
    BY <1>6, TypesDiffer DEF asInt, asUInt, AsInteger, asDouble, asBool
  <2>2. v.n = 0 \/ v.n = 1
    BY <1>6 DEF HasNumber
  <2> QED BY <1>0, <1>2, <1>3, <1>4, <1>6, <2>1, <2>2 DEF ConvertsExactly
<1>7. CASE v.type \notin {nullValue, booleanValue}
  <2>1. asInt(v) = Thrown /\ asUInt(v) = Thrown /\ asDouble(v) = Thrown /\ asBool(v) = Thrown
    BY <1>7, TypesDiffer DEF asInt, asUInt, AsInteger, asDouble, asBool
  <2> QED BY <1>0, <1>2, <1>7, <2>1 DEF ConvertsExactly
<1> QED BY <1>5, <1>6, <1>7

LEMMA ConversionsHold == RootInv => ConversionsExact
<1> SUFFICES ASSUME RootInv PROVE ConversionsExact
  OBVIOUS
<1>1. ASSUME NEW v, HasNumber(v) PROVE ConvertsExactly(v)
  BY <1>1, IntegersConvert, RealsConvert, OthersConvert DEF HasNumber
<1>2. \A x \in Stored : HasNumber(x)
  <2>1. HasNumber(Null)
    BY DEF HasNumber, Null, Value, nullValue, booleanValue
  <2> QED BY <2>1, EditAssumption DEF Stored
<1>3. HasNumber(root)
  <2>1. CASE root = Null
    BY <1>2, <2>1 DEF Stored
  <2>2. CASE \E I \in SUBSET (0..MaxSize) : IsArray(root, I)
    <3>1. root.n = 0 /\ root.type = arrayValue
      BY <2>2 DEF IsArray
    <3> QED BY <3>1, TypesDiffer DEF HasNumber
  <2>3. CASE IsObject(root)
    <3>1. root.n = 0 /\ root.type = objectValue
      BY <2>3 DEF IsObject
    <3> QED BY <3>1, TypesDiffer DEF HasNumber
  <2> QED BY <2>1, <2>2, <2>3 DEF RootInv, Shaped
<1>4. ASSUME isContainer(root), NEW k \in DOMAIN root.m PROVE root.m[k] \in Stored
  <2>1. root # Null
    BY <1>4, TypesDiffer, Types DEF isContainer
  <2>2. CASE \E I \in SUBSET (0..MaxSize) : IsArray(root, I)
    BY <1>4, <2>2 DEF IsArray
  <2>3. CASE IsObject(root)
    BY <1>4, <2>3 DEF IsObject
  <2> QED BY <2>1, <2>2, <2>3 DEF RootInv, Shaped
<1> QED BY <1>1, <1>2, <1>3, <1>4 DEF ConversionsExact

\* What the tests promise the conversions keep, in a value that any calls lead
\* to, for any widths of the integers (json.cpp:2819-3018, 3385-3465).
THEOREM ConversionsStayExact == EditSpec => []ConversionsExact
  BY RootInvariant, ConversionsHold, PTL

-----------------------------------------------------------------------------
(* The parameters of the HTTP client *)

\* The turns of the loop of URLDecode, as a function.
UrlTurns(f, X, m, q) == f = [k \in 0..m |-> IF k = 0 THEN q ELSE UrlTurn(X, f[k - 1])]

LEMMA UrlTurnsAt ==
  ASSUME NEW f, NEW X, NEW m \in Nat, NEW q, UrlTurns(f, X, m, q), NEW k \in 0..m
  PROVE  f[k] = IF k = 0 THEN q ELSE UrlTurn(X, f[k - 1])
<1> DEFINE e(j) == IF j = 0 THEN q ELSE UrlTurn(X, f[j - 1])
           g == [j \in 0..m |-> e(j)]
<1>1. f = g
  BY DEF UrlTurns
<1>2. g[k] = e(k)
  OBVIOUS
<1>3. f[k] = e(k)
  <2> HIDE DEF g, e
  <2> QED BY <1>1, <1>2
<1> QED BY <1>3

LEMMA UrlTurnsExist ==
  ASSUME NEW X, NEW q
  PROVE  \A m \in Nat : \E f : UrlTurns(f, X, m, q)
<1> DEFINE T == {m \in Nat : \E f : UrlTurns(f, X, m, q)}
<1>1. 0 \in T
  <2> DEFINE e == [k \in 0..0 |-> q]
  <2>1. UrlTurns(e, X, 0, q)
    BY DEF UrlTurns
  <2> QED BY <2>1
<1>2. ASSUME NEW m \in Nat, m \in T PROVE m + 1 \in T
  <2>1. PICK f : UrlTurns(f, X, m, q)
    BY <1>2
  <2> DEFINE last == UrlTurn(X, f[m])
             g == [k \in 0..(m + 1) |-> IF k = m + 1 THEN last ELSE f[k]]
  <2>2. ASSUME NEW k \in 0..(m + 1)
        PROVE  g[k] = IF k = 0 THEN q ELSE UrlTurn(X, g[k - 1])
    <3>1. CASE k = m + 1
      <4>1. k # 0 /\ k - 1 = m /\ m \in 0..(m + 1) /\ m # m + 1
        BY <3>1
      <4>2. g[m] = f[m] /\ g[k] = last
        BY <3>1, <4>1
      <4> HIDE DEF g
      <4> QED BY <4>1, <4>2
    <3>2. CASE k # m + 1
      <4>1. k \in 0..m /\ g[k] = f[k] /\ (k # 0 => g[k - 1] = f[k - 1])
        BY <3>2
      <4> HIDE DEF g, last
      <4>2. f[k] = IF k = 0 THEN q ELSE UrlTurn(X, f[k - 1])
        BY <2>1, <4>1, UrlTurnsAt
      <4> QED BY <4>1, <4>2
    <3> QED BY <3>1, <3>2
  <2>3. g = [k \in 0..(m + 1) |-> g[k]]
    OBVIOUS
  <2>4. UrlTurns(g, X, m + 1, q)
    <3> HIDE DEF g, last
    <3> QED BY <2>2, <2>3 DEF UrlTurns
  <2> HIDE DEF g
  <2> QED BY <2>4
<1> HIDE DEF T
<1>3. Nat \subseteq T
  BY <1>1, <1>2, NatSetInduction
<1> QED BY <1>3 DEF T

LEMMA UrlDecodeIsTurns ==
  ASSUME NEW X, Len(X) \in Nat
  PROVE  \E f : /\ f[0] = [at |-> 1, output |-> <<>>]
                /\ \A k \in 1..Len(X) : f[k] = UrlTurn(X, f[k - 1])
                /\ URLDecode(X) = f[Len(X)].output
<1> DEFINE b == [at |-> 1, output |-> <<>>]
           m == Len(X)
           f == CHOOSE h : h = [k \in 0..Len(X) |-> IF k = 0 THEN b ELSE UrlTurn(X, h[k - 1])]
<1>1. \E h : h = [k \in 0..Len(X) |-> IF k = 0 THEN b ELSE UrlTurn(X, h[k - 1])]
  <2> HIDE DEF b
  <2>1. \E h : UrlTurns(h, X, Len(X), b)
    BY UrlTurnsExist
  <2> QED BY <2>1, Zenon DEF UrlTurns
<1>2. f = [k \in 0..Len(X) |-> IF k = 0 THEN b ELSE UrlTurn(X, f[k - 1])]
  <2> HIDE DEF b
  <2> QED BY <1>1, Zenon
<1>3. UrlTurns(f, X, Len(X), b)
  <2> HIDE DEF b
  <2> QED BY <1>2, Zenon DEF UrlTurns
<1>4. URLDecode(X) = f[Len(X)].output
  BY Zenon DEF URLDecode
<1> HIDE DEF f
<1>5. \A k \in 0..m : f[k] = IF k = 0 THEN b ELSE UrlTurn(X, f[k - 1])
  <2> HIDE DEF b
  <2> QED BY <1>3, UrlTurnsAt
<1>6. f[0] = b
  <2> HIDE DEF b
  <2>1. 0 \in 0..m
    OBVIOUS
  <2> QED BY <1>5, <2>1
<1>7. \A k \in 1..m : f[k] = UrlTurn(X, f[k - 1])
  <2> HIDE DEF b
  <2>1. \A k \in 1..m : k \in 0..m /\ k # 0
    OBVIOUS
  <2> QED BY <1>5, <2>1
<1> HIDE DEF m
<1>8. f[0] = b /\ (\A k \in 1..Len(X) : f[k] = UrlTurn(X, f[k - 1])) /\ URLDecode(X) = f[Len(X)].output
  BY <1>4, <1>6, <1>7 DEF m
<1> QED BY <1>8

\* Two digits stand for the byte they were made of.
LEMMA HexDigits ==
  ASSUME NEW c \in Byte
  PROVE  /\ Len(HexByte(c)) = 3 /\ HexByte(c) \in Seq(Byte) /\ HexByte(c)[1] = 37
         /\ char2num(HexByte(c)[2]) # -1 /\ char2num(HexByte(c)[3]) # -1
         /\ 16 * char2num(HexByte(c)[2]) + char2num(HexByte(c)[3]) = c
<1> DEFINE Digit(n) == IF n < 10 THEN 48 + n ELSE 55 + n
           h == c \div 16
           l == c % 16
<1>1. h \in 0..15 /\ l \in 0..15 /\ c = 16 * h + l
  BY DEF Byte
<1>2. HexByte(c) = <<37, Digit(h), Digit(l)>>
  BY DEF HexByte
<1>3. \A n \in 0..15 : Digit(n) \in Byte /\ char2num(Digit(n)) = n
  BY DEF Byte, char2num
<1> HIDE DEF h, l
<1>4. Digit(h) \in Byte /\ Digit(l) \in Byte /\ 37 \in Byte
  BY <1>1, <1>3 DEF Byte
<1>5. char2num(Digit(h)) = h /\ char2num(Digit(l)) = l /\ h # -1 /\ l # -1
  BY <1>1, <1>3
<1> DEFINE d == Digit(h)
           e == Digit(l)
<1> HIDE DEF Digit, d, e
<1>6. HexByte(c) = <<37, d, e>> /\ d \in Byte /\ e \in Byte
  BY <1>2, <1>4 DEF d, e
<1>7. /\ Len(HexByte(c)) = 3 /\ HexByte(c) \in Seq(Byte) /\ HexByte(c)[1] = 37
      /\ HexByte(c)[2] = d /\ HexByte(c)[3] = e
  BY <1>4, <1>6
<1> QED BY <1>1, <1>5, <1>7 DEF d, e

\* Where the escape of byte k + 1 is in the code of a text.
EscapesOf(v, X) ==
    /\ X \in Seq(Byte) /\ Len(X) = 3 * Len(v)
    /\ \A k \in 0..(Len(v) - 1) : \A i \in 1..3 : X[3 * k + i] = HexByte(v[k + 1])[i]

LEMMA CodeIsEscapes ==
  ASSUME NEW v \in Seq(Byte)
  PROVE  EscapesOf(v, URLCode(v))
<1> DEFINE m == Len(v)
           s == [i \in 1..m |-> HexByte(v[i])]
<1>1. m \in Nat /\ DOMAIN v = 1..m /\ \A i \in 1..m : v[i] \in Byte
  BY LenProperties, ElementOfSeq
<1>2. URLCode(v) = <<>> \o FlattenSeq(s)
  BY <1>1 DEF URLCode, URLEncode
<1>3. s = [i \in 1..m |-> s[i]]
  OBVIOUS
<1>4. \A i \in 1..m : s[i] = HexByte(v[i]) /\ s[i] \in Seq(Byte) /\ Len(s[i]) = 3
  BY <1>1, HexDigits
<1> HIDE DEF s, m
<1>5. URLCode(v) = <<>> \o Pieces(s, m)
  BY <1>2, <1>3 DEF Pieces
<1>6. ArePieces(Byte, s, m)
  BY <1>1, <1>4 DEF ArePieces
<1>7. Pieces(s, m) \in Seq(Byte)
  BY <1>1, <1>6, PiecesType
<1>8. URLCode(v) = Pieces(s, m)
  BY <1>5, <1>7, ConcatEmptySeq
<1> DEFINE T == {k \in Nat : k <= m => Len(Pieces(s, k)) = 3 * k}
<1>9. 0 \in T
  <2>1. Pieces(s, 0) = <<>>
    BY <1>6, PiecesStep
  <2> QED BY <2>1
<1>10. ASSUME NEW k \in Nat, k \in T PROVE k + 1 \in T
  <2> SUFFICES ASSUME k + 1 <= m PROVE Len(Pieces(s, k + 1)) = 3 * (k + 1)
    OBVIOUS
  <2>1. k \in 0..(m - 1) /\ k <= m /\ k + 1 \in 1..m
    BY <1>1
  <2>2. Grows(s, k)
    BY <1>6, <2>1, PiecesGrow
  <2> DEFINE a == Len(Pieces(s, k))
             b == Len(Pieces(s, k + 1))
             c == Len(s[k + 1])
  <2>3. a = 3 * k /\ b = a + c /\ c = 3
    BY <1>4, <1>10, <2>1, <2>2 DEF Grows
  <2> HIDE DEF a, b, c
  <2>4. b = 3 * (k + 1)
    BY <2>3
  <2> QED BY <2>4 DEF b
<1> HIDE DEF T
<1>11. Nat \subseteq T
  BY <1>9, <1>10, NatSetInduction
<1>12. \A k \in Nat : k <= m => Len(Pieces(s, k)) = 3 * k
  BY <1>11 DEF T
<1>13. ASSUME NEW k \in 0..(m - 1), NEW i \in 1..3
       PROVE  Pieces(s, m)[3 * k + i] = HexByte(v[k + 1])[i]
  <2>1. k \in 0..m /\ m \in 0..m /\ k < m /\ k \in Nat /\ k <= m /\ k + 1 \in 1..m
    BY <1>1
  <2>2. Placed(s, k, m)
    BY <1>6, <2>1, PieceAt
  <2>3. Len(s[k + 1]) = 3 /\ s[k + 1] = HexByte(v[k + 1]) /\ Len(Pieces(s, k)) = 3 * k
    BY <1>4, <1>12, <2>1
  <2>4. \A j \in 1..Len(s[k + 1]) : Pieces(s, m)[Len(Pieces(s, k)) + j] = s[k + 1][j]
    BY <2>2 DEF Placed
  <2> QED BY <2>3, <2>4
<1>14. Len(Pieces(s, m)) = 3 * m
  BY <1>1, <1>12
<1> QED BY <1>7, <1>8, <1>13, <1>14 DEF EscapesOf, m

\* The turns of the loop: on a byte for itself, on an escape, at the end.
LEMMA UrlTurnPlain ==
  ASSUME NEW X, Len(X) \in Nat, NEW i \in Nat, NEW u, i <= Len(X), X[i] \notin {37, 43}
  PROVE  UrlTurn(X, [at |-> i, output |-> u]) = [at |-> i + 1, output |-> Append(u, X[i])]
<1> DEFINE q == [at |-> i, output |-> u]
<1>1. q.at = i /\ q.output = u
  OBVIOUS
<1> HIDE DEF q
<1>2. ~(q.at > Len(X)) /\ ~EscapeAt(X, q.at) /\ X[q.at] # 43
  BY <1>1 DEF EscapeAt
<1>3. UrlTurn(X, q) = [at |-> q.at + 1, output |-> Append(q.output, X[q.at])]
  BY <1>2 DEF UrlTurn
<1> QED BY <1>1, <1>3 DEF q

LEMMA UrlTurnEscape ==
  ASSUME NEW X, Len(X) \in Nat, NEW i \in Nat, NEW u, i <= Len(X), EscapeAt(X, i)
  PROVE  UrlTurn(X, [at |-> i, output |-> u])
           = [at |-> i + 3, output |-> Append(u, 16 * char2num(X[i + 1]) + char2num(X[i + 2]))]
<1> DEFINE q == [at |-> i, output |-> u]
<1>1. q.at = i /\ q.output = u
  OBVIOUS
<1> HIDE DEF q
<1>2. ~(q.at > Len(X)) /\ q.at <= Len(X) /\ EscapeAt(X, q.at)
  BY <1>1
<1>3. UrlTurn(X, q) = [at |-> q.at + 3,
                       output |-> Append(q.output, 16 * char2num(X[q.at + 1]) + char2num(X[q.at + 2]))]
  BY <1>2 DEF UrlTurn
<1> QED BY <1>1, <1>3 DEF q

LEMMA UrlTurnEnds ==
  ASSUME NEW X, Len(X) \in Nat, NEW i \in Nat, NEW u, i > Len(X)
  PROVE  UrlTurn(X, [at |-> i, output |-> u]) = [at |-> i, output |-> u]
<1> DEFINE q == [at |-> i, output |-> u]
<1>1. q.at = i
  OBVIOUS
<1> HIDE DEF q
<1>2. q.at > Len(X) /\ ~(q.at <= Len(X))
  BY <1>1
<1>3. UrlTurn(X, q) = q
  BY <1>2 DEF UrlTurn
<1> QED BY <1>3 DEF q

\* The bytes that stand for themselves.
PlainByte == Byte \ {37, 43}

\* A text that is plain up to p and escaped behind, and what it stands for.
HalfCoded(X, w, p, n) ==
    /\ p \in Nat /\ n \in Nat
    /\ X \in Seq(Byte) /\ Len(X) = p + 3 * n
    /\ w \in Seq(Byte) /\ Len(w) = p + n
    /\ \A k \in 1..p : X[k] = w[k] /\ X[k] \notin {37, 43}
    /\ \A k \in 0..(n - 1) : \A i \in 1..3 : X[p + (3 * k + i)] = HexByte(w[p + (k + 1)])[i]

LEMMA CodedHalf ==
  ASSUME NEW P \in Seq(PlainByte), NEW v \in Seq(Byte)
  PROVE  HalfCoded(Cat(P, URLCode(v)), Cat(P, v), Len(P), Len(v))
<1> DEFINE p == Len(P)
           n == Len(v)
           C == URLCode(v)
           X == Cat(P, C)
           w == Cat(P, v)
<1>1. P \in Seq(Byte) /\ p \in Nat /\ n \in Nat /\ \A k \in 1..p : P[k] \notin {37, 43}
  <2>1. P \in Seq(PlainByte) /\ \A k \in 1..Len(P) : P[k] \in PlainByte
    BY ElementOfSeq
  <2>2. P \in Seq(Byte)
    BY DEF PlainByte
  <2> QED BY <2>1, <2>2, LenProperties DEF PlainByte
<1>2. C \in Seq(Byte) /\ Len(C) = 3 * n
      /\ \A k \in 0..(n - 1) : \A i \in 1..3 : C[3 * k + i] = HexByte(v[k + 1])[i]
  BY CodeIsEscapes DEF EscapesOf
<1> HIDE DEF C
<1>3. IsCat(Byte, P, C) /\ IsCat(Byte, P, v)
  BY <1>1, <1>2, CatAt
<1>4. /\ X \in Seq(Byte) /\ Len(X) = p + Len(C)
      /\ \A k \in 1..p : X[k] = P[k]
      /\ \A i \in 1..Len(C) : X[p + i] = C[i]
      /\ w \in Seq(Byte) /\ Len(w) = p + n
      /\ \A k \in 1..p : w[k] = P[k]
      /\ \A i \in 1..n : w[p + i] = v[i]
  BY <1>3 DEF IsCat
<1> HIDE DEF X, w, p, n
<1>5. ASSUME NEW k \in 0..(n - 1), NEW i \in 1..3
      PROVE  X[p + (3 * k + i)] = HexByte(w[p + (k + 1)])[i]
  <2> DEFINE j == 3 * k + i
             l == k + 1
  <2>1. j \in 1..(3 * n) /\ l \in 1..n
    BY <1>1
  <2>2. C[j] = HexByte(v[l])[i]
    BY <1>2
  <2> HIDE DEF j, l
  <2>3. X[p + j] = C[j] /\ w[p + l] = v[l]
    BY <1>2, <1>4, <2>1
  <2>4. X[p + j] = HexByte(w[p + l])[i]
    BY <2>2, <2>3
  <2> QED BY <2>4 DEF j, l
<1>6. \A k \in 1..p : X[k] = w[k] /\ X[k] \notin {37, 43}
  BY <1>1, <1>4
<1>7. HalfCoded(X, w, p, n)
  BY <1>1, <1>2, <1>4, <1>5, <1>6 DEF HalfCoded
<1> QED BY <1>7 DEF X, w, p, n, C

\* How far turn k has read.
HalfPos(p, k) == IF k <= p THEN k ELSE p + 3 * (k - p)

UrlState(w, p, k) == [at |-> HalfPos(p, k) + 1, output |-> SubSeq(w, 1, k)]

LEMMA UrlTurnGoesOn ==
  ASSUME NEW X, NEW w, NEW p, NEW n, HalfCoded(X, w, p, n), NEW k \in 0..((p + n) - 1)
  PROVE  UrlTurn(X, UrlState(w, p, k)) = UrlState(w, p, k + 1)
<1> DEFINE u == SubSeq(w, 1, k)
           i == HalfPos(p, k) + 1
<1>1. /\ p \in Nat /\ n \in Nat /\ w \in Seq(Byte) /\ Len(w) = p + n /\ Len(X) = p + 3 * n
      /\ \A j \in 1..p : X[j] = w[j] /\ X[j] \notin {37, 43}
  BY DEF HalfCoded
<1>2. k \in Nat /\ k + 1 <= p + n /\ Len(X) \in Nat
  BY <1>1
<1>3. Append(u, w[k + 1]) = SubSeq(w, 1, k + 1)
  BY <1>1, <1>2, GrowPrefix
<1> HIDE DEF u
<1>4. CASE k < p
  <2>1. i = k + 1 /\ HalfPos(p, k + 1) = k + 1 /\ k + 1 \in 1..p /\ i \in Nat
    BY <1>1, <1>2, <1>4 DEF HalfPos
  <2>2. X[i] = w[k + 1] /\ X[i] \notin {37, 43} /\ i <= Len(X)
    BY <1>1, <2>1
  <2> HIDE DEF i
  <2>3. UrlTurn(X, [at |-> i, output |-> u]) = [at |-> i + 1, output |-> Append(u, X[i])]
    BY <1>2, <2>1, <2>2, UrlTurnPlain
  <2>4. HalfPos(p, k + 1) + 1 = i + 1
    BY <2>1
  <2> QED BY <1>3, <2>2, <2>3, <2>4 DEF UrlState, u, i
<1>5. CASE ~(k < p)
  <2> DEFINE j == k - p
             c == w[k + 1]
  <2>1. j \in 0..(n - 1) /\ i = p + (3 * j + 1) /\ HalfPos(p, k + 1) = p + 3 * (j + 1)
        /\ p + (j + 1) = k + 1
    <3>1. k >= p
      BY <1>1, <1>2, <1>5
    <3>2. k = p \/ k > p
      BY <1>1, <1>2, <3>1
    <3>3. HalfPos(p, k) = p + 3 * (k - p)
      BY <1>1, <1>2, <3>2 DEF HalfPos
    <3>4. HalfPos(p, k + 1) = p + 3 * ((k + 1) - p)
      BY <1>1, <1>2, <3>1 DEF HalfPos
    <3> QED BY <1>1, <1>2, <3>1, <3>3, <3>4
  <2>2. \A l \in 1..3 : X[p + (3 * j + l)] = HexByte(c)[l]
    <3>1. \A a \in 0..(n - 1) : \A l \in 1..3 : X[p + (3 * a + l)] = HexByte(w[p + (a + 1)])[l]
      BY DEF HalfCoded
    <3> HIDE DEF j
    <3>2. \A l \in 1..3 : X[p + (3 * j + l)] = HexByte(w[p + (j + 1)])[l]
      BY <2>1, <3>1
    <3>3. w[p + (j + 1)] = c
      BY <2>1
    <3> QED BY <3>2, <3>3
  <2> HIDE DEF j
  <2>3. i + 1 = p + (3 * j + 2) /\ i + 2 = p + (3 * j + 3) /\ i + 2 <= Len(X) /\ i \in Nat
        /\ i <= Len(X) /\ i + 3 = HalfPos(p, k + 1) + 1
    <3> HIDE DEF i
    <3> QED BY <1>1, <2>1
  <2> HIDE DEF i
  <2>4. X[i] = HexByte(c)[1] /\ X[i + 1] = HexByte(c)[2] /\ X[i + 2] = HexByte(c)[3]
    BY <2>1, <2>2, <2>3
  <2>5. c \in Byte
    <3>1. k + 1 \in 1..Len(w)
      BY <1>1, <1>2
    <3> QED BY <1>1, <3>1, ElementOfSeq
  <2>6. EscapeAt(X, i) /\ 16 * char2num(X[i + 1]) + char2num(X[i + 2]) = c
    BY <2>3, <2>4, <2>5, HexDigits DEF EscapeAt
  <2> HIDE DEF c
  <2>7. UrlTurn(X, [at |-> i, output |-> u])
          = [at |-> i + 3, output |-> Append(u, 16 * char2num(X[i + 1]) + char2num(X[i + 2]))]
    BY <1>2, <2>3, <2>6, UrlTurnEscape
  <2> QED BY <1>3, <2>3, <2>6, <2>7 DEF UrlState, u, i, c
<1> QED BY <1>4, <1>5

LEMMA HalfDecoded ==
  ASSUME NEW X, NEW w, NEW p, NEW n, HalfCoded(X, w, p, n)
  PROVE  URLDecode(X) = w
<1> DEFINE m == p + n
           x == Len(X)
           E(k) == IF k < m THEN k ELSE m
<1>1. /\ p \in Nat /\ n \in Nat /\ m \in Nat /\ x \in Nat /\ m <= x /\ x = p + 3 * n
      /\ w \in Seq(Byte) /\ Len(w) = m
  BY DEF HalfCoded
<1> HIDE DEF m, x
<1>2. PICK f : /\ f[0] = [at |-> 1, output |-> <<>>]
               /\ \A k \in 1..x : f[k] = UrlTurn(X, f[k - 1])
               /\ URLDecode(X) = f[x].output
  BY <1>1, UrlDecodeIsTurns DEF x
<1>3. \A k \in 0..(m - 1) : UrlTurn(X, UrlState(w, p, k)) = UrlState(w, p, k + 1)
  BY UrlTurnGoesOn DEF m
<1>4. UrlTurn(X, UrlState(w, p, m)) = UrlState(w, p, m)
  <2> DEFINE i == HalfPos(p, m) + 1
             u == SubSeq(w, 1, m)
  <2>1. i = p + 3 * n + 1
    <3>1. CASE n = 0
      BY <1>1, <3>1 DEF HalfPos, m
    <3>2. CASE n # 0
      BY <1>1, <3>2 DEF HalfPos, m
    <3> QED BY <3>1, <3>2
  <2> HIDE DEF i, u
  <2>2. i \in Nat /\ i > Len(X) /\ Len(X) \in Nat
    BY <1>1, <2>1 DEF x
  <2>3. UrlTurn(X, [at |-> i, output |-> u]) = [at |-> i, output |-> u]
    BY <2>2, UrlTurnEnds
  <2> QED BY <2>3 DEF UrlState, i, u
<1> DEFINE T == {k \in Nat : k <= x => f[k] = UrlState(w, p, E(k))}
<1>5. 0 \in T
  <2>1. E(0) = 0 /\ HalfPos(p, 0) = 0
    BY <1>1 DEF HalfPos
  <2>2. SubSeq(w, 1, 0) = <<>>
    BY <1>1, SubSeqNothing
  <2>3. UrlState(w, p, 0) = [at |-> 1, output |-> <<>>]
    BY <2>1, <2>2 DEF UrlState
  <2> HIDE DEF E
  <2> QED BY <1>2, <2>1, <2>3
<1>6. ASSUME NEW k \in Nat, k \in T PROVE k + 1 \in T
  <2> SUFFICES ASSUME k + 1 <= x PROVE f[k + 1] = UrlState(w, p, E(k + 1))
    <3> HIDE DEF E
    <3> QED OBVIOUS
  <2>1. k + 1 \in 1..x /\ k <= x /\ (k + 1) - 1 = k
    BY <1>1
  <2>2. f[k] = UrlState(w, p, E(k))
    <3> HIDE DEF E
    <3> QED BY <1>6, <2>1
  <2>3. f[k + 1] = UrlTurn(X, f[k])
    BY <1>2, <2>1
  <2>4. CASE k < m
    <3>1. E(k) = k /\ E(k + 1) = k + 1 /\ k \in 0..(m - 1)
      BY <1>1, <2>4
    <3> HIDE DEF E
    <3> QED BY <1>3, <2>2, <2>3, <3>1
  <2>5. CASE ~(k < m)
    <3>1. E(k) = m /\ E(k + 1) = m
      BY <1>1, <2>5
    <3> HIDE DEF E
    <3> QED BY <1>4, <2>2, <2>3, <3>1
  <2> QED BY <2>4, <2>5
<1> HIDE DEF T
<1>7. Nat \subseteq T
  BY <1>5, <1>6, NatSetInduction
<1>8. E(x) = m
  BY <1>1
<1> HIDE DEF E
<1>9. f[x] = UrlState(w, p, m)
  BY <1>1, <1>7, <1>8 DEF T
<1>10. f[x].output = SubSeq(w, 1, m)
  <2>1. f[x] = [at |-> HalfPos(p, m) + 1, output |-> SubSeq(w, 1, m)]
    BY <1>9, Zenon DEF UrlState
  <2> DEFINE a == HalfPos(p, m) + 1
             u == SubSeq(w, 1, m)
             q == f[x]
  <2> HIDE DEF a, u, q
  <2>2. q = [at |-> a, output |-> u]
    BY <2>1 DEF a, u, q
  <2>3. q.output = u
    BY <2>2
  <2> QED BY <2>3 DEF u, q
<1>11. SubSeq(w, 1, m) = w
  BY <1>1, SubSeqWhole
<1> QED BY <1>2, <1>10, <1>11

\* URLDecode undoes the client's coding of a value, for any bytes.
THEOREM CodeIsUndone ==
  ASSUME NEW v \in Seq(Byte)
  PROVE  URLDecode(URLCode(v)) = v
<1> DEFINE X == URLCode(v)
<1>1. HalfCoded(Cat(<<>>, X), Cat(<<>>, v), Len(<<>>), Len(v))
  <2>1. <<>> \in Seq(PlainByte)
    OBVIOUS
  <2> QED BY <2>1, CodedHalf
<1>2. URLDecode(Cat(<<>>, X)) = Cat(<<>>, v)
  <2> HIDE DEF X
  <2> QED BY <1>1, HalfDecoded
<1>3. X \in Seq(Byte)
  BY CodeIsEscapes DEF EscapesOf
<1> HIDE DEF X
<1>4. Cat(<<>>, X) = X /\ Cat(<<>>, v) = v
  BY <1>3, ConcatEmptySeq DEF Cat
<1> QED BY <1>2, <1>4 DEF X

\* A parameter that add_param adds to a content is read back after it,
\* whatever bytes the value holds, if the content and the key need no code.
THEOREM ParameterSurvives ==
  ASSUME NEW content \in Seq(PlainByte), NEW key \in Seq(PlainByte), NEW value \in Seq(Byte)
  PROVE  URLDecode(add_param(content, key, value)) = content \o key \o value
<1> DEFINE P == content \o key
<1>1. P \in Seq(PlainByte)
  BY ConcatProperties
<1>2. add_param(content, key, value) = Cat(P, URLCode(value))
  BY DEF add_param, URLCode, Cat
<1> HIDE DEF P
<1>3. URLDecode(Cat(P, URLCode(value))) = Cat(P, value)
  BY <1>1, CodedHalf, HalfDecoded
<1> QED BY <1>2, <1>3 DEF Cat, P
=============================================================================
