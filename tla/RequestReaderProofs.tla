------------------------- MODULE RequestReaderProofs -------------------------
(***************************************************************************)
(* RequestReader cuts the stream into the requests that were sent, for any *)
(* number and length of requests, any split of the stream into reads, and  *)
(* any bodies without NUL, as long as no rejected request's body holds     *)
(* text of a header; without the last condition no byte is lost either.    *)
(***************************************************************************)
EXTENDS RequestReaderInv, SeqLemmas

\* Bodies are text: what a read returns is appended whole.
Textual == NUL \notin Alphabet

-----------------------------------------------------------------------------
(* Tokens and requests. *)

LEMMA BodyType ==
  ASSUME NEW q \in Requests
  PROVE  /\ q.valid \in BOOLEAN
         /\ q.body \in Bodies
         /\ q.body \in Seq(Alphabet)
         /\ q.body \in Seq(Token)
         /\ Len(q.body) \in 0..MaxBody
         /\ \A j \in 1..Len(q.body) : q.body[j] \in Alphabet
<1>1. q.valid \in BOOLEAN /\ q.body \in Bodies
  BY DEF Requests
<1>2. PICK n \in 0..MaxBody : q.body \in [1..n -> Alphabet]
  BY <1>1 DEF Bodies
<1>3. n \in Nat
  BY RequestReaderAssumption
<1>4. q.body \in Seq(Alphabet)
  BY <1>2, <1>3, SeqDef
<1>5. Len(q.body) = n
  BY <1>2, <1>3, <1>4, LenProperties
<1>6. q.body \in Seq(Token)
  BY <1>4, SeqMonotonic DEF Token
<1> QED BY <1>1, <1>2, <1>4, <1>5, <1>6

LEMMA Tokens ==
  /\ CRLF \notin Headers /\ NUL \notin Headers /\ NUL # CRLF
  /\ Silent(CRLF)
  /\ \A t \in Token : t.field \in Nat \cup {NoField}
<1>1. \A q \in Requests : Header(q).text = "header" /\ Header(q).field = Len(q.body)
  BY DEF Header
<1>2. CRLF.text = "crlf" /\ NUL.text = "nul" /\ Silent(CRLF)
  BY DEF CRLF, NUL, Plain, Silent
<1>3. \A q \in Requests : Header(q).field \in Nat
  <2>1. \A q \in Requests : Len(q.body) \in Nat
    BY BodyType, LenProperties
  <2> QED BY <1>1, <2>1
<1>4. \A t \in Token : t.field \in Nat \cup {NoField}
  BY <1>2, <1>3, RequestReaderAssumption DEF Token, Headers, Silent
<1> QED BY <1>1, <1>2, <1>4 DEF Headers

\* What the client writes for one request.
LEMMA Encoding ==
  ASSUME NEW q \in Requests
  PROVE  /\ Encode(q) \in Seq(Token)
         /\ Len(Encode(q)) = 3 + Len(q.body)
         /\ Encode(q)[1] = Header(q)
         /\ Encode(q)[2] = CRLF
         /\ Encode(q)[3] = CRLF
         /\ \A j \in 1..Len(q.body) : Encode(q)[3 + j] = q.body[j]
<1> DEFINE first == Header(q)
           h == <<first, CRLF, CRLF>>
           b == q.body
<1>1. b \in Seq(Token) /\ Len(b) \in Nat
  BY BodyType, LenProperties
<1>2. first \in Token /\ CRLF \in Token
  BY DEF Token, Headers
<1>3. h \in Seq(Token) /\ Len(h) = 3 /\ h[1] = first /\ h[2] = CRLF /\ h[3] = CRLF
  <2> HIDE DEF first
  <2> QED BY <1>2
<1>4. Encode(q) = Cat(h, b)
  BY DEF Encode, Cat
<1>5. /\ Cat(h, b) \in Seq(Token)
      /\ Len(Cat(h, b)) = Len(h) + Len(b)
      /\ \A i \in 1..Len(h) : Cat(h, b)[i] = h[i]
      /\ \A i \in 1..Len(b) : Cat(h, b)[Len(h) + i] = b[i]
  <2> HIDE DEF h, b
  <2>1. IsCat(Token, h, b)
    BY <1>1, <1>3, CatAt
  <2> QED BY <2>1 DEF IsCat
<1> HIDE DEF h, first, b
<1>6. 1 \in 1..Len(h) /\ 2 \in 1..Len(h) /\ 3 \in 1..Len(h)
  BY <1>3
<1>7. /\ Encode(q) \in Seq(Token) /\ Len(Encode(q)) = 3 + Len(b)
      /\ Encode(q)[1] = first /\ Encode(q)[2] = CRLF /\ Encode(q)[3] = CRLF
  BY <1>3, <1>4, <1>5, <1>6
<1>8. \A j \in 1..Len(b) : Encode(q)[3 + j] = b[j]
  BY <1>3, <1>4, <1>5
<1> QED BY <1>7, <1>8 DEF first, b

-----------------------------------------------------------------------------
(* The stream. *)

\* What the client writes, request by request.
Written == [i \in 1..MaxRequests |-> Encode(todo[i])]

LEMMA StreamPieces ==
  ASSUME TypeOK
  PROVE  /\ ArePieces(Token, Written, MaxRequests)
         /\ \A i \in 1..MaxRequests : Written[i] = Encode(todo[i])
         /\ \A n \in 0..MaxRequests : StreamOf(n) = Pieces(Written, n)
<1>1. \A i \in 1..MaxRequests : todo[i] \in Requests
  BY DEF TypeOK
<1>2. \A i \in 1..MaxRequests : Encode(todo[i]) \in Seq(Token)
  BY <1>1, Encoding
<1>3. \A i \in 1..MaxRequests : Written[i] = Encode(todo[i])
  BY DEF Written
<1>4. ArePieces(Token, Written, MaxRequests)
  BY <1>2, <1>3, RequestReaderAssumption DEF ArePieces
<1>5. ASSUME NEW n \in 0..MaxRequests PROVE StreamOf(n) = Pieces(Written, n)
  <2>1. \A i \in 1..n : i \in 1..MaxRequests
    BY RequestReaderAssumption
  <2>2. \A i \in 1..n : Written[i] = Encode(todo[i])
    BY <1>3, <2>1
  <2>3. [i \in 1..n |-> Written[i]] = [i \in 1..n |-> Encode(todo[i])]
    BY <2>2
  <2> QED BY <2>3 DEF StreamOf, Pieces
<1> QED BY <1>3, <1>4, <1>5

\* One request more.
LEMMA StreamGrows ==
  ASSUME TypeOK
  PROVE  /\ End(0) = 0
         /\ \A n \in 0..MaxRequests : StreamOf(n) \in Seq(Token) /\ End(n) \in Nat
         /\ \A n \in 0..(MaxRequests - 1) :
               /\ End(n + 1) = End(n) + 3 + Len(todo[n + 1].body)
               /\ \A p \in 1..End(n) : StreamOf(n + 1)[p] = StreamOf(n)[p]
               /\ \A i \in 1..Len(Encode(todo[n + 1])) :
                     StreamOf(n + 1)[End(n) + i] = Encode(todo[n + 1])[i]
<1>1. End(0) = 0
  <2>1. Pieces(Written, 0) = <<>>
    BY StreamPieces, PiecesStep
  <2>2. StreamOf(0) = <<>>
    BY <2>1, StreamPieces, RequestReaderAssumption
  <2> QED BY <2>2 DEF End
<1>2. \A n \in 0..MaxRequests : StreamOf(n) \in Seq(Token) /\ End(n) \in Nat
  BY StreamPieces, PiecesType DEF End
<1>3. ASSUME NEW n \in 0..(MaxRequests - 1)
      PROVE  /\ End(n + 1) = End(n) + 3 + Len(todo[n + 1].body)
             /\ \A p \in 1..End(n) : StreamOf(n + 1)[p] = StreamOf(n)[p]
             /\ \A i \in 1..Len(Encode(todo[n + 1])) :
                   StreamOf(n + 1)[End(n) + i] = Encode(todo[n + 1])[i]
  <2> DEFINE e == Encode(todo[n + 1])
             m == Len(todo[n + 1].body)
  <2>1. n \in 0..MaxRequests /\ n + 1 \in 0..MaxRequests /\ n + 1 \in 1..MaxRequests
    BY RequestReaderAssumption
  <2>2. /\ StreamOf(n) = Pieces(Written, n) /\ StreamOf(n + 1) = Pieces(Written, n + 1)
        /\ Written[n + 1] = e
    BY <2>1, StreamPieces
  <2>3. Grows(Written, n)
    BY StreamPieces, PiecesGrow
  <2>4. Len(e) = 3 + m /\ m \in Nat
    <3>1. todo[n + 1] \in Requests
      BY <2>1 DEF TypeOK
    <3> QED BY <3>1, Encoding, BodyType, LenProperties
  <2> HIDE DEF e, m
  <2>5. /\ Len(StreamOf(n)) \in Nat
        /\ Len(StreamOf(n + 1)) = Len(StreamOf(n)) + Len(e)
        /\ \A p \in 1..Len(StreamOf(n)) : StreamOf(n + 1)[p] = StreamOf(n)[p]
        /\ \A i \in 1..Len(e) : StreamOf(n + 1)[Len(StreamOf(n)) + i] = e[i]
    BY <2>2, <2>3 DEF Grows
  <2>6. /\ End(n) \in Nat
        /\ End(n + 1) = End(n) + Len(e)
        /\ \A p \in 1..End(n) : StreamOf(n + 1)[p] = StreamOf(n)[p]
        /\ \A i \in 1..Len(e) : StreamOf(n + 1)[End(n) + i] = e[i]
    BY <2>5 DEF End
  <2>7. End(n + 1) = End(n) + 3 + m
    <3>1. End(n) \in Nat /\ End(n + 1) = End(n) + Len(e)
      BY <2>6
    <3> QED BY <2>4, <3>1
  <2> QED BY <2>6, <2>7 DEF e, m
<1> QED BY <1>1, <1>2, <1>3

\* Where request k + 1 is in the stream, and what it looks like there.
LEMMA RequestAt ==
  ASSUME TypeOK, NEW k \in 0..MaxRequests, NEW n \in 0..MaxRequests, k < n
  PROVE  /\ todo[k + 1] \in Requests
         /\ End(k) \in Nat /\ End(k + 1) \in Nat /\ End(n) \in Nat
         /\ End(k + 1) = End(k) + 3 + Len(todo[k + 1].body)
         /\ End(k + 1) <= End(n)
         /\ StreamOf(n)[End(k) + 1] = Header(todo[k + 1])
         /\ StreamOf(n)[End(k) + 2] = CRLF
         /\ StreamOf(n)[End(k) + 3] = CRLF
         /\ \A j \in 1..Len(todo[k + 1].body) :
               StreamOf(n)[End(k) + 3 + j] = todo[k + 1].body[j]
<1> DEFINE q == todo[k + 1]
           e == Encode(q)
           X == StreamOf(n)
<1>1. k \in 0..(MaxRequests - 1) /\ k + 1 \in 0..MaxRequests /\ k + 1 \in 1..MaxRequests
  BY RequestReaderAssumption
<1>2. q \in Requests
  BY <1>1 DEF TypeOK
<1>3. /\ End(k) \in Nat /\ End(k + 1) \in Nat /\ End(n) \in Nat
      /\ End(k + 1) = End(k) + 3 + Len(q.body)
  BY <1>1, StreamGrows
<1>4. /\ End(k + 1) <= End(n)
      /\ \A i \in 1..Len(e) : X[End(k) + i] = e[i]
  <2>1. Placed(Written, k, n)
    BY StreamPieces, PieceAt
  <2>2. /\ StreamOf(k) = Pieces(Written, k) /\ X = Pieces(Written, n)
        /\ StreamOf(k + 1) = Pieces(Written, k + 1) /\ Written[k + 1] = e
    BY <1>1, StreamPieces
  <2> HIDE DEF e, q
  <2> QED BY <2>1, <2>2 DEF Placed, End
<1>5. /\ Len(e) = 3 + Len(q.body)
      /\ Len(q.body) \in Nat
      /\ e[1] = Header(q)
      /\ e[2] = CRLF /\ e[3] = CRLF
      /\ \A j \in 1..Len(q.body) : e[3 + j] = q.body[j]
  BY <1>2, Encoding, BodyType, LenProperties
<1> HIDE DEF e, X, q
<1>6. \A i \in 1..Len(e) : X[End(k) + i] = e[i]
  BY <1>4
<1>7. 1 \in 1..Len(e) /\ 2 \in 1..Len(e) /\ 3 \in 1..Len(e)
  BY <1>5
<1>8. X[End(k) + 1] = e[1] /\ X[End(k) + 2] = CRLF /\ X[End(k) + 3] = CRLF
  BY <1>5, <1>6, <1>7
<1>9. \A j \in 1..Len(q.body) : X[End(k) + 3 + j] = q.body[j]
  <2> SUFFICES ASSUME NEW j \in 1..Len(q.body) PROVE X[End(k) + 3 + j] = q.body[j]
    OBVIOUS
  <2>1. 3 + j \in 1..Len(e) /\ End(k) + (3 + j) = End(k) + 3 + j
    <3>1. Len(e) = 3 + Len(q.body) /\ Len(q.body) \in Nat /\ End(k) \in Nat
      BY <1>3, <1>5
    <3> QED BY <3>1
  <2>2. X[End(k) + (3 + j)] = e[3 + j]
    BY <1>6, <2>1
  <2> QED BY <1>5, <2>1, <2>2
<1> QED BY <1>2, <1>3, <1>4, <1>5, <1>8, <1>9 DEF q, X

-----------------------------------------------------------------------------
(* The bodies of the good requests. *)

\* One request more, kept folded.
Collect(x, q) == IF q.valid THEN Append(x, q.body) ELSE x

\* f[i] has the bodies of the good ones among the first i requests.
Collects(f, n) == f = [i \in 0..n |-> IF i = 0 THEN <<>> ELSE Collect(f[i-1], todo[i])]

LEMMA CollectsAt ==
  ASSUME NEW f, NEW n \in Nat, Collects(f, n), NEW i \in 0..n
  PROVE  f[i] = IF i = 0 THEN <<>> ELSE Collect(f[i-1], todo[i])
<1> DEFINE e(j) == IF j = 0 THEN <<>> ELSE Collect(f[j-1], todo[j])
           g == [j \in 0..n |-> e(j)]
<1>1. f = g
  BY DEF Collects
<1>2. g[i] = e(i)
  OBVIOUS
<1>3. f[i] = e(i)
  <2> HIDE DEF g, e
  <2> QED BY <1>1, <1>2
<1> QED BY <1>3

LEMMA CollectsExists == \A n \in Nat : \E f : Collects(f, n)
<1> DEFINE T == {n \in Nat : \E f : Collects(f, n)}
<1>1. 0 \in T
  <2> DEFINE e == [i \in 0..0 |-> <<>>]
  <2>1. e = [i \in 0..0 |-> IF i = 0 THEN <<>> ELSE Collect(e[i-1], todo[i])]
    OBVIOUS
  <2>2. Collects(e, 0)
    <3> HIDE DEF e
    <3> QED BY <2>1 DEF Collects
  <2> QED BY <2>2
<1>2. ASSUME NEW n \in Nat, n \in T PROVE n + 1 \in T
  <2>1. PICK f : Collects(f, n)
    BY <1>2
  <2> DEFINE last == Collect(f[n], todo[n + 1])
             g == [i \in 0..(n + 1) |-> IF i = n + 1 THEN last ELSE f[i]]
  <2>2. ASSUME NEW i \in 0..(n + 1)
        PROVE  g[i] = IF i = 0 THEN <<>> ELSE Collect(g[i-1], todo[i])
    <3>1. CASE i = n + 1
      BY <3>1
    <3>2. CASE i # n + 1
      <4>1. i \in 0..n /\ g[i] = f[i] /\ (i # 0 => i - 1 \in 0..n /\ g[i-1] = f[i-1])
        BY <3>2
      <4>2. f[i] = IF i = 0 THEN <<>> ELSE Collect(f[i-1], todo[i])
        BY <2>1, <4>1, CollectsAt
      <4> HIDE DEF g
      <4> QED BY <4>1, <4>2
    <3> QED BY <3>1, <3>2
  <2>3. g = [i \in 0..(n + 1) |-> g[i]]
    OBVIOUS
  <2>4. Collects(g, n + 1)
    <3> HIDE DEF g
    <3> QED BY <2>2, <2>3 DEF Collects
  <2> HIDE DEF g
  <2> QED BY <2>4
<1> HIDE DEF T
<1>3. Nat \subseteq T
  BY <1>1, <1>2, NatSetInduction
<1> QED BY <1>3 DEF T

LEMMA BodiesSteps ==
  ASSUME TypeOK
  PROVE  /\ BodiesOf(0) = <<>>
         /\ \A n \in 0..(MaxRequests - 1) :
               BodiesOf(n + 1) = IF todo[n + 1].valid
                                 THEN Append(BodiesOf(n), todo[n + 1].body)
                                 ELSE BodiesOf(n)
<1> DEFINE m == Len(todo)
           f == CHOOSE h : h = [i \in 0..m |-> IF i = 0 THEN <<>>
                                  ELSE IF todo[i].valid THEN Append(h[i-1], todo[i].body)
                                  ELSE h[i-1]]
<1>0. m = MaxRequests /\ MaxRequests \in Nat
  BY RequestReaderAssumption DEF TypeOK
<1>1. \E h : Collects(h, m)
  BY <1>0, CollectsExists
<1>2. Collects(f, m)
  <2> HIDE DEF m
  <2> QED BY <1>1, Zenon DEF Collects, Collect
<1>3. \A n : BodiesOf(n) = f[n]
  BY DEF BodiesOf
<1> HIDE DEF m, f
<1>4. ASSUME NEW i \in 0..MaxRequests
      PROVE  f[i] = IF i = 0 THEN <<>> ELSE Collect(f[i-1], todo[i])
  BY <1>0, <1>2, CollectsAt
<1>5. f[0] = <<>>
  <2>1. 0 \in 0..MaxRequests
    BY <1>0
  <2> QED BY <1>4, <2>1
<1>6. ASSUME NEW n \in 0..(MaxRequests - 1)
      PROVE  f[n + 1] = Collect(f[n], todo[n + 1])
  <2>1. n + 1 \in 0..MaxRequests /\ n + 1 # 0 /\ (n + 1) - 1 = n
    BY <1>0
  <2> QED BY <1>4, <2>1
<1> QED BY <1>3, <1>5, <1>6, Zenon DEF Collect

LEMMA BodiesType ==
  ASSUME TypeOK
  PROVE  \A n \in 0..MaxRequests : BodiesOf(n) \in Seq(Bodies)
<1> DEFINE T == {n \in Nat : n \in 0..MaxRequests => BodiesOf(n) \in Seq(Bodies)}
<1>1. 0 \in T
  <2>1. <<>> \in Seq(Bodies)
    OBVIOUS
  <2> QED BY <2>1, BodiesSteps
<1>2. ASSUME NEW n \in Nat, n \in T PROVE n + 1 \in T
  <2> SUFFICES ASSUME n + 1 \in 0..MaxRequests PROVE BodiesOf(n + 1) \in Seq(Bodies)
    OBVIOUS
  <2>1. n \in 0..(MaxRequests - 1) /\ n \in 0..MaxRequests
    BY RequestReaderAssumption
  <2>2. todo[n + 1] \in Requests
    BY <2>1 DEF TypeOK
  <2>3. todo[n + 1].body \in Bodies /\ BodiesOf(n) \in Seq(Bodies)
    BY <1>2, <2>1, <2>2, BodyType
  <2>4. Append(BodiesOf(n), todo[n + 1].body) \in Seq(Bodies)
    BY <2>3, AppendProperties
  <2> QED BY <2>1, <2>3, <2>4, BodiesSteps
<1> HIDE DEF T
<1>3. Nat \subseteq T
  BY <1>1, <1>2, NatSetInduction
<1> QED BY <1>3 DEF T

\* The bodies of the first requests come first.
LEMMA BodiesPrefix ==
  ASSUME TypeOK, NEW k \in 0..MaxRequests, NEW n \in 0..MaxRequests, k <= n
  PROVE  IsPrefix(BodiesOf(k), BodiesOf(n))
<1> DEFINE P(j) == IsPrefix(BodiesOf(k), BodiesOf(j))
           T == {j \in Nat : j \in 0..MaxRequests /\ k <= j => P(j)}
<1>0. k \in Nat /\ n \in Nat /\ MaxRequests \in Nat
  BY RequestReaderAssumption
<1>1. P(k)
  <2>1. BodiesOf(k) \in Seq(Bodies)
    BY BodiesType
  <2> QED BY <2>1, PrefixReflexive
<1>2. 0 \in T
  <2>1. k <= 0 => k = 0
    BY <1>0
  <2> HIDE DEF P
  <2> QED BY <1>1, <2>1
<1>3. ASSUME NEW j \in Nat, j \in T PROVE j + 1 \in T
  <2> SUFFICES ASSUME j + 1 \in 0..MaxRequests, k <= j + 1 PROVE P(j + 1)
    <3> HIDE DEF P
    <3> QED OBVIOUS
  <2>1. CASE k = j + 1
    BY <1>1, <2>1
  <2>2. CASE k # j + 1
    <3>1. j \in 0..MaxRequests /\ j \in 0..(MaxRequests - 1) /\ k <= j
      BY <1>0, <2>2
    <3>2. P(j)
      <4> HIDE DEF P
      <4> QED BY <1>3, <3>1
    <3>3. todo[j + 1] \in Requests
      BY <1>0, <3>1 DEF TypeOK
    <3>4. todo[j + 1].body \in Bodies
      BY <3>3, BodyType
    <3>5. BodiesOf(k) \in Seq(Bodies) /\ BodiesOf(j) \in Seq(Bodies)
      BY <3>1, BodiesType
    <3>6. IsPrefix(BodiesOf(k), Append(BodiesOf(j), todo[j + 1].body))
      BY <3>2, <3>4, <3>5, PrefixAppend
    <3> QED BY <3>1, <3>2, <3>6, BodiesSteps
  <2> QED BY <2>1, <2>2
<1> HIDE DEF P, T
<1>4. Nat \subseteq T
  BY <1>2, <1>3, NatSetInduction
<1>5. n \in 0..MaxRequests /\ k <= n => P(n)
  BY <1>0, <1>4 DEF T
<1> QED BY <1>5 DEF P

-----------------------------------------------------------------------------
(* Where the receiver is. *)

LEMMA ClientKept ==
  ASSUME UNCHANGED todo
  PROVE  /\ \A n : StreamOf(n)' = StreamOf(n)
         /\ \A n : BodiesOf(n)' = BodiesOf(n)
         /\ \A n : End(n)' = End(n)
<1>1. \A n : StreamOf(n)' = StreamOf(n)
  BY DEF StreamOf, Encode
<1>2. \A n : BodiesOf(n)' = BodiesOf(n)
  BY DEF BodiesOf
<1> QED BY <1>1, <1>2 DEF End

LEMMA Numbers ==
  ASSUME TypeOK
  PROVE  /\ Len(buf) \in Nat /\ Len(wire) \in Nat
         /\ nsent \in 0..MaxRequests /\ nsent \in Nat
         /\ End(nsent) \in Nat
         /\ At = End(nsent) - Len(buf) - Len(wire)
<1>1. Len(buf) \in Nat /\ Len(wire) \in Nat
  BY LenProperties DEF TypeOK
<1>2. nsent \in 0..MaxRequests /\ nsent \in Nat
  BY RequestReaderAssumption DEF TypeOK
<1>3. End(nsent) \in Nat
  BY <1>2, StreamGrows
<1> QED BY <1>1, <1>2, <1>3 DEF At

\* The beginning of the buffer has been used.
LEMMA BufferDropped ==
  ASSUME TypeOK, RestInv, UNCHANGED <<todo, nsent, wire>>, NEW c \in 0..Len(buf),
         buf' = SubSeq(buf, c + 1, Len(buf))
  PROVE  buf' \in Seq(Token) /\ RestInv' /\ At' = At + c
<1> DEFINE b == Len(buf)
           w == Len(wire)
           L == End(nsent)
           X == StreamOf(nsent)
<1>1. b \in Nat /\ w \in Nat /\ L \in Nat /\ At = L - b - w /\ c \in 0..b
  BY Numbers
<1>2. buf' \in Seq(Token) /\ Len(buf') = b - c /\ \A i \in 1..(b - c) : buf'[i] = buf[c + i]
  <2>1. IsSubSeq(Token, buf, c + 1, b)
    <3>1. buf \in Seq(Token)
      BY DEF TypeOK
    <3>2. c + 1 \in Nat \ {0} /\ b \in Nat /\ c + 1 <= b + 1 /\ b <= Len(buf)
      BY <1>1
    <3> HIDE DEF b
    <3> QED BY <3>1, <3>2, SubSeqAt
  <2>2. b - (c + 1) + 1 = b - c /\ \A i \in 1..(b - c) : c + 1 + i - 1 = c + i
    <3> HIDE DEF b, w, L
    <3> QED BY <1>1
  <2> HIDE DEF b
  <2> QED BY <2>1, <2>2 DEF IsSubSeq, b
<1>3. X' = X /\ L' = L /\ w' = w
  BY ClientKept DEF StreamOf, End
<1>4. At' = L - (b - c) - w
  <2> HIDE DEF b, w, L
  <2>1. At' = L' - Len(buf') - w'
    BY DEF At, L, w
  <2> QED BY <1>2, <1>3, <2>1
<1>5. At' = At + c
  <2> HIDE DEF b, w, L
  <2> QED BY <1>1, <1>4
<1>6. At >= 0 /\ (\A i \in 1..b : buf[i] = X[At + i]) /\ \A i \in 1..w : wire[i] = X[At + b + i]
  BY DEF RestInv
<1> HIDE DEF b, w, L, X
<1>7. At' >= 0
  BY <1>1, <1>5, <1>6
<1>8. \A i \in 1..(b - c) : buf'[i] = X[At' + i]
  <2> SUFFICES ASSUME NEW i \in 1..(b - c) PROVE buf'[i] = X[At' + i]
    OBVIOUS
  <2>1. c + i \in 1..b /\ At + (c + i) = At' + i
    BY <1>1, <1>5
  <2> QED BY <1>2, <1>6, <2>1
<1>9. \A i \in 1..w : wire[i] = X[At' + (b - c) + i]
  <2> SUFFICES ASSUME NEW i \in 1..w PROVE wire[i] = X[At' + (b - c) + i]
    OBVIOUS
  <2>1. At + b + i = At' + (b - c) + i
    BY <1>1, <1>5
  <2> QED BY <1>6, <2>1
<1>10. RestInv'
  <2>1. /\ \A i \in 1..Len(buf') : buf'[i] = X'[At' + i]
        /\ \A i \in 1..w : wire[i] = X'[At' + Len(buf') + i]
    BY <1>2, <1>3, <1>8, <1>9
  <2>2. w = Len(wire')
    BY DEF w
  <2> QED BY <1>7, <2>1, <2>2 DEF RestInv, X
<1> QED BY <1>2, <1>5, <1>10

\* The header's end is the first of two line ends.
LEMMA HeaderEndAt ==
  ASSUME NEW s \in Seq(Token), HeaderEnd(s) # 0
  PROVE  /\ HeaderEnd(s) \in 1..(Len(s) - 1)
         /\ s[HeaderEnd(s)] = CRLF /\ s[HeaderEnd(s) + 1] = CRLF
         /\ \A j \in 1..(HeaderEnd(s) - 1) : ~(s[j] = CRLF /\ s[j + 1] = CRLF)
<1> DEFINE ends == {i \in 1..(Len(s) - 1) : s[i] = CRLF /\ s[i + 1] = CRLF}
           e == CHOOSE i \in ends : \A j \in ends : i <= j
<1>1. Len(s) \in Nat
  BY LenProperties
<1>2. ends # {} /\ HeaderEnd(s) = e
  BY DEF HeaderEnd
<1>3. ends \subseteq Nat
  BY <1>1
<1>4. \E i \in ends : \A j \in ends : i <= j
  <2> HIDE DEF ends
  <2> QED BY <1>2, <1>3, LeastNatural
<1>5. e \in ends /\ \A j \in ends : e <= j
  <2> HIDE DEF ends
  <2> QED BY <1>4
<1> HIDE DEF e
<1>6. e \in 1..(Len(s) - 1) /\ s[e] = CRLF /\ s[e + 1] = CRLF
  BY <1>5
<1>7. ASSUME NEW j \in 1..(e - 1) PROVE ~(s[j] = CRLF /\ s[j + 1] = CRLF)
  <2>1. j \in 1..(Len(s) - 1) /\ ~(e <= j)
    BY <1>1, <1>6
  <2>2. j \notin ends
    <3> HIDE DEF ends
    <3> QED BY <1>5, <2>1
  <2> QED BY <2>1, <2>2
<1> QED BY <1>2, <1>6, <1>7

\* Between two requests the receiver is not beyond the end of the last one,
\* and what it still has of that one is part of its body.
LEMMA BetweenBytes ==
  ASSUME TypeOK, RestInv, Clean, NEW k \in 0..nsent, Between(k)
  PROVE  /\ End(k) \in Nat
         /\ At \in 0..End(k)
         /\ k = 0 => At = End(k)
         /\ At < End(k) => k > 0 /\ ~todo[k].valid
         /\ \A p \in (At + 1)..End(k) : Silent(StreamOf(nsent)[p])
<1> DEFINE X == StreamOf(nsent)
<1>1. k \in Nat /\ k \in 0..MaxRequests /\ nsent \in 0..MaxRequests /\ nsent \in Nat /\ At \in Int
  BY Numbers, RequestReaderAssumption
<1>2. End(k) \in Nat /\ End(0) = 0
  BY <1>1, StreamGrows
<1>3. CASE k = 0
  <2>1. At = 0 /\ End(k) = 0
    BY <1>2, <1>3 DEF Between
  <2>2. (At + 1)..End(k) = {}
    BY <2>1
  <2> QED BY <1>2, <1>3, <2>1, <2>2
<1>4. CASE k # 0
  <2>1. k > 0 /\ k - 1 \in 0..MaxRequests /\ k - 1 < nsent /\ (k - 1) + 1 = k
    BY <1>1, <1>4, RequestReaderAssumption
  <2>2. At >= End(k - 1) + 3 /\ At <= End(k) /\ (At < End(k) => ~todo[k].valid)
    BY <2>1 DEF Between
  <2>3. /\ todo[k] \in Requests /\ End(k - 1) \in Nat
        /\ End(k) = End(k - 1) + 3 + Len(todo[k].body)
        /\ \A j \in 1..Len(todo[k].body) : X[End(k - 1) + 3 + j] = todo[k].body[j]
    <3> HIDE DEF X
    <3>1. ASSUME NEW h \in 0..MaxRequests, h < nsent
          PROVE  /\ todo[h + 1] \in Requests /\ End(h) \in Nat
                 /\ End(h + 1) = End(h) + 3 + Len(todo[h + 1].body)
                 /\ \A j \in 1..Len(todo[h + 1].body) :
                       X[End(h) + 3 + j] = todo[h + 1].body[j]
      BY <1>1, <3>1, RequestAt DEF X
    <3> QED BY <2>1, <3>1
  <2> DEFINE m == Len(todo[k].body)
  <2>4. m \in Nat /\ (todo[k].valid \/ \A j \in 1..m : Silent(todo[k].body[j]))
    <3>1. k \in 1..Len(todo)
      BY <1>1, <2>1, RequestReaderAssumption DEF TypeOK
    <3> QED BY <2>3, <3>1, BodyType, LenProperties DEF Clean
  <2>5. ASSUME NEW p \in (At + 1)..End(k) PROVE Silent(X[p])
    <3> DEFINE j == p - (End(k - 1) + 3)
    <3>1. j \in 1..m /\ End(k - 1) + 3 + j = p
      <4>1. End(k - 1) \in Nat /\ End(k) = End(k - 1) + 3 + m
        BY <2>3
      <4> HIDE DEF m
      <4> QED BY <1>1, <1>2, <2>2, <2>4, <4>1
    <3>2. X[End(k - 1) + 3 + j] = todo[k].body[j]
      <4> HIDE DEF j, X
      <4> QED BY <2>3, <3>1
    <3>3. ~todo[k].valid
      BY <1>1, <1>2, <2>2
    <3> HIDE DEF j, X, m
    <3> QED BY <2>4, <3>1, <3>2, <3>3
  <2>6. At \in 0..End(k)
    BY <1>1, <1>2, <2>2, <2>3
  <2> HIDE DEF m, X
  <2>7. \A p \in (At + 1)..End(k) : Silent(X[p])
    BY <2>5
  <2> QED BY <1>2, <1>4, <2>1, <2>2, <2>6, <2>7 DEF X
<1> QED BY <1>3, <1>4

\* GetInfo finds nothing in silent text,
LEMMA GetInfoNothing ==
  ASSUME NEW h \in Seq(Token), \A i \in 1..Len(h) : Silent(h[i])
  PROVE  GetInfo(h) = {}
<1>1. DOMAIN h = 1..Len(h)
  BY LenProperties
<1>2. Fields(h) = {}
  BY <1>1 DEF Fields, Silent
<1> QED BY <1>2 DEF GetInfo

\* and what a request's own header says in silent text that ends with it.
LEMMA GetInfoOwn ==
  ASSUME NEW h \in Seq(Token), NEW q \in Requests, Len(h) > 0, h[Len(h)] = Header(q),
         \A i \in 1..(Len(h) - 1) : Silent(h[i])
  PROVE  GetInfo(h) = IF q.valid THEN {Len(q.body)} ELSE {}
<1> DEFINE n == Len(h)
<1>1. n \in Nat /\ DOMAIN h = 1..n /\ n \in 1..n
  BY LenProperties
<1>2. /\ h[n].field = Len(q.body) /\ h[n].field # NoField
      /\ h[n].post = IF q.valid THEN "request" ELSE "other"
  <2>1. Len(q.body) \in Nat
    BY BodyType, LenProperties
  <2> QED BY <2>1 DEF Header, NoField
<1>3. \A i \in 1..n : i # n => h[i].post = "none" /\ h[i].field = NoField
  <2>1. \A i \in 1..n : i # n => i \in 1..(n - 1)
    <3>1. n \in Nat
      BY <1>1
    <3> HIDE DEF n
    <3> QED BY <3>1
  <2> QED BY <2>1 DEF Silent
<1> HIDE DEF n
<1>4. Fields(h) = {n} /\ Posts(h) = {n}
  BY <1>1, <1>2, <1>3 DEF Fields, Posts
<1>5. IsFirst(n, {n}) /\ \A i : IsFirst(i, {n}) => i = n
  BY <1>1 DEF IsFirst
<1>6. CASE q.valid
  <2>1. {j \in Fields(h) :
           /\ IsFirst(j, Fields(h))
           /\ \E i \in Posts(h) : IsFirst(i, Posts(h)) /\ h[i].post = "request"} = {n}
    BY <1>2, <1>4, <1>5, <1>6
  <2> QED BY <1>2, <1>6, <2>1 DEF GetInfo
<1>7. CASE ~q.valid
  <2>1. ~\E i \in Posts(h) : IsFirst(i, Posts(h)) /\ h[i].post = "request"
    BY <1>2, <1>4, <1>7
  <2> QED BY <1>7, <2>1 DEF GetInfo
<1> QED BY <1>6, <1>7

\* What the header is that the receiver finds.
LEMMA HeaderFound ==
  ASSUME TypeOK, RestInv, Clean, NEW k \in 0..nsent, Between(k), HeaderEnd(buf) # 0
  PROVE  LET e == HeaderEnd(buf)
             found == GetInfo(HeaderText)
         IN  /\ e + 1 \in 0..Len(buf)
             /\ \/ /\ k > 0 /\ ~todo[k].valid
                   /\ At + (e + 1) <= End(k)
                   /\ found = {}
                \/ /\ k < nsent
                   /\ At + (e + 1) = End(k) + 3
                   /\ found = IF todo[k + 1].valid THEN {Len(todo[k + 1].body)} ELSE {}
<1> DEFINE e == HeaderEnd(buf)
           h == SubSeq(buf, 1, e - 1)
           b == Len(buf)
           X == StreamOf(nsent)
<1>1. /\ b \in Nat /\ k \in Nat /\ k \in 0..MaxRequests
      /\ nsent \in 0..MaxRequests /\ nsent \in Nat
      /\ At + b <= End(nsent) /\ End(nsent) \in Nat
  BY Numbers, RequestReaderAssumption
<1>2. /\ e \in 1..(b - 1) /\ buf[e] = CRLF /\ buf[e + 1] = CRLF
      /\ \A j \in 1..(e - 1) : ~(buf[j] = CRLF /\ buf[j + 1] = CRLF)
  <2>1. buf \in Seq(Token)
    BY DEF TypeOK
  <2> QED BY <2>1, HeaderEndAt
<1>3. \A i \in 1..b : buf[i] = X[At + i]
  BY DEF RestInv
<1>4. /\ End(k) \in Nat /\ At \in 0..End(k) /\ (k = 0 => At = End(k))
      /\ (At < End(k) => k > 0 /\ ~todo[k].valid)
      /\ \A p \in (At + 1)..End(k) : Silent(X[p])
  BY BetweenBytes
<1>5. Len(h) = e - 1 /\ h \in Seq(Token) /\ \A i \in 1..(e - 1) : h[i] = buf[i]
  <2>1. IsSubSeq(Token, buf, 1, e - 1)
    <3>1. buf \in Seq(Token)
      BY DEF TypeOK
    <3>2. 1 \in Nat \ {0} /\ e - 1 \in Nat /\ 1 <= (e - 1) + 1 /\ e - 1 <= Len(buf)
      <4> HIDE DEF e
      <4> QED BY <1>1, <1>2
    <3> HIDE DEF e
    <3> QED BY <3>1, <3>2, SubSeqAt
  <2>2. (e - 1) - 1 + 1 = e - 1 /\ \A i \in 1..(e - 1) : 1 + i - 1 = i
    <3> HIDE DEF e
    <3> QED BY <1>2
  <2> HIDE DEF e
  <2> QED BY <2>1, <2>2 DEF IsSubSeq
<1> HIDE DEF e, b, X
<1>6. \A i \in 1..(e - 1) : h[i] = X[At + i]
  <2>1. \A i \in 1..(e - 1) : i \in 1..b
    BY <1>1, <1>2
  <2> HIDE DEF h
  <2> QED BY <1>3, <1>5, <2>1
<1>8. X[At + e] = CRLF /\ X[At + (e + 1)] = CRLF
  <2>1. e \in 1..b /\ e + 1 \in 1..b
    BY <1>1, <1>2
  <2> QED BY <1>2, <1>3, <2>1
<1>9. \A j \in 1..(e - 1) : ~(X[At + j] = CRLF /\ X[At + (j + 1)] = CRLF)
  <2> SUFFICES ASSUME NEW j \in 1..(e - 1) PROVE ~(X[At + j] = CRLF /\ X[At + (j + 1)] = CRLF)
    OBVIOUS
  <2>1. j \in 1..b /\ j + 1 \in 1..b
    BY <1>1, <1>2
  <2> QED BY <1>2, <1>3, <2>1
<1> HIDE DEF h
<1>10. CASE At + (e + 1) <= End(k)
  <2>1. k > 0 /\ ~todo[k].valid
    BY <1>2, <1>4, <1>10
  <2>2. ASSUME NEW i \in 1..(e - 1) PROVE Silent(h[i])
    <3>1. At + i \in (At + 1)..End(k)
      BY <1>2, <1>4, <1>10
    <3> QED BY <1>4, <1>6, <3>1
  <2>3. GetInfo(h) = {}
    BY <1>5, <2>2, GetInfoNothing
  <2>4. e + 1 \in 0..b
    BY <1>1, <1>2
  <2> QED BY <1>10, <2>1, <2>3, <2>4 DEF e, h, b, HeaderText
<1>11. CASE At + (e + 1) > End(k)
  <2>1. k < nsent
    BY <1>1, <1>2, <1>4, <1>11
  <2> DEFINE q == todo[k + 1]
             f == Header(q)
  <2>2. /\ q \in Requests
        /\ X[End(k) + 1] = f /\ X[End(k) + 2] = CRLF /\ X[End(k) + 3] = CRLF
    BY <1>1, <2>1, RequestAt DEF X
  <2>3. f # CRLF
    BY <2>2, Tokens DEF Headers
  <2> HIDE DEF f, q
  <2>4. At + e = End(k) + 2
    <3>1. At + (e + 1) # End(k) + 1 /\ At + e # End(k) + 1
      BY <1>8, <2>2, <2>3
    <3>2. At + e >= End(k) + 2
      BY <1>2, <1>4, <1>11, <3>1
    <3>3. ASSUME At + e > End(k) + 2 PROVE FALSE
      <4> DEFINE j == End(k) + 2 - At
      <4>1. j \in 1..(e - 1) /\ At + j = End(k) + 2 /\ At + (j + 1) = End(k) + 3
        BY <1>2, <1>4, <3>3
      <4> HIDE DEF j
      <4> QED BY <1>9, <2>2, <4>1
    <3> QED BY <1>2, <1>4, <3>2, <3>3
  <2>5. Len(h) > 0 /\ h[Len(h)] = f
    <3>1. e - 1 \in 1..(e - 1) /\ At + (e - 1) = End(k) + 1
      BY <1>2, <1>4, <2>4
    <3>2. h[e - 1] = X[End(k) + 1]
      BY <1>6, <3>1
    <3> QED BY <1>5, <2>2, <3>1, <3>2
  <2>6. ASSUME NEW i \in 1..(Len(h) - 1) PROVE Silent(h[i])
    <3>1. At + i \in (At + 1)..End(k) /\ i \in 1..(e - 1)
      <4>1. i \in 1..(e - 1 - 1)
        BY <1>5
      <4> QED BY <1>2, <1>4, <2>4, <4>1
    <3> QED BY <1>4, <1>6, <3>1
  <2>7. GetInfo(h) = IF q.valid THEN {Len(q.body)} ELSE {}
    BY <1>5, <2>2, <2>5, <2>6, GetInfoOwn DEF f
  <2>8. At + (e + 1) = End(k) + 3 /\ e + 1 \in 0..b
    BY <1>1, <1>2, <1>4, <2>4
  <2> QED BY <2>1, <2>7, <2>8 DEF e, h, b, q, HeaderText
<1> QED BY <1>2, <1>4, <1>10, <1>11

\* A read of text is appended whole.
LEMMA TextAppended ==
  ASSUME Textual, NEW s \in Seq(Token), NEW piece \in Seq(Token)
  PROVE  AppendCString(s, piece) = Cat(s, piece)
<1>1. \A i \in 1..Len(piece) : piece[i] # NUL
  <2>1. NUL \notin Token
    BY Tokens DEF Textual, Token
  <2>2. \A i \in 1..Len(piece) : piece[i] \in Token
    BY ElementOfSeq
  <2> QED BY <2>1, <2>2
<1>2. {i \in 1..Len(piece) : piece[i] = NUL} = {}
  BY <1>1
<1> QED BY <1>2 DEF AppendCString, Cat

\* The first n bytes are read from the socket.
LEMMA WireRead ==
  ASSUME TypeOK, RestInv, NEW n \in Nat, n <= Len(wire)
  PROVE  /\ SubSeq(wire, 1, n) \in Seq(Token) /\ Len(SubSeq(wire, 1, n)) = n
         /\ \A i \in 1..n : SubSeq(wire, 1, n)[i] = StreamOf(nsent)[At + Len(buf) + i]
         /\ SubSeq(wire, n + 1, Len(wire)) \in Seq(Token)
         /\ Len(SubSeq(wire, n + 1, Len(wire))) = Len(wire) - n
         /\ \A i \in 1..(Len(wire) - n) :
               SubSeq(wire, n + 1, Len(wire))[i] = StreamOf(nsent)[At + Len(buf) + n + i]
<1> DEFINE w == Len(wire)
           b == Len(buf)
           X == StreamOf(nsent)
           u == SubSeq(wire, 1, n)
           v == SubSeq(wire, n + 1, w)
<1>1. b \in Nat /\ w \in Nat /\ At \in Int /\ n <= w
  BY Numbers
<1>2. \A i \in 1..w : wire[i] = X[At + b + i]
  BY DEF RestInv
<1>3. wire \in Seq(Token)
  BY DEF TypeOK
<1>4. IsSubSeq(Token, wire, 1, n) /\ IsSubSeq(Token, wire, n + 1, w)
  <2>1. 1 \in Nat \ {0} /\ 1 <= n + 1 /\ n <= Len(wire)
    OBVIOUS
  <2>2. n + 1 \in Nat \ {0} /\ n + 1 <= w + 1 /\ w <= Len(wire)
    BY <1>1
  <2> HIDE DEF w
  <2> QED BY <1>1, <1>3, <2>1, <2>2, SubSeqAt
<1> HIDE DEF w, b, X
<1>5. u \in Seq(Token) /\ Len(u) = n - 1 + 1 /\ \A i \in 1..(n - 1 + 1) : u[i] = wire[1 + i - 1]
  BY <1>4 DEF IsSubSeq
<1>6. v \in Seq(Token) /\ Len(v) = w - (n + 1) + 1 /\ \A i \in 1..(w - (n + 1) + 1) : v[i] = wire[n + 1 + i - 1]
  BY <1>4 DEF IsSubSeq
<1> HIDE DEF u, v
<1>7. Len(u) = n /\ Len(v) = w - n
  BY <1>1, <1>5, <1>6
<1>8. \A i \in 1..n : u[i] = X[At + b + i]
  <2> SUFFICES ASSUME NEW i \in 1..n PROVE u[i] = X[At + b + i]
    OBVIOUS
  <2>1. i \in 1..(n - 1 + 1) /\ 1 + i - 1 = i /\ i \in 1..w
    BY <1>1
  <2> QED BY <1>2, <1>5, <2>1
<1>9. \A i \in 1..(w - n) : v[i] = X[At + b + n + i]
  <2> SUFFICES ASSUME NEW i \in 1..(w - n) PROVE v[i] = X[At + b + n + i]
    OBVIOUS
  <2>1. i \in 1..(w - (n + 1) + 1) /\ n + 1 + i - 1 = n + i /\ n + i \in 1..w /\ At + b + (n + i) = At + b + n + i
    BY <1>1
  <2> QED BY <1>2, <1>6, <2>1
<1> QED BY <1>5, <1>6, <1>7, <1>8, <1>9 DEF u, v, w, b, X

-----------------------------------------------------------------------------
(* Every step keeps the invariant. *)

LEMMA InitInv ==
  ASSUME Init
  PROVE  Inv
<1>1. TypeOK
  <2>1. <<>> \in Seq(Token) /\ <<>> \in Seq(Seq(Token))
    OBVIOUS
  <2> QED BY <2>1, RequestReaderAssumption DEF Init, TypeOK
<1>2. At = 0 /\ Len(buf) = 0 /\ Len(wire) = 0
  BY <1>1, StreamGrows DEF Init, At
<1>3. RestInv
  <2>1. 1..Len(buf) = {} /\ 1..Len(wire) = {}
    BY <1>2
  <2> QED BY <1>2, <2>1 DEF RestInv
<1>4. Place(0)
  BY <1>1, <1>2, BodiesSteps DEF Init, Place, Between
<1>5. 0 \in 0..nsent /\ pc # "body"
  BY DEF Init
<1> QED BY <1>1, <1>3, <1>4, <1>5 DEF Inv

\* What a step owes to the invariant.
LEMMA InvKept ==
  ASSUME Inv, UNCHANGED todo, TypeOK', RestInv', pc' = "body" => buf' = <<>>,
         Clean => \E k \in 0..nsent' : Place(k)'
  PROVE  Inv'
<1>1. Clean' <=> Clean
  BY DEF Clean
<1> QED BY <1>1 DEF Inv

LEMMA ClientSendInv ==
  ASSUME Inv, ClientSend
  PROVE  Inv'
<1> DEFINE b == Len(buf)
           w == Len(wire)
           X == StreamOf(nsent)
           L == End(nsent)
           q == todo[nsent + 1]
           r == Encode(q)
<1>0. TypeOK /\ RestInv
  BY DEF Inv
<1>1. b \in Nat /\ w \in Nat /\ nsent \in 0..MaxRequests /\ nsent \in Nat /\ L \in Nat /\ At = L - b - w
  BY <1>0, Numbers
<1>2. nsent \in 0..(MaxRequests - 1) /\ nsent' \in 0..MaxRequests /\ nsent' = nsent + 1
  <2>1. Len(todo) = MaxRequests
    BY <1>0, RequestReaderAssumption DEF TypeOK
  <2> QED BY <1>1, <2>1, RequestReaderAssumption DEF ClientSend
<1>3. q \in Requests
  BY <1>0, <1>2 DEF TypeOK
<1>4. r \in Seq(Token) /\ Len(r) = 3 + Len(q.body)
  BY <1>3, Encoding
<1>5. wire' = Cat(wire, r) /\ IsCat(Token, wire, r)
  <2>1. wire \in Seq(Token)
    BY <1>0 DEF TypeOK
  <2>2. IsCat(Token, wire, r)
    <3> HIDE DEF r
    <3> QED BY <1>4, <2>1, CatAt
  <2> QED BY <2>2 DEF ClientSend, Cat
<1>6. /\ wire' \in Seq(Token) /\ Len(r) \in Nat /\ Len(wire') = w + Len(r)
      /\ \A i \in 1..w : wire'[i] = wire[i]
      /\ \A i \in 1..Len(r) : wire'[w + i] = r[i]
  <2> HIDE DEF r
  <2> QED BY <1>5 DEF IsCat
<1>7. /\ L' = L + Len(r)
      /\ \A p \in 1..L : X'[p] = X[p]
      /\ \A i \in 1..Len(r) : X'[L + i] = r[i]
  <2>1. UNCHANGED todo
    BY DEF ClientSend
  <2>2. X' = StreamOf(nsent + 1) /\ L' = End(nsent + 1)
    BY <1>2, <2>1 DEF StreamOf, End, Encode
  <2>3. Len(q.body) \in Nat
    BY <1>3, BodyType, LenProperties
  <2>4. /\ End(nsent + 1) = L + 3 + Len(q.body)
        /\ \A p \in 1..L : StreamOf(nsent + 1)[p] = X[p]
        /\ \A i \in 1..Len(r) : StreamOf(nsent + 1)[L + i] = r[i]
    BY <1>0, <1>2, StreamGrows
  <2>5. Len(r) = 3 + Len(q.body)
    BY <1>4
  <2> HIDE DEF q, r, X, L
  <2>6. L' = L + Len(r)
    <3>1. L \in Nat /\ L' = L + 3 + Len(q.body)
      BY <1>1, <2>2, <2>4
    <3> DEFINE m == Len(q.body)
               l == Len(r)
    <3>2. m \in Nat /\ l = 3 + m /\ L \in Nat /\ L' = L + 3 + m
      BY <2>3, <2>5, <3>1
    <3> HIDE DEF m, l
    <3>3. L' = L + l
      BY <3>2
    <3> QED BY <3>3 DEF l
  <2> QED BY <2>2, <2>4, <2>6
<1>8. TypeOK'
  <2> HIDE DEF b, w, X, L, q, r
  <2> QED BY <1>0, <1>2, <1>6 DEF TypeOK, ClientSend
<1>9. buf' = buf
  BY DEF ClientSend
<1>10. /\ At >= 0 /\ (\A i \in 1..b : buf[i] = X[At + i])
       /\ \A i \in 1..w : wire[i] = X[At + b + i]
  BY <1>0 DEF RestInv
<1>11. At' = L' - b - Len(wire')
  BY <1>9 DEF At
<1> HIDE DEF b, w, X, L, q, r
<1>12. At' = At
  BY <1>1, <1>6, <1>7, <1>11
<1>13. \A i \in 1..b : buf[i] = X'[At + i]
  <2> SUFFICES ASSUME NEW i \in 1..b PROVE buf[i] = X'[At + i]
    OBVIOUS
  <2>1. At + i \in 1..L
    BY <1>1, <1>10
  <2> QED BY <1>7, <1>10, <2>1
<1>14. \A i \in 1..Len(wire') : wire'[i] = X'[At + b + i]
  <2> SUFFICES ASSUME NEW i \in 1..(w + Len(r)) PROVE wire'[i] = X'[At + b + i]
    BY <1>6
  <2>1. CASE i <= w
    <3>1. i \in 1..w /\ At + b + i \in 1..L
      BY <1>1, <1>6, <1>10, <2>1
    <3> QED BY <1>6, <1>7, <1>10, <3>1
  <2>2. CASE i > w
    <3> DEFINE j == i - w
    <3>1. j \in 1..Len(r) /\ i = w + j /\ At + b + i = L + j
      BY <1>1, <1>6, <2>2
    <3> HIDE DEF j
    <3> QED BY <1>6, <1>7, <3>1
  <2> QED BY <1>1, <1>6, <2>1, <2>2
<1>15. RestInv'
  <2>1. b = Len(buf')
    BY <1>9 DEF b
  <2> QED BY <1>9, <1>10, <1>12, <1>13, <1>14, <2>1 DEF RestInv, X
<1>16. ASSUME Clean PROVE \E k \in 0..nsent' : Place(k)'
  <2>1. UNCHANGED <<todo, buf, pc, length, left, content, delivered>>
    BY DEF ClientSend
  <2>2. PICK k \in 0..nsent : Place(k)
    BY <1>16 DEF Inv
  <2>3. /\ BodiesOf(k)' = BodiesOf(k) /\ End(k)' = End(k) /\ End(k - 1)' = End(k - 1)
    BY <2>1, ClientKept
  <2>4. k \in 0..nsent' /\ (k < nsent => k < nsent')
    BY <1>1, <1>2
  <2>5. Place(k)'
    BY <1>12, <2>1, <2>2, <2>3, <2>4 DEF Place, Between, Inside
  <2> QED BY <2>4, <2>5
<1>17. UNCHANGED <<todo, pc, buf>> /\ (pc = "body" => buf = <<>>)
  BY DEF ClientSend, Inv
<1> QED BY <1>8, <1>15, <1>16, <1>17, InvKept

LEMMA RecvRequestInv ==
  ASSUME Inv, recv_request
  PROVE  Inv'
<1>1. UNCHANGED <<todo, ahead, nsent, wire, buf, length, left, content, delivered, rejected>>
  BY DEF recv_request, client
<1>2. StreamOf(nsent)' = StreamOf(nsent) /\ At' = At
  BY <1>1, ClientKept DEF StreamOf, At, End, Encode
<1>3. TypeOK' /\ RestInv'
  BY <1>1, <1>2 DEF Inv, TypeOK, RestInv, recv_request
<1>4. ASSUME Clean PROVE \E k \in 0..nsent' : Place(k)'
  <2>1. PICK k \in 0..nsent : Place(k)
    BY <1>4 DEF Inv
  <2>2. BodiesOf(k)' = BodiesOf(k) /\ End(k)' = End(k) /\ End(k - 1)' = End(k - 1)
    BY <1>1, ClientKept
  <2>3. Place(k)'
    BY <1>1, <1>2, <2>1, <2>2 DEF Place, Between, recv_request
  <2> QED BY <1>1, <2>3
<1>5. pc' # "body"
  BY DEF recv_request
<1> QED BY <1>1, <1>3, <1>4, <1>5, InvKept

LEMMA HeaderReadInv ==
  ASSUME Textual, Inv, header_read
  PROVE  Inv'
<1> DEFINE b == Len(buf)
           w == Len(wire)
           X == StreamOf(nsent)
           L == End(nsent)
<1>0. TypeOK /\ RestInv
  BY DEF Inv
<1>1. UNCHANGED <<todo, ahead, nsent, pc, length, left, content, delivered, rejected>>
  BY DEF header_read, client
<1>2. PICK n \in 1..READ_BUF_SIZE :
        /\ n <= Len(wire)
        /\ buf' = AppendCString(buf, SubSeq(wire, 1, n))
        /\ wire' = SubSeq(wire, n + 1, Len(wire))
  BY DEF header_read
<1>3. n \in Nat
  BY RequestReaderAssumption
<1> DEFINE u == SubSeq(wire, 1, n)
<1>4. b \in Nat /\ w \in Nat /\ L \in Nat /\ At = L - b - w
  BY <1>0, Numbers
<1>5. /\ u \in Seq(Token) /\ Len(u) = n
      /\ \A i \in 1..n : u[i] = X[At + b + i]
      /\ wire' \in Seq(Token) /\ Len(wire') = w - n
      /\ \A i \in 1..(w - n) : wire'[i] = X[At + b + n + i]
  BY <1>0, <1>2, <1>3, WireRead
<1>6. buf' = Cat(buf, u) /\ IsCat(Token, buf, u)
  <2>1. buf \in Seq(Token)
    BY <1>0 DEF TypeOK
  <2> HIDE DEF u
  <2> QED BY <1>2, <1>5, <2>1, TextAppended, CatAt DEF u
<1>7. /\ buf' \in Seq(Token) /\ Len(buf') = b + n
      /\ \A i \in 1..b : buf'[i] = buf[i]
      /\ \A i \in 1..n : buf'[b + i] = u[i]
  <2>1. Len(u) = n
    BY <1>5
  <2> HIDE DEF u
  <2> QED BY <1>6, <2>1 DEF IsCat
<1>8. X' = X /\ L' = L
  BY <1>1, ClientKept DEF StreamOf, End, Encode
<1>9. At >= 0 /\ \A i \in 1..b : buf[i] = X[At + i]
  BY <1>0 DEF RestInv
<1>10. At' = L' - Len(buf') - Len(wire')
  BY DEF At
<1> HIDE DEF b, w, X, L, u
<1>11. At' = At
  <2>1. Len(buf') = b + n /\ Len(wire') = w - n
    BY <1>5, <1>7
  <2> QED BY <1>3, <1>4, <1>8, <1>10, <2>1
<1>12. \A i \in 1..(b + n) : buf'[i] = X[At + i]
  <2> SUFFICES ASSUME NEW i \in 1..(b + n) PROVE buf'[i] = X[At + i]
    OBVIOUS
  <2>1. CASE i <= b
    <3>1. i \in 1..b
      BY <1>3, <1>4, <2>1
    <3> QED BY <1>7, <1>9, <3>1
  <2>2. CASE i > b
    <3> DEFINE j == i - b
    <3>1. j \in 1..n /\ i = b + j /\ At + b + j = At + i
      BY <1>3, <1>4, <2>2
    <3> HIDE DEF j
    <3> QED BY <1>5, <1>7, <3>1
  <2> QED BY <1>3, <1>4, <2>1, <2>2
<1>13. \A i \in 1..(w - n) : wire'[i] = X[At + (b + n) + i]
  <2> SUFFICES ASSUME NEW i \in 1..(w - n) PROVE wire'[i] = X[At + (b + n) + i]
    OBVIOUS
  <2>1. At + (b + n) + i = At + b + n + i
    BY <1>3, <1>4
  <2> QED BY <1>5, <2>1
<1>14. RestInv'
  <2>1. Len(buf') = b + n /\ Len(wire') = w - n
    BY <1>5, <1>7
  <2>2. \A i \in 1..Len(buf') : buf'[i] = X'[At' + i]
    BY <1>8, <1>11, <1>12, <2>1
  <2>3. \A i \in 1..Len(wire') : wire'[i] = X'[At' + Len(buf') + i]
    BY <1>8, <1>11, <1>13, <2>1
  <2> QED BY <1>9, <1>11, <2>2, <2>3 DEF RestInv, X
<1>15. TypeOK'
  <2>1. buf' \in Seq(Token) /\ wire' \in Seq(Token)
    BY <1>5, <1>7
  <2> QED BY <1>0, <1>1, <2>1 DEF TypeOK
<1>16. pc = "header" /\ pc' = pc
  BY DEF header_read
<1>17. ASSUME Clean PROVE \E k \in 0..nsent' : Place(k)'
  <2>1. PICK k \in 0..nsent : Place(k)
    BY <1>17 DEF Inv
  <2>2. BodiesOf(k)' = BodiesOf(k) /\ End(k)' = End(k) /\ End(k - 1)' = End(k - 1)
    BY <1>1, ClientKept
  <2>3. Place(k)'
    BY <1>1, <1>11, <1>16, <2>1, <2>2 DEF Place, Between
  <2> QED BY <1>1, <2>3
<1> QED BY <1>1, <1>14, <1>15, <1>16, <1>17, InvKept

\* Both kinds of header leave the receiver behind the empty line.
LEMMA HeaderDropped ==
  ASSUME TypeOK, RestInv, HeaderEnd(buf) # 0,
         UNCHANGED <<todo, nsent, wire>>, buf' = AfterHeader(buf)
  PROVE  buf' \in Seq(Token) /\ RestInv' /\ At' = At + (HeaderEnd(buf) + 1)
<1> DEFINE c == HeaderEnd(buf) + 1
<1>1. c \in 0..Len(buf)
  <2>1. buf \in Seq(Token) /\ Len(buf) \in Nat
    BY Numbers DEF TypeOK
  <2> QED BY <2>1, HeaderEndAt
<1>2. buf' = SubSeq(buf, c + 1, Len(buf))
  <2>1. Len(buf) \in Nat
    BY Numbers
  <2>2. HeaderEnd(buf) \in Int
    <3>1. buf \in Seq(Token)
      BY DEF TypeOK
    <3> QED BY <2>1, <3>1, HeaderEndAt
  <2>3. HeaderEnd(buf) + 2 = c + 1
    BY <2>2
  <2> HIDE DEF c
  <2> QED BY <2>3 DEF AfterHeader
<1> HIDE DEF c
<1>3. buf' \in Seq(Token) /\ RestInv' /\ At' = At + c
  BY <1>1, <1>2, BufferDropped
<1> QED BY <1>3 DEF c

\* A length that GetInfo finds stands in the header's text.
LEMMA LengthType ==
  ASSUME TypeOK, HeaderEnd(buf) # 0
  PROVE  GetInfo(HeaderText) \subseteq Nat
<1> DEFINE e == HeaderEnd(buf)
           h == SubSeq(buf, 1, e - 1)
<1>1. buf \in Seq(Token) /\ Len(buf) \in Nat
  BY Numbers DEF TypeOK
<1>2. 1 \in Nat \ {0} /\ e - 1 \in Nat /\ 1 <= (e - 1) + 1 /\ e - 1 <= Len(buf)
  <2>1. e \in 1..(Len(buf) - 1)
    BY <1>1, HeaderEndAt
  <2> HIDE DEF e
  <2> QED BY <1>1, <2>1
<1>3. h \in Seq(Token)
  <2>1. IsSubSeq(Token, buf, 1, e - 1)
    <3> HIDE DEF e
    <3> QED BY <1>1, <1>2, SubSeqAt
  <2> HIDE DEF e
  <2> QED BY <2>1 DEF IsSubSeq
<1> HIDE DEF h
<1>4. \A j \in Fields(h) : h[j].field \in Nat
  <2>1. \A j \in DOMAIN h : h[j] \in Token
    BY <1>3, ElementOfSeq, LenProperties
  <2> QED BY <2>1, Tokens DEF Fields
<1>5. GetInfo(h) \subseteq Nat
  BY <1>4 DEF GetInfo
<1> QED BY <1>5 DEF h, HeaderText

LEMMA HeaderValidInv ==
  ASSUME Inv, header_valid
  PROVE  Inv'
<1> DEFINE e == HeaderEnd(buf)
<1>0. TypeOK /\ RestInv
  BY DEF Inv
<1>1. UNCHANGED <<todo, ahead, nsent, wire, left, content, delivered, rejected>>
  BY DEF header_valid, client
<1>2. /\ e # 0 /\ buf' = AfterHeader(buf) /\ pc' = "length"
      /\ length' \in GetInfo(HeaderText)
  BY DEF header_valid
<1>3. buf' \in Seq(Token) /\ RestInv' /\ At' = At + (e + 1)
  BY <1>0, <1>1, <1>2, HeaderDropped
<1>4. length' \in Nat
  BY <1>0, <1>2, LengthType
<1>5. TypeOK'
  <2> HIDE DEF e
  <2> QED BY <1>0, <1>1, <1>2, <1>3, <1>4 DEF TypeOK
<1>6. ASSUME Clean PROVE \E k \in 0..nsent' : Place(k)'
  <2>1. PICK k \in 0..nsent : Place(k)
    BY <1>6 DEF Inv
  <2>2. Between(k)
    BY <2>1 DEF Place, header_valid
  <2>3. /\ k < nsent /\ At + (e + 1) = End(k) + 3
        /\ todo[k + 1].valid /\ length' = Len(todo[k + 1].body)
    BY <1>0, <1>2, <1>6, <2>2, HeaderFound
  <2> HIDE DEF e
  <2>4. BodiesOf(k)' = BodiesOf(k) /\ End(k)' = End(k) /\ End(k) \in Nat
    BY <1>0, <1>1, <1>6, <2>2, ClientKept, BetweenBytes
  <2>5. At' = End(k)' + 3 + 0
    BY <1>3, <2>3, <2>4
  <2>6. Inside(k, 0)'
    BY <1>1, <2>3, <2>5 DEF Inside
  <2>7. Place(k)'
    BY <1>1, <1>2, <2>1, <2>4, <2>6 DEF Place
  <2> QED BY <1>1, <2>7
<1>7. pc' # "body"
  BY <1>2
<1> QED BY <1>1, <1>3, <1>5, <1>6, <1>7, InvKept

LEMMA HeaderInvalidInv ==
  ASSUME Inv, header_invalid
  PROVE  Inv'
<1> DEFINE e == HeaderEnd(buf)
<1>0. TypeOK /\ RestInv
  BY DEF Inv
<1>1. UNCHANGED <<todo, ahead, nsent, wire, length, left, content, delivered>>
  BY DEF header_invalid, client
<1>2. /\ e # 0 /\ buf' = AfterHeader(buf) /\ pc' = "idle"
      /\ GetInfo(HeaderText) = {}
  BY DEF header_invalid
<1>3. buf' \in Seq(Token) /\ RestInv' /\ At' = At + (e + 1)
  BY <1>0, <1>1, <1>2, HeaderDropped
<1>4. e \in Nat
  <2>1. buf \in Seq(Token) /\ Len(buf) \in Nat
    BY <1>0, Numbers DEF TypeOK
  <2> QED BY <1>2, <2>1, HeaderEndAt
<1>5. TypeOK'
  <2> HIDE DEF e
  <2> QED BY <1>0, <1>1, <1>2, <1>3 DEF TypeOK, header_invalid
<1>6. \A j : BodiesOf(j)' = BodiesOf(j) /\ End(j)' = End(j)
  BY <1>1, ClientKept
<1>7. ASSUME Clean PROVE \E k \in 0..nsent' : Place(k)'
  <2>1. PICK k \in 0..nsent : Place(k)
    BY <1>7 DEF Inv
  <2>2. Between(k) /\ delivered = BodiesOf(k)
    BY <2>1 DEF Place, header_invalid
  <2>3. \/ k > 0 /\ ~todo[k].valid /\ At + (e + 1) <= End(k)
        \/ k < nsent /\ At + (e + 1) = End(k) + 3 /\ ~todo[k + 1].valid
    BY <1>0, <1>2, <1>7, <2>2, HeaderFound
  <2> HIDE DEF e
  <2>4. k \in Nat /\ k \in 0..MaxRequests /\ nsent \in Nat /\ nsent \in 0..MaxRequests /\ At \in Int
    BY <1>0, Numbers, RequestReaderAssumption
  <2>5. CASE k > 0 /\ ~todo[k].valid /\ At + (e + 1) <= End(k)
    <3>1. End(k - 1) + 3 <= At /\ End(k - 1) \in Nat
      <4>1. k - 1 \in 0..MaxRequests
        BY <2>4, <2>5, RequestReaderAssumption
      <4> QED BY <1>0, <2>2, <2>5, <4>1, StreamGrows DEF Between
    <3>2. End(k - 1) + 3 <= At' /\ At' <= End(k)
      BY <1>3, <1>4, <2>4, <2>5, <3>1
    <3>3. Between(k)'
      <4>1. k # 0 /\ ~todo'[k].valid
        BY <1>1, <2>4, <2>5
      <4> QED BY <1>6, <3>2, <4>1 DEF Between
    <3>4. Place(k)'
      BY <1>1, <1>2, <1>6, <2>2, <3>3 DEF Place
    <3> QED BY <1>1, <3>4
  <2>6. CASE k < nsent /\ At + (e + 1) = End(k) + 3 /\ ~todo[k + 1].valid
    <3>1. k + 1 \in 0..nsent /\ k \in 0..(MaxRequests - 1) /\ k + 1 > 0 /\ (k + 1) - 1 = k
      BY <2>4, <2>6, RequestReaderAssumption
    <3>2. delivered' = BodiesOf(k + 1)'
      BY <1>0, <1>1, <1>6, <2>2, <2>6, <3>1, BodiesSteps
    <3>3. /\ End(k) \in Nat /\ End(k + 1) = End(k) + 3 + Len(todo[k + 1].body)
          /\ todo[k + 1] \in Requests
      BY <1>0, <2>4, <2>6, RequestAt
    <3>4. Len(todo[k + 1].body) \in Nat
      BY <3>3, BodyType, LenProperties
    <3>5. End(k) + 3 <= At' /\ At' <= End(k + 1)
      BY <1>3, <2>6, <3>3, <3>4
    <3>6. Between(k + 1)'
      <4>1. k + 1 # 0 /\ ~todo'[k + 1].valid
        BY <1>1, <2>4, <2>6
      <4> QED BY <1>6, <3>1, <3>5, <4>1 DEF Between
    <3>7. Place(k + 1)'
      BY <1>2, <3>2, <3>6 DEF Place
    <3> QED BY <1>1, <3>1, <3>7
  <2> QED BY <2>3, <2>5, <2>6
<1>8. pc' # "body"
  BY <1>2
<1> QED BY <1>1, <1>3, <1>5, <1>7, <1>8, InvKept

\* Request k + 1 while its body is being read.
LEMMA InsideBody ==
  ASSUME TypeOK, NEW k \in 0..nsent, k < nsent, todo[k + 1].valid, length = Len(todo[k + 1].body)
  PROVE  /\ todo[k + 1].body \in Bodies /\ todo[k + 1].body \in Seq(Token)
         /\ length \in Nat /\ End(k) \in Nat
         /\ k + 1 \in 0..nsent /\ k + 1 > 0 /\ (k + 1) - 1 = k
         /\ End(k + 1) = End(k) + 3 + length
         /\ \A j \in 1..length : StreamOf(nsent)[End(k) + 3 + j] = todo[k + 1].body[j]
         /\ BodiesOf(k + 1) = Append(BodiesOf(k), todo[k + 1].body)
<1>1. k \in Nat /\ k \in 0..MaxRequests /\ nsent \in Nat /\ nsent \in 0..MaxRequests
  BY Numbers, RequestReaderAssumption
<1>2. k \in 0..(MaxRequests - 1) /\ k + 1 \in 0..nsent /\ k + 1 > 0 /\ (k + 1) - 1 = k
  BY <1>1, RequestReaderAssumption
<1>3. /\ todo[k + 1] \in Requests /\ End(k) \in Nat
      /\ End(k + 1) = End(k) + 3 + length
      /\ \A j \in 1..length : StreamOf(nsent)[End(k) + 3 + j] = todo[k + 1].body[j]
  BY <1>1, RequestAt
<1>4. todo[k + 1].body \in Bodies /\ todo[k + 1].body \in Seq(Token)
  BY <1>3, BodyType
<1>5. length \in Nat
  BY DEF TypeOK
<1>6. BodiesOf(k + 1) = Append(BodiesOf(k), todo[k + 1].body)
  BY <1>2, BodiesSteps
<1> QED BY <1>2, <1>3, <1>4, <1>5, <1>6

\* A request is complete.
LEMMA Delivering ==
  ASSUME TypeOK, NEW k \in 0..nsent, k < nsent, todo[k + 1].valid, length = Len(todo[k + 1].body),
         delivered = BodiesOf(k), delivered' = Append(delivered, todo[k + 1].body),
         UNCHANGED <<todo, nsent>>, pc' = "idle", At' = End(k) + 3 + length
  PROVE  k + 1 \in 0..nsent' /\ Place(k + 1)'
<1>1. /\ todo[k + 1].body \in Bodies
      /\ length \in Nat /\ End(k) \in Nat
      /\ k + 1 \in 0..nsent /\ k + 1 > 0 /\ (k + 1) - 1 = k
      /\ End(k + 1) = End(k) + 3 + length
      /\ BodiesOf(k + 1) = Append(BodiesOf(k), todo[k + 1].body)
  BY InsideBody
<1>2. \A j : BodiesOf(j)' = BodiesOf(j) /\ End(j)' = End(j)
  BY ClientKept
<1>3. delivered' = BodiesOf(k + 1)'
  BY <1>1, <1>2
<1>4. End(k) + 3 <= At' /\ At' <= End(k + 1) /\ ~(At' < End(k + 1))
  BY <1>1
<1>5. Between(k + 1)'
  <2>1. k + 1 # 0
    BY <1>1
  <2> QED BY <1>1, <1>2, <1>4, <2>1 DEF Between
<1>6. Place(k + 1)'
  BY <1>3, <1>5 DEF Place
<1> QED BY <1>1, <1>6

LEMMA BodyBufferedInv ==
  ASSUME Inv, body_buffered
  PROVE  Inv'
<1> DEFINE d == SubSeq(buf, 1, length)
           X == StreamOf(nsent)
<1>0. TypeOK /\ RestInv
  BY DEF Inv
<1>1. UNCHANGED <<todo, ahead, nsent, wire, length, left, content, rejected>>
  BY DEF body_buffered, client
<1>2. delivered' = Append(delivered, d) /\ pc' = "idle"
  BY DEF body_buffered
<1>3. length \in Nat /\ Len(buf) \in Nat /\ length \in 0..Len(buf) /\ length < Len(buf)
  BY <1>0, Numbers DEF body_buffered, TypeOK
<1>4. d \in Seq(Token) /\ Len(d) = length /\ \A i \in 1..length : d[i] = buf[i]
  <2>1. buf \in Seq(Token)
    BY <1>0 DEF TypeOK
  <2>2. 1 \in Nat \ {0} /\ 1 <= length + 1 /\ length <= Len(buf)
    BY <1>3
  <2>3. IsSubSeq(Token, buf, 1, length)
    BY <1>3, <2>1, <2>2, SubSeqAt
  <2>4. length - 1 + 1 = length /\ \A i \in 1..length : 1 + i - 1 = i
    BY <1>3
  <2> QED BY <2>3, <2>4 DEF IsSubSeq
<1>5. buf' \in Seq(Token) /\ RestInv' /\ At' = At + length
  <2>1. buf' = SubSeq(buf, length + 1, Len(buf))
    BY DEF body_buffered
  <2> QED BY <1>0, <1>1, <1>3, <2>1, BufferDropped
<1> HIDE DEF d
<1>6. TypeOK'
  <2>1. delivered' \in Seq(Seq(Token))
    <3>1. delivered \in Seq(Seq(Token))
      BY <1>0 DEF TypeOK
    <3> QED BY <1>2, <1>4, <3>1, AppendProperties
  <2> QED BY <1>0, <1>1, <1>2, <1>5, <2>1 DEF TypeOK
<1>7. ASSUME Clean PROVE \E k \in 0..nsent' : Place(k)'
  <2>1. PICK k \in 0..nsent : Place(k)
    BY <1>7 DEF Inv
  <2>2. /\ k < nsent /\ todo[k + 1].valid /\ length = Len(todo[k + 1].body)
        /\ At = End(k) + 3 + 0 /\ delivered = BodiesOf(k)
    BY <2>1 DEF Place, Inside, body_buffered
  <2> DEFINE q == todo[k + 1].body
  <2>3. /\ q \in Seq(Token) /\ End(k) \in Nat /\ At = End(k) + 3
        /\ \A j \in 1..length : X[End(k) + 3 + j] = q[j]
    BY <1>0, <2>2, InsideBody
  <2>4. d = q
    <3>1. \A i \in 1..Len(buf) : buf[i] = X[At + i]
      BY <1>0 DEF RestInv
    <3>2. \A i \in 1..length : i \in 1..Len(buf)
      BY <1>3
    <3>3. Len(q) = length
      BY <2>2
    <3> HIDE DEF q, X
    <3>4. \A i \in 1..length : d[i] = q[i]
      BY <1>4, <2>3, <3>1, <3>2
    <3> QED BY <1>4, <2>3, <3>3, <3>4, SameElements
  <2>5. At' = End(k) + 3 + length
    BY <1>5, <2>3
  <2>6. k + 1 \in 0..nsent' /\ Place(k + 1)'
    BY <1>0, <1>1, <1>2, <2>2, <2>4, <2>5, Delivering
  <2> QED BY <2>6
<1>8. pc' # "body"
  BY <1>2
<1> QED BY <1>1, <1>5, <1>6, <1>7, <1>8, InvKept

LEMMA BodyStartInv ==
  ASSUME Inv, body_start
  PROVE  Inv'
<1> DEFINE b == Len(buf)
           X == StreamOf(nsent)
<1>0. TypeOK /\ RestInv
  BY DEF Inv
<1>1. UNCHANGED <<todo, ahead, nsent, wire, length, delivered, rejected>>
  BY DEF body_start, client
<1>2. buf' = <<>> /\ content' = buf /\ left' = length - b /\ pc' = "body"
  BY DEF body_start, ClearBuffer
<1>3. b \in Nat /\ b \in 0..b /\ length \in Nat /\ length >= b
  BY <1>0, Numbers DEF body_start, TypeOK
<1>4. buf' \in Seq(Token) /\ RestInv' /\ At' = At + b
  <2>1. buf \in Seq(Token)
    BY <1>0 DEF TypeOK
  <2>2. b + 1 > b
    <3> HIDE DEF b
    <3> QED BY <1>3
  <2>3. buf' = SubSeq(buf, b + 1, b)
    <3> HIDE DEF b
    <3>1. SubSeq(buf, b + 1, b) = <<>>
      BY <1>3, <2>1, <2>2, SubSeqNothing
    <3> QED BY <1>2, <3>1
  <2> QED BY <1>0, <1>1, <1>3, <2>3, BufferDropped
<1>5. left' \in Nat /\ left' <= length /\ length - left' = b
  <2> HIDE DEF b
  <2> QED BY <1>2, <1>3
<1>6. TypeOK'
  <2>1. content' \in Seq(Token)
    BY <1>0, <1>2 DEF TypeOK
  <2> QED BY <1>0, <1>1, <1>2, <1>4, <1>5, <2>1 DEF TypeOK
<1>7. ASSUME Clean PROVE \E k \in 0..nsent' : Place(k)'
  <2>1. PICK k \in 0..nsent : Place(k)
    BY <1>7 DEF Inv
  <2>2. /\ k < nsent /\ todo[k + 1].valid /\ length = Len(todo[k + 1].body)
        /\ At = End(k) + 3 + 0 /\ delivered = BodiesOf(k)
    BY <2>1 DEF Place, Inside, body_start
  <2> DEFINE q == todo[k + 1].body
             d == SubSeq(q, 1, b)
  <2>3. /\ q \in Seq(Token) /\ End(k) \in Nat /\ At = End(k) + 3
        /\ \A j \in 1..length : X[End(k) + 3 + j] = q[j]
    BY <1>0, <2>2, InsideBody
  <2>4. d \in Seq(Token) /\ Len(d) = b /\ \A i \in 1..b : d[i] = q[i]
    <3>1. 1 \in Nat \ {0} /\ 1 <= b + 1 /\ b <= Len(q)
      <4> HIDE DEF b, q
      <4> QED BY <1>3, <2>2 DEF q
    <3>2. b - 1 + 1 = b /\ \A i \in 1..b : 1 + i - 1 = i
      <4> HIDE DEF b
      <4> QED BY <1>3
    <3> HIDE DEF b, q
    <3>3. IsSubSeq(Token, q, 1, b)
      BY <1>3, <2>3, <3>1, SubSeqAt
    <3> QED BY <3>2, <3>3 DEF IsSubSeq
  <2>5. buf = d
    <3>1. buf \in Seq(Token) /\ Len(buf) = b /\ \A i \in 1..b : buf[i] = X[At + i]
      BY <1>0 DEF RestInv, TypeOK
    <3> HIDE DEF b, d, q, X
    <3>2. \A i \in 1..b : i \in 1..length
      BY <1>3
    <3>3. \A i \in 1..b : buf[i] = d[i]
      BY <2>3, <2>4, <3>1, <3>2
    <3> QED BY <2>4, <3>1, <3>3, SameElements
  <2>6. BodiesOf(k)' = BodiesOf(k) /\ End(k)' = End(k)
    BY <1>1, ClientKept
  <2>7. At' = End(k)' + 3 + (length' - left')
    <3> HIDE DEF b
    <3> QED BY <1>1, <1>3, <1>4, <1>5, <2>3, <2>6
  <2>8. Inside(k, length - left)'
    BY <1>1, <2>2, <2>7 DEF Inside
  <2>9. content' = SubSeq(todo'[k + 1].body, 1, length' - left')
    BY <1>1, <1>2, <1>5, <2>5
  <2>10. Place(k)'
    BY <1>1, <1>2, <1>5, <2>2, <2>6, <2>8, <2>9 DEF Place
  <2> QED BY <1>1, <2>10
<1> QED BY <1>1, <1>2, <1>4, <1>6, <1>7, InvKept

LEMMA BodyReadInv ==
  ASSUME Textual, Inv, body_read
  PROVE  Inv'
<1> DEFINE X == StreamOf(nsent)
           w == Len(wire)
           L == End(nsent)
<1>0. TypeOK /\ RestInv /\ buf = <<>>
  BY DEF Inv, body_read
<1>1. UNCHANGED <<todo, ahead, nsent, buf, pc, length, delivered, rejected>> /\ pc = "body"
  BY DEF body_read, client
<1>2. PICK n \in 1..ReadLimit :
        /\ n <= Len(wire)
        /\ content' = AppendCString(content, SubSeq(wire, 1, n))
        /\ wire' = SubSeq(wire, n + 1, Len(wire))
        /\ left' = left - n
  BY DEF body_read
<1> DEFINE u == SubSeq(wire, 1, n)
<1>3. left \in Nat /\ length \in Nat /\ n \in Nat /\ n <= left /\ left' \in Nat
  <2>1. left \in Nat /\ length \in Nat
    BY <1>0 DEF TypeOK
  <2> QED BY <1>2, <2>1, RequestReaderAssumption DEF ReadLimit
<1>4. Len(buf) = 0 /\ w \in Nat /\ L \in Nat /\ At = L - 0 - w
  <2>1. Len(buf) = 0
    BY <1>0
  <2> QED BY <1>0, <2>1, Numbers
<1>5. /\ u \in Seq(Token) /\ Len(u) = n
      /\ \A i \in 1..n : u[i] = X[At + Len(buf) + i]
      /\ wire' \in Seq(Token) /\ Len(wire') = w - n
      /\ \A i \in 1..(w - n) : wire'[i] = X[At + Len(buf) + n + i]
  BY <1>0, <1>2, <1>3, WireRead
<1>6. X' = X /\ L' = L /\ At' = L' - Len(buf) - Len(wire')
  BY <1>1, ClientKept DEF StreamOf, End, Encode, At
<1>7. IsCat(Token, content, u) /\ content' = Cat(content, u)
  <2>1. content \in Seq(Token)
    BY <1>0 DEF TypeOK
  <2> HIDE DEF u
  <2> QED BY <1>2, <1>5, <2>1, TextAppended, CatAt DEF u
<1> HIDE DEF X, w, L, u
<1>8. /\ content' \in Seq(Token) /\ Len(content') = Len(content) + n
      /\ \A i \in 1..Len(content) : content'[i] = content[i]
      /\ \A i \in 1..n : content'[Len(content) + i] = u[i]
  BY <1>5, <1>7 DEF IsCat
<1>9. At' = At + n /\ At \in Int
  <2>1. At' = L - 0 - (w - n)
    BY <1>4, <1>5, <1>6
  <2> QED BY <1>3, <1>4, <2>1
<1>10. RestInv'
  <2>1. At' >= 0
    BY <1>0, <1>3, <1>9 DEF RestInv
  <2>2. \A i \in 1..Len(buf') : buf'[i] = X'[At' + i]
    <3>1. 1..Len(buf') = {}
      BY <1>1, <1>4
    <3> QED BY <3>1
  <2>3. \A i \in 1..Len(wire') : wire'[i] = X'[At' + Len(buf') + i]
    <3>1. \A i \in 1..(w - n) : At + 0 + n + i = At' + 0 + i
      BY <1>3, <1>4, <1>9
    <3> QED BY <1>1, <1>4, <1>5, <1>6, <3>1
  <2> QED BY <2>1, <2>2, <2>3 DEF RestInv, X
<1>11. TypeOK'
  BY <1>0, <1>1, <1>3, <1>5, <1>8 DEF TypeOK
<1>12. ASSUME Clean PROVE \E k \in 0..nsent' : Place(k)'
  <2>1. PICK k \in 0..nsent : Place(k)
    BY <1>12 DEF Inv
  <2> DEFINE q == todo[k + 1].body
             a == length - left
             d == SubSeq(q, 1, a + n)
  <2>2. /\ k < nsent /\ todo[k + 1].valid /\ length = Len(q)
        /\ At = End(k) + 3 + a /\ delivered = BodiesOf(k)
        /\ left <= length /\ content = SubSeq(q, 1, a)
    BY <1>1, <2>1 DEF Place, Inside
  <2>3. /\ q \in Seq(Token) /\ End(k) \in Nat
        /\ \A j \in 1..length : X[End(k) + 3 + j] = q[j]
    BY <1>0, <2>2, InsideBody DEF X
  <2>4. a \in Nat /\ a <= Len(q) /\ a + n \in Nat /\ a + n <= Len(q)
    <3> HIDE DEF q
    <3> QED BY <1>3, <2>2
  <2> HIDE DEF q
  <2>5. ASSUME NEW m \in Nat, m <= Len(q)
        PROVE  /\ SubSeq(q, 1, m) \in Seq(Token) /\ Len(SubSeq(q, 1, m)) = m
               /\ \A i \in 1..m : SubSeq(q, 1, m)[i] = q[i]
    <3>1. 1 \in Nat \ {0} /\ 1 <= m + 1
      OBVIOUS
    <3>2. IsSubSeq(Token, q, 1, m)
      BY <2>3, <2>5, <3>1, SubSeqAt
    <3>3. m - 1 + 1 = m /\ \A i \in 1..m : 1 + i - 1 = i
      OBVIOUS
    <3> QED BY <3>2, <3>3 DEF IsSubSeq
  <2>6. Len(content) = a /\ \A i \in 1..a : content[i] = q[i]
    <3> HIDE DEF a
    <3> QED BY <2>2, <2>4, <2>5
  <2>7. d \in Seq(Token) /\ Len(d) = a + n /\ \A i \in 1..(a + n) : d[i] = q[i]
    <3> HIDE DEF a
    <3> QED BY <2>4, <2>5
  <2>8. left' = left - n /\ length - left' = a + n /\ left' <= length
    BY <1>2, <1>3, <2>2
  <2> HIDE DEF a, d
  <2>9. content' = d
    <3>1. \A i \in 1..(a + n) : content'[i] = d[i]
      <4> SUFFICES ASSUME NEW i \in 1..(a + n) PROVE content'[i] = d[i]
        OBVIOUS
      <4>1. CASE i <= a
        <5>1. i \in 1..a
          BY <1>3, <2>4, <4>1
        <5> QED BY <1>8, <2>6, <2>7, <5>1
      <4>2. CASE i > a
        <5> DEFINE j == i - a
        <5>1. j \in 1..n /\ i = a + j
          BY <1>3, <2>4, <4>2
        <5> HIDE DEF j
        <5>2. At + 0 + j = End(k) + 3 + i /\ i \in 1..length
          <6>1. j \in Nat /\ i \in Nat /\ At = End(k) + 3 + a /\ length = Len(q)
            BY <1>3, <2>2, <2>4, <5>1
          <6>2. At + 0 + j = End(k) + 3 + i
            BY <2>3, <2>4, <5>1, <6>1
          <6>3. i <= length /\ i >= 1
            BY <1>3, <2>4, <6>1
          <6> QED BY <2>4, <6>1, <6>2, <6>3
        <5>3. content'[i] = X[End(k) + 3 + i]
          BY <1>4, <1>5, <1>8, <2>6, <5>1, <5>2
        <5> QED BY <2>3, <2>7, <5>2, <5>3
      <4> QED BY <1>3, <2>4, <4>1, <4>2
    <3> QED BY <1>8, <2>6, <2>7, <3>1, SameElements
  <2>10. BodiesOf(k)' = BodiesOf(k) /\ End(k)' = End(k)
    BY <1>1, ClientKept
  <2>11. Inside(k, length - left)'
    <3>1. At' = End(k) + 3 + (a + n)
      <4>1. At' = At + n /\ At = End(k) + 3 + a
        BY <1>9, <2>2
      <4> QED BY <1>3, <2>3, <2>4, <4>1
    <3>2. length' - left' = a + n
      BY <1>1, <2>8
    <3>3. At' = End(k)' + 3 + (length' - left')
      BY <2>10, <3>1, <3>2
    <3> QED BY <1>1, <2>2, <3>3 DEF Inside, q
  <2>12. content' = SubSeq(todo'[k + 1].body, 1, length' - left')
    BY <1>1, <2>8, <2>9 DEF d, q
  <2>13. Place(k)'
    BY <1>1, <2>2, <2>8, <2>10, <2>11, <2>12 DEF Place
  <2> QED BY <1>1, <2>13
<1>13. pc' = "body" => buf' = <<>>
  BY <1>0, <1>1
<1> QED BY <1>1, <1>10, <1>11, <1>12, <1>13, InvKept

LEMMA BodyDoneInv ==
  ASSUME Inv, body_done
  PROVE  Inv'
<1>0. TypeOK /\ RestInv
  BY DEF Inv
<1>1. UNCHANGED <<todo, ahead, nsent, wire, buf, length, left, content, rejected>>
  BY DEF body_done, client
<1>2. delivered' = Append(delivered, content) /\ pc' = "idle"
  BY DEF body_done
<1>3. StreamOf(nsent)' = StreamOf(nsent) /\ At' = At
  BY <1>1, ClientKept DEF StreamOf, At, End, Encode
<1>4. TypeOK' /\ RestInv'
  <2>1. delivered' \in Seq(Seq(Token))
    <3>1. delivered \in Seq(Seq(Token)) /\ content \in Seq(Token)
      BY <1>0 DEF TypeOK
    <3> QED BY <1>2, <3>1, AppendProperties
  <2> QED BY <1>0, <1>1, <1>2, <1>3, <2>1 DEF TypeOK, RestInv
<1>5. left = 0 /\ length \in Nat /\ length - left = length
  <2>1. left \in Nat /\ length \in Nat
    BY <1>0 DEF TypeOK
  <2> QED BY <2>1 DEF body_done
<1>6. ASSUME Clean PROVE \E k \in 0..nsent' : Place(k)'
  <2>1. PICK k \in 0..nsent : Place(k)
    BY <1>6 DEF Inv
  <2> DEFINE q == todo[k + 1].body
  <2>2. /\ k < nsent /\ todo[k + 1].valid /\ length = Len(q)
        /\ At = End(k) + 3 + (length - left) /\ delivered = BodiesOf(k)
        /\ content = SubSeq(q, 1, length - left)
    BY <2>1 DEF Place, Inside, body_done
  <2>3. q \in Seq(Token)
    BY <1>0, <2>2, InsideBody
  <2>4. content = q
    <3> HIDE DEF q
    <3>1. content = SubSeq(q, 1, Len(q))
      BY <1>5, <2>2
    <3> QED BY <2>3, <3>1, SubSeqWhole
  <2>5. At' = End(k) + 3 + length
    BY <1>3, <1>5, <2>2
  <2>6. k + 1 \in 0..nsent' /\ Place(k + 1)'
    BY <1>0, <1>1, <1>2, <2>2, <2>4, <2>5, Delivering
  <2> QED BY <2>6
<1>7. pc' # "body"
  BY <1>2
<1> QED BY <1>1, <1>4, <1>6, <1>7, InvKept

LEMMA UnmovedInv ==
  ASSUME Inv, UNCHANGED <<todo, ahead, nsent, wire, buf, length, left, content, delivered, rejected>>,
         pc' \in {pc, "failed"}
  PROVE  Inv'
<1>1. StreamOf(nsent)' = StreamOf(nsent) /\ At' = At
  BY ClientKept DEF StreamOf, At, End, Encode
<1>2. TypeOK' /\ RestInv'
  BY <1>1 DEF Inv, TypeOK, RestInv
<1>3. ASSUME Clean PROVE \E k \in 0..nsent' : Place(k)'
  <2>1. PICK k \in 0..nsent : Place(k)
    BY <1>3 DEF Inv
  <2>2. BodiesOf(k)' = BodiesOf(k) /\ End(k)' = End(k) /\ End(k - 1)' = End(k - 1)
    BY ClientKept
  <2>3. Place(k)'
    BY <1>1, <2>1, <2>2 DEF Place, Between, Inside
  <2> QED BY <2>3
<1>4. pc' = "body" => buf' = <<>>
  BY DEF Inv
<1> QED BY <1>2, <1>3, <1>4, InvKept

LEMMA NextInv ==
  ASSUME Textual, Inv, [Next]_vars
  PROVE  Inv'
<1>1. CASE ClientSend
  BY <1>1, ClientSendInv
<1>2. CASE recv_request
  BY <1>2, RecvRequestInv
<1>3. CASE header_read
  BY <1>3, HeaderReadInv
<1>4. CASE header_valid
  BY <1>4, HeaderValidInv
<1>5. CASE header_invalid
  BY <1>5, HeaderInvalidInv
<1>6. CASE body_buffered
  BY <1>6, BodyBufferedInv
<1>7. CASE body_start
  BY <1>7, BodyStartInv
<1>8. CASE body_read
  BY <1>8, BodyReadInv
<1>9. CASE body_done
  BY <1>9, BodyDoneInv
<1>10. CASE read_fails
  BY <1>10, UnmovedInv DEF read_fails, client
<1>11. CASE UNCHANGED vars
  BY <1>11, UnmovedInv DEF vars
<1> QED BY <1>1, <1>2, <1>3, <1>4, <1>5, <1>6, <1>7, <1>8, <1>9, <1>10, <1>11
        DEF Next, Compute, Read, Terminated

-----------------------------------------------------------------------------
(* What the invariant means. *)

LEMMA InOrder ==
  ASSUME Inv
  PROVE  DeliveredInOrder
<1> SUFFICES ASSUME Clean PROVE IsPrefix(delivered, BodiesOf(nsent))
  BY DEF DeliveredInOrder
<1>1. PICK k \in 0..nsent : Place(k)
  BY DEF Inv
<1>2. TypeOK /\ delivered = BodiesOf(k)
  BY <1>1 DEF Inv, Place
<1>3. k \in 0..MaxRequests /\ nsent \in 0..MaxRequests /\ k <= nsent
  BY <1>2, Numbers, RequestReaderAssumption
<1> QED BY <1>2, <1>3, BodiesPrefix

LEMMA Conserved ==
  ASSUME Inv
  PROVE  IsSuffix(buf \o wire, StreamOf(nsent))
<1> DEFINE b == Len(buf)
           w == Len(wire)
           X == StreamOf(nsent)
           s == Cat(buf, wire)
<1>1. TypeOK /\ RestInv
  BY DEF Inv
<1>2. b \in Nat /\ w \in Nat /\ Len(X) \in Nat /\ At = Len(X) - b - w /\ At >= 0
  BY <1>1, Numbers DEF End, RestInv
<1>3. X \in Seq(Token)
  BY <1>1, Numbers, StreamGrows
<1>4. IsCat(Token, buf, wire)
  <2>1. buf \in Seq(Token) /\ wire \in Seq(Token)
    BY <1>1 DEF TypeOK
  <2> QED BY <2>1, CatAt
<1>5. /\ s \in Seq(Token) /\ Len(s) = b + w
      /\ \A i \in 1..b : s[i] = buf[i]
      /\ \A i \in 1..w : s[b + i] = wire[i]
  BY <1>4 DEF IsCat
<1>6. /\ \A i \in 1..b : buf[i] = X[At + i]
      /\ \A i \in 1..w : wire[i] = X[At + b + i]
  BY <1>1 DEF RestInv
<1> HIDE DEF b, w, X, s
<1>7. \A i \in 1..(b + w) : s[i] = X[At + i]
  <2> SUFFICES ASSUME NEW i \in 1..(b + w) PROVE s[i] = X[At + i]
    OBVIOUS
  <2>1. CASE i <= b
    <3>1. i \in 1..b
      BY <1>2, <2>1
    <3> QED BY <1>5, <1>6, <3>1
  <2>2. CASE i > b
    <3> DEFINE j == i - b
    <3>1. j \in 1..w /\ i = b + j /\ At + b + j = At + i
      BY <1>2, <2>2
    <3> HIDE DEF j
    <3> QED BY <1>5, <1>6, <3>1
  <2> QED BY <1>2, <2>1, <2>2
<1>8. /\ Len(s) <= Len(X)
      /\ \A i \in 1..Len(s) : s[i] = X[Len(X) - Len(s) + i]
  <2>1. Len(s) = b + w
    BY <1>5
  <2>2. Len(s) <= Len(X) /\ Len(X) - Len(s) = At
    BY <1>2, <2>1
  <2> QED BY <1>7, <2>1, <2>2
<1>9. IsSuffix(s, X)
  BY <1>3, <1>5, <1>8, SuffixAt
<1> QED BY <1>9 DEF s, X, Cat

-----------------------------------------------------------------------------
(* Theorems. *)

\* Where the receiver is: _read_buf and the socket hold the rest of the stream
\* in every state, and as long as no rejected request's body holds text of a
\* header, the position of the reads tells which request it is in
\* (http_server.cpp:265-303, 381-454).
THEOREM PlaceKnown ==
  ASSUME Textual
  PROVE  Spec => []Inv
<1>1. Init => Inv
  BY InitInv
<1>2. Inv /\ [Next]_vars => Inv'
  BY NextInv
<1> QED BY <1>1, <1>2, PTL DEF Spec

\* For text bodies of any length and any number of requests, pipelined or
\* not: whatever the reads split, requests are handed on whole, in the order
\* sent, and none twice, and a rejected request does not hide the next one
\* unless its body holds "POST" or "Content-Length:", which GetInfo then takes
\* for the next request's (http_server.cpp:265-303, 381-454).
THEOREM RequestsInOrder ==
  ASSUME Textual
  PROVE  Spec => []DeliveredInOrder
<1>1. Inv => DeliveredInOrder
  BY InOrder
<1> QED BY <1>1, PlaceKnown, PTL

\* For text bodies: between two requests _read_buf and the socket hold the
\* end of what was sent, nothing missing and nothing twice, whatever GetInfo
\* took for a header (http_server.cpp:413, :437-441).
THEOREM NoByteLost ==
  ASSUME Textual
  PROVE  Spec => []StreamConserved
<1>1. Inv => StreamConserved
  BY Conserved DEF StreamConserved
<1> QED BY <1>1, PlaceKnown, PTL
=============================================================================
