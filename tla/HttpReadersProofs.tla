------------------------- MODULE HttpReadersProofs -------------------------
(***************************************************************************)
(* The two readers of responses, for responses of any size, any buffer,    *)
(* any split of the stream and any stray bytes.  readHttpResponse: the     *)
(* time budget is shared by all recvs, and a response that is reported as  *)
(* complete is exact.  The incremental parsers: what they decode is a      *)
(* prefix of the body, and they end with the response.                     *)
(***************************************************************************)
EXTENDS HttpReadersInv, SeqLemmas

-----------------------------------------------------------------------------
(* The budget. *)

BudgetInv ==
    /\ timeout \in Int
    /\ spent \in Nat
    /\ BudgetIsShared

LEMMA DelaysAreTimes == \A t \in Delays : t \in Nat
  BY HttpClientAssumption DEF Delays

\* What Spend takes off is what has passed.
LEMMA SpendShares ==
  ASSUME BudgetInv, pc # "done", NEW t \in Nat, spent' = spent + t, Spend(t) \/ SpendLast(t)
  PROVE  BudgetInv'
<1>1. /\ timeout \in Int /\ spent \in Nat /\ Budget \in Nat
      /\ timeout <= (IF spent >= Budget THEN 0 ELSE Budget - spent)
  BY HttpClientAssumption DEF BudgetInv, BudgetIsShared
<1>2. timeout' \in Int /\ spent' \in Nat
  BY <1>1 DEF Spend, SpendLast
<1>3. timeout' <= (IF spent' >= Budget THEN 0 ELSE Budget - spent')
  <2>1. CASE Spend(t)
    BY <1>1, <2>1 DEF Spend
  <2>2. CASE SpendLast(t)
    BY <1>1, <2>2 DEF SpendLast
  <2> QED BY <2>1, <2>2
<1> QED BY <1>2, <1>3 DEF BudgetInv, BudgetIsShared

LEMMA BudgetStep ==
  ASSUME BudgetInv, [Next]_vars
  PROVE  BudgetInv'
<1>0. timeout \in Int /\ spent \in Nat
  BY DEF BudgetInv
<1>1. CASE head_recv
  <2>1. PICK t \in Delays : recv(BUF_SIZE, t) /\ Spend(t)
    BY <1>1 DEF head_recv
  <2> QED BY <1>1, <2>1, DelaysAreTimes, SpendShares DEF recv, head_recv
<1>2. CASE size_recv
  <2>1. PICK t \in Delays : recv(BUF_SIZE, t) /\ Spend(t)
    BY <1>2 DEF size_recv
  <2> QED BY <1>2, <2>1, DelaysAreTimes, SpendShares DEF recv, size_recv
<1>3. CASE last_recv
  <2>1. PICK t \in Delays : recv(BUF_SIZE, t) /\ SpendLast(t)
    BY <1>3 DEF last_recv
  <2> QED BY <1>3, <2>1, DelaysAreTimes, SpendShares DEF recv, last_recv
<1>4. CASE fill_recv
  <2>1. PICK t \in Delays : recv(FillLimit, t) /\ Spend(t)
    BY <1>4 DEF fill_recv
  <2> QED BY <1>4, <2>1, DelaysAreTimes, SpendShares DEF recv, fill_recv
<1>5. CASE fill_late
  <2>1. PICK t \in Delays : recv(need, t)
    BY <1>5 DEF fill_late
  <2>2. timeout' = 0 /\ pc' = "done" /\ spent' = spent + t
    BY <1>5, <2>1 DEF fill_late, Finish, recv
  <2> QED BY <1>0, <2>2, DelaysAreTimes DEF BudgetInv, BudgetIsShared
<1>6. CASE recv_fails
  <2>1. PICK t \in Delays : spent' = spent + t
    BY <1>6 DEF recv_fails
  <2>2. timeout' = timeout /\ pc' = "done"
    BY <1>6 DEF recv_fails, Finish
  <2> QED BY <1>0, <2>1, <2>2, DelaysAreTimes DEF BudgetInv, BudgetIsShared
<1>7. CASE frame_chunked \/ frame_length \/ frame_neither \/ chunk_start \/ chunk_last \/ last_found
  <2>1. UNCHANGED <<timeout, spent>> /\ pc # "done"
    BY <1>7 DEF frame_chunked, frame_length, frame_neither, chunk_start, chunk_last, last_found
  <2> QED BY <2>1 DEF BudgetInv, BudgetIsShared
<1>8. CASE UNCHANGED vars
  BY <1>8 DEF vars, BudgetInv, BudgetIsShared
<1> QED BY <1>1, <1>2, <1>3, <1>4, <1>5, <1>6, <1>7, <1>8 DEF Next, Step, Terminated

\* The caller's time budget is for the whole response, through every recv of
\* the header, of size lines and of bodies (http.cpp:99-107, 138-153, 203-214,
\* 384-407).
THEOREM OneBudget == Spec => []BudgetIsShared
<1>1. Init => BudgetInv
  BY HttpClientAssumption DEF Init, BudgetInv, BudgetIsShared
<1>2. BudgetInv /\ [Next]_vars => BudgetInv'
  BY BudgetStep
<1>3. BudgetInv => BudgetIsShared
  BY DEF BudgetInv
<1> QED BY <1>1, <1>2, <1>3, PTL DEF Spec

-----------------------------------------------------------------------------
(* Tokens, responses and chunks. *)

LEMMA Tokens ==
  /\ CRLF # TransferEncodingChunked /\ CRLF # Neither /\ CRLF # Byte
  /\ TransferEncodingChunked # Neither
  /\ \A n \in Nat : /\ CRLF # ContentLength(n) /\ CRLF # Size(n)
                    /\ TransferEncodingChunked # ContentLength(n)
                    /\ Neither # ContentLength(n)
  /\ \A m, n \in Nat : ContentLength(m) = ContentLength(n) => m = n
  /\ \A n \in Nat : Size(n)[1] = "hex" /\ Size(n)[2] = n
  BY DEF CRLF, TransferEncodingChunked, Neither, Byte, ContentLength, Size

\* The chunks of a response; one that is not chunked has its body as one.
Count == Len(resp.chunks)

LEMMA ChunksType ==
  ASSUME resp \in Responses
  PROVE  /\ resp.kind \in {"chunked", "length", "neither"}
         /\ Count \in Nat
         /\ resp.chunks \in Seq(Seq(Data))
         /\ DOMAIN resp.chunks = 1..Count
         /\ \A i \in 1..Count : resp.chunks[i] \in Seq(Data) /\ Len(resp.chunks[i]) \in Nat
         /\ resp.kind = "chunked" => \A i \in 1..Count : Len(resp.chunks[i]) # 0
<1>1. ASSUME NEW lo \in Nat, NEW b \in Bytes(lo, MaxChunk)
      PROVE  b \in Seq(Data) /\ Len(b) \in Nat /\ Len(b) >= lo
  <2>1. PICK n \in lo..MaxChunk : b \in [1..n -> Data]
    BY <1>1 DEF Bytes, Data
  <2>2. n \in Nat /\ n >= lo
    BY HttpResponseAssumption
  <2>3. b \in Seq(Data)
    BY <2>1, <2>2, SeqDef
  <2>4. Len(b) = n
    BY <2>1, <2>2, <2>3, LenProperties
  <2> QED BY <2>2, <2>3, <2>4
<1>2. \E lo \in {0, 1}, n \in Nat :
         /\ resp.chunks \in [1..n -> Bytes(lo, MaxChunk)]
         /\ resp.kind = "chunked" => lo = 1
         /\ resp.kind \in {"chunked", "length", "neither"}
  <2>1. CASE resp \in [kind : {"chunked"}, chunks : UNION {[1..n -> Bytes(1, MaxChunk)] : n \in 0..MaxChunks}]
    <3>1. PICK n \in 0..MaxChunks : resp.chunks \in [1..n -> Bytes(1, MaxChunk)]
      BY <2>1
    <3>2. n \in Nat
      BY HttpResponseAssumption
    <3> QED BY <2>1, <3>1, <3>2
  <2>2. CASE resp \in [kind : {"length", "neither"}, chunks : [1..1 -> Bytes(0, MaxChunk)]]
    <3>1. resp.chunks \in [1..1 -> Bytes(0, MaxChunk)] /\ resp.kind \in {"length", "neither"}
      BY <2>2
    <3> QED BY <3>1
  <2> QED BY <2>1, <2>2 DEF Responses
<1>3. PICK lo \in {0, 1}, n \in Nat :
         /\ resp.chunks \in [1..n -> Bytes(lo, MaxChunk)]
         /\ resp.kind = "chunked" => lo = 1
         /\ resp.kind \in {"chunked", "length", "neither"}
  BY <1>2
<1>4. \A i \in 1..n : /\ resp.chunks[i] \in Seq(Data)
                      /\ Len(resp.chunks[i]) \in Nat /\ Len(resp.chunks[i]) >= lo
  BY <1>1, <1>3
<1>5. resp.chunks \in [1..n -> Seq(Data)]
  <2>1. \A b \in Bytes(lo, MaxChunk) : b \in Seq(Data)
    BY <1>1
  <2> QED BY <1>3, <2>1
<1>6. resp.chunks \in Seq(Seq(Data))
  BY <1>5, SeqDef
<1>7. Count = n /\ DOMAIN resp.chunks = 1..n
  BY <1>5, <1>6, LenProperties DEF Count
<1>8. resp.kind = "chunked" => \A i \in 1..Count : Len(resp.chunks[i]) # 0
  BY <1>3, <1>4, <1>7
<1> QED BY <1>3, <1>4, <1>6, <1>7, <1>8

\* The data of the first k chunks.
LEMMA BodyPieces ==
  ASSUME resp \in Responses
  PROVE  /\ ArePieces(Data, resp.chunks, Count)
         /\ \A k \in 0..Count : BodyOf(k) = Pieces(resp.chunks, k) /\ BodyOf(k) \in Seq(Data)
         /\ BodyOf(0) = <<>>
         /\ \A k \in 0..(Count - 1) : BodyOf(k + 1) = Cat(BodyOf(k), resp.chunks[k + 1])
         /\ Body(resp) = BodyOf(Count)
         /\ Body(resp) \in Seq(Data) /\ Len(Body(resp)) \in Nat
<1>1. Count \in Nat /\ ArePieces(Data, resp.chunks, Count)
  BY ChunksType DEF ArePieces
<1>2. \A k : BodyOf(k) = Pieces(resp.chunks, k)
  BY DEF BodyOf, Pieces
<1>3. \A k \in 0..Count : BodyOf(k) \in Seq(Data)
  BY <1>1, <1>2, PiecesType
<1>4. BodyOf(0) = <<>> /\ \A k \in 0..(Count - 1) : BodyOf(k + 1) = Cat(BodyOf(k), resp.chunks[k + 1])
  BY <1>1, <1>2, PiecesStep
<1>5. Body(resp) = BodyOf(Count)
  <2>1. resp.chunks \in [1..Count -> Seq(Data)]
    BY ChunksType, LenProperties DEF Count
  <2>2. [i \in 1..Count |-> resp.chunks[i]] = resp.chunks
    BY <2>1
  <2> QED BY <2>2 DEF Body, BodyOf
<1>6. Body(resp) \in Seq(Data) /\ Len(Body(resp)) \in Nat
  <2>1. Body(resp) \in Seq(Data)
    BY <1>1, <1>3, <1>5
  <2> QED BY <2>1, LenProperties
<1> QED BY <1>1, <1>2, <1>3, <1>4, <1>5, <1>6

\* What the peer sends for one chunk.
LEMMA ChunkParts ==
  ASSUME NEW b \in Seq(Data)
  PROVE  /\ Chunk(b) \in Seq(Token)
         /\ Len(Chunk(b)) = Len(b) + 3
         /\ Chunk(b)[1] = Size(Len(b))
         /\ Chunk(b)[2] = CRLF
         /\ \A j \in 1..Len(b) : Chunk(b)[2 + j] = b[j]
<1> DEFINE l == <<Size(Len(b)), CRLF>>
           e == <<CRLF>>
           c == Cat(l, b)
<1>1. Len(b) \in Nat /\ b \in Seq(Token)
  BY LenProperties, SeqMonotonic DEF Token
<1>2. Size(Len(b)) \in Token /\ CRLF \in Token
  BY <1>1 DEF Token, Data
<1>3. l \in Seq(Token) /\ Len(l) = 2 /\ l[1] = Size(Len(b)) /\ l[2] = CRLF
  BY <1>2
<1>4. e \in Seq(Token) /\ Len(e) = 1
  BY <1>2
<1>5. Chunk(b) = Cat(c, e)
  BY DEF Chunk, Cat
<1> HIDE DEF l, e
<1>6. IsCat(Token, l, b)
  BY <1>1, <1>3, CatAt
<1>7. /\ c \in Seq(Token) /\ Len(c) = 2 + Len(b)
      /\ \A i \in 1..2 : c[i] = l[i]
      /\ \A i \in 1..Len(b) : c[2 + i] = b[i]
  BY <1>3, <1>6 DEF IsCat
<1> HIDE DEF c
<1>8. IsCat(Token, c, e)
  BY <1>4, <1>7, CatAt
<1>9. /\ Cat(c, e) \in Seq(Token) /\ Len(Cat(c, e)) = Len(c) + Len(e)
      /\ \A i \in 1..Len(c) : Cat(c, e)[i] = c[i]
  BY <1>8 DEF IsCat
<1> DEFINE m == Len(b)
<1>10. Len(c) = 2 + m /\ Len(e) = 1 /\ m \in Nat
  BY <1>1, <1>4, <1>7
<1> HIDE DEF m
<1>11. Len(Cat(c, e)) = m + 3
  BY <1>9, <1>10
<1>12. Cat(c, e)[1] = l[1] /\ Cat(c, e)[2] = l[2]
  <2>1. 1 \in 1..Len(c) /\ 2 \in 1..Len(c)
    BY <1>10
  <2> QED BY <1>7, <1>9, <2>1
<1>13. \A j \in 1..m : Cat(c, e)[2 + j] = b[j]
  <2>1. \A j \in 1..m : 2 + j \in 1..Len(c)
    BY <1>10
  <2> QED BY <1>7, <1>9, <2>1 DEF m
<1> QED BY <1>3, <1>5, <1>9, <1>11, <1>12, <1>13 DEF m

-----------------------------------------------------------------------------
(* Where everything is in the stream. *)

\* The header: nothing in it but what says how the body is framed.
LEMMA HeaderParts ==
  ASSUME resp \in Responses
  PROVE  /\ HeaderOf(resp) \in Seq(Token)
         /\ Len(HeaderOf(resp)) \in Nat \ {0}
         /\ \A i \in 1..Len(HeaderOf(resp)) :
               /\ HeaderOf(resp)[i] # CRLF
               /\ HeaderOf(resp)[i] = TransferEncodingChunked <=> resp.kind = "chunked"
               /\ \A m \in Nat : HeaderOf(resp)[i] = ContentLength(m) <=>
                                    resp.kind = "length" /\ m = Len(Body(resp))
<1> DEFINE b == Len(Body(resp))
<1>0. resp.kind \in {"chunked", "length", "neither"} /\ b \in Nat
  BY ChunksType, BodyPieces
<1>1. CASE resp.kind = "chunked"
  <2>1. HeaderOf(resp) = <<TransferEncodingChunked>>
    BY <1>1 DEF HeaderOf
  <2>2. TransferEncodingChunked \in Token
    BY DEF Token
  <2>3. /\ <<TransferEncodingChunked>> \in Seq(Token) /\ Len(<<TransferEncodingChunked>>) = 1
        /\ \A i \in 1..1 : <<TransferEncodingChunked>>[i] = TransferEncodingChunked
    BY <2>2
  <2> QED BY <1>1, <2>1, <2>3, Tokens
<1>2. CASE resp.kind = "length"
  <2>1. HeaderOf(resp) = <<ContentLength(b)>>
    BY <1>2 DEF HeaderOf
  <2>2. ContentLength(b) \in Token
    BY <1>0 DEF Token
  <2> DEFINE c == ContentLength(b)
  <2>3. <<c>> \in Seq(Token) /\ Len(<<c>>) = 1 /\ \A i \in 1..1 : <<c>>[i] = c
    <3> HIDE DEF c
    <3> QED BY <2>2 DEF c
  <2>4. /\ c # CRLF /\ c # TransferEncodingChunked
        /\ \A m \in Nat : c = ContentLength(m) <=> m = b
    BY <1>0, Tokens
  <2> HIDE DEF c, b
  <2> QED BY <1>2, <2>1, <2>3, <2>4 DEF c, b
<1>3. CASE resp.kind = "neither"
  <2>1. HeaderOf(resp) = <<Neither, Neither>>
    BY <1>3 DEF HeaderOf
  <2>2. Neither \in Token
    BY DEF Token
  <2>3. /\ <<Neither, Neither>> \in Seq(Token) /\ Len(<<Neither, Neither>>) = 2
        /\ \A i \in 1..2 : <<Neither, Neither>>[i] = Neither
    BY <2>2
  <2> QED BY <1>3, <2>1, <2>3, Tokens
<1> QED BY <1>0, <1>1, <1>2, <1>3

\* The chunks as they are sent.
Sent == [i \in 1..Count |-> Chunk(resp.chunks[i])]
Tail3 == <<Size(0), CRLF, CRLF>>

LEMMA SentPieces ==
  ASSUME resp \in Responses
  PROVE  /\ ArePieces(Token, Sent, Count)
         /\ \A i \in 1..Count : Sent[i] = Chunk(resp.chunks[i])
         /\ \A k \in 0..Count : EndOf(k) = HeadLen + Len(Pieces(Sent, k))
         /\ resp.kind = "chunked" => EncodeBody(resp) = Cat(Pieces(Sent, Count), Tail3)
<1>1. Count \in Nat /\ \A i \in 1..Count : Chunk(resp.chunks[i]) \in Seq(Token)
  BY ChunksType, ChunkParts
<1>2. \A i \in 1..Count : Sent[i] = Chunk(resp.chunks[i])
  BY DEF Sent
<1>3. ArePieces(Token, Sent, Count)
  BY <1>1, <1>2 DEF ArePieces
<1>4. ASSUME NEW k \in 0..Count
      PROVE  [i \in 1..k |-> Sent[i]] = [i \in 1..k |-> Chunk(resp.chunks[i])]
  <2>1. \A i \in 1..k : i \in 1..Count
    BY <1>1
  <2>2. \A i \in 1..k : Sent[i] = Chunk(resp.chunks[i])
    BY <1>2, <2>1
  <2> QED BY <2>2
<1>5. \A k \in 0..Count : EndOf(k) = HeadLen + Len(Pieces(Sent, k))
  BY <1>4 DEF EndOf, Pieces
<1>6. resp.kind = "chunked" => EncodeBody(resp) = Cat(Pieces(Sent, Count), Tail3)
  <2>1. Count \in 0..Count
    BY <1>1
  <2>2. Pieces(Sent, Count) = FlattenSeq([i \in 1..Count |-> Chunk(resp.chunks[i])])
    BY <1>4, <2>1 DEF Pieces
  <2> QED BY <2>2 DEF EncodeBody, Cat, Tail3, Count
<1> QED BY <1>2, <1>3, <1>5, <1>6

LEMMA TailParts ==
  /\ Tail3 \in Seq(Token) /\ Len(Tail3) = 3
  /\ Tail3[1] = Size(0) /\ Tail3[2] = CRLF /\ Tail3[3] = CRLF
<1>1. Size(0) \in Token /\ CRLF \in Token
  BY DEF Token, Data
<1> DEFINE z == Size(0)
<1> HIDE DEF z
<1>2. <<z, CRLF, CRLF>> \in Seq(Token)
  BY <1>1 DEF z
<1> QED BY <1>2 DEF Tail3, z

LEMMA EncodeBodyType ==
  ASSUME resp \in Responses
  PROVE  EncodeBody(resp) \in Seq(Token)
<1>1. CASE resp.kind = "chunked"
  <2>1. Count \in 0..Count
    BY ChunksType
  <2>2. Pieces(Sent, Count) \in Seq(Token)
    BY <2>1, SentPieces, PiecesType
  <2>3. IsCat(Token, Pieces(Sent, Count), Tail3)
    BY <2>2, TailParts, CatAt
  <2> QED BY <1>1, <2>3, SentPieces DEF IsCat
<1>2. CASE resp.kind # "chunked"
  <2>1. EncodeBody(resp) = Body(resp) /\ Body(resp) \in Seq(Data)
    BY <1>2, BodyPieces DEF EncodeBody
  <2> QED BY <2>1, SeqMonotonic DEF Token
<1> QED BY <1>1, <1>2

\* The stream: the header, an empty line, the body, and what is stray.
LEMMA StreamParts ==
  ASSUME resp \in Responses, NEW n \in Nat
  PROVE  /\ Stream(n) \in Seq(Token)
         /\ Len(HeaderOf(resp)) \in Nat \ {0} /\ HeadLen = Len(HeaderOf(resp)) + 2
         /\ HeadLen \in Nat /\ Len(EncodeBody(resp)) \in Nat
         /\ Len(Stream(n)) = HeadLen + Len(EncodeBody(resp)) + n
         /\ \A i \in 1..Len(HeaderOf(resp)) : Stream(n)[i] = HeaderOf(resp)[i]
         /\ Stream(n)[Len(HeaderOf(resp)) + 1] = CRLF
         /\ Stream(n)[Len(HeaderOf(resp)) + 2] = CRLF
         /\ \A j \in 1..Len(EncodeBody(resp)) : Stream(n)[HeadLen + j] = EncodeBody(resp)[j]
<1> DEFINE h == HeaderOf(resp)
           l == <<CRLF, CRLF>>
           e == EncodeBody(resp)
           z == [i \in 1..n |-> Byte]
           a == Cat(h, l)
           b == Cat(a, e)
           x == Cat(b, z)
<1>1. h \in Seq(Token) /\ Len(h) \in Nat \ {0} /\ e \in Seq(Token)
  BY HeaderParts, EncodeBodyType
<1>2. l \in Seq(Token) /\ Len(l) = 2 /\ l[1] = CRLF /\ l[2] = CRLF
  <2>1. CRLF \in Token
    BY DEF Token, Data
  <2> QED BY <2>1
<1>3. z \in Seq(Token) /\ Len(z) = n
  <2>1. Byte \in Token
    BY DEF Token, Data
  <2>2. z \in [1..n -> Token]
    BY <2>1
  <2> HIDE DEF z
  <2>3. z \in Seq(Token)
    BY <2>2, SeqDef
  <2> QED BY <2>2, <2>3, LenProperties
<1>4. Stream(n) = x /\ HeadLen = Len(h) + 2
  BY DEF Stream, Encode, Cat, HeadLen
<1> HIDE DEF h, l, e, z
<1>5. IsCat(Token, h, l)
  BY <1>1, <1>2, CatAt
<1>6. /\ a \in Seq(Token) /\ Len(a) = Len(h) + 2
      /\ \A i \in 1..Len(h) : a[i] = h[i]
      /\ \A i \in 1..2 : a[Len(h) + i] = l[i]
  BY <1>2, <1>5 DEF IsCat
<1> HIDE DEF a
<1>7. IsCat(Token, a, e)
  BY <1>1, <1>6, CatAt
<1>8. /\ b \in Seq(Token) /\ Len(e) \in Nat /\ Len(a) \in Nat /\ Len(b) = Len(a) + Len(e)
      /\ \A i \in 1..Len(a) : b[i] = a[i]
      /\ \A i \in 1..Len(e) : b[Len(a) + i] = e[i]
  BY <1>7 DEF IsCat
<1> HIDE DEF b
<1>9. IsCat(Token, b, z)
  BY <1>3, <1>8, CatAt
<1>10. /\ x \in Seq(Token) /\ Len(x) = Len(b) + Len(z)
       /\ \A i \in 1..Len(b) : x[i] = b[i]
  BY <1>9 DEF IsCat
<1> HIDE DEF x
<1> DEFINE H == Len(h)
           E == Len(e)
<1>11. /\ H \in Nat \ {0} /\ E \in Nat /\ Len(a) = H + 2 /\ Len(b) = H + 2 + E
       /\ HeadLen = H + 2 /\ HeadLen \in Nat
  BY <1>1, <1>4, <1>6, <1>8
<1>12. /\ Len(x) = Len(b) + n
       /\ \A i \in 1..H : a[i] = h[i]
       /\ \A i \in 1..2 : a[H + i] = l[i]
       /\ \A i \in 1..E : b[Len(a) + i] = e[i]
  BY <1>3, <1>6, <1>8, <1>10
<1> HIDE DEF H, E
<1>13. Len(x) = HeadLen + E + n
  BY <1>11, <1>12
<1>14. \A i \in 1..(H + 2) : x[i] = a[i]
  <2>1. \A i \in 1..(H + 2) : i \in 1..Len(a) /\ i \in 1..Len(b)
    BY <1>11
  <2> QED BY <1>8, <1>10, <2>1
<1>15. \A i \in 1..H : x[i] = h[i]
  <2>1. \A i \in 1..H : i \in 1..(H + 2)
    BY <1>11
  <2> QED BY <1>12, <1>14, <2>1
<1>16. x[H + 1] = CRLF /\ x[H + 2] = CRLF
  <2>1. H + 1 \in 1..(H + 2) /\ H + 2 \in 1..(H + 2) /\ 1 \in 1..2 /\ 2 \in 1..2
    BY <1>11
  <2> QED BY <1>2, <1>12, <1>14, <2>1
<1>17. \A j \in 1..E : x[HeadLen + j] = e[j]
  <2>1. \A j \in 1..E : HeadLen + j \in 1..Len(b) /\ HeadLen + j = Len(a) + j
    BY <1>11
  <2> QED BY <1>10, <1>12, <2>1
<1> QED BY <1>4, <1>10, <1>11, <1>13, <1>15, <1>16, <1>17 DEF h, e, H, E

\* Chunk k + 1 in the stream.
LEMMA ChunkPlace ==
  ASSUME resp \in Responses, resp.kind = "chunked", NEW n \in Nat, NEW k \in 0..(Count - 1)
  PROVE  /\ EndOf(k) \in Nat /\ EndOf(k) >= HeadLen
         /\ EndOf(k + 1) = EndOf(k) + Len(resp.chunks[k + 1]) + 3
         /\ EndOf(k + 1) <= Len(Stream(n))
         /\ Stream(n)[EndOf(k) + 1] = Size(Len(resp.chunks[k + 1]))
         /\ Stream(n)[EndOf(k) + 2] = CRLF
         /\ \A j \in 1..Len(resp.chunks[k + 1]) :
               Stream(n)[EndOf(k) + 2 + j] = resp.chunks[k + 1][j]
<1> DEFINE X == Stream(n)
           E == EncodeBody(resp)
           F == Pieces(Sent, Count)
           d == resp.chunks[k + 1]
           c == Chunk(d)
           f == Len(Pieces(Sent, k))
<1>0. Count \in Nat
  BY ChunksType
<1>1. k \in 0..Count /\ Count \in 0..Count /\ k < Count /\ k + 1 \in 0..Count /\ k + 1 \in 1..Count
  BY <1>0
<1>2. Placed(Sent, k, Count)
  BY <1>1, SentPieces, PieceAt
<1>3. Sent[k + 1] = c /\ EndOf(k) = HeadLen + f /\ EndOf(k + 1) = HeadLen + Len(Pieces(Sent, k + 1))
  BY <1>1, SentPieces
<1>4. /\ Len(c) \in Nat /\ f \in Nat /\ Len(F) \in Nat
      /\ Len(Pieces(Sent, k + 1)) = f + Len(c)
      /\ f + Len(c) <= Len(F)
      /\ \A i \in 1..Len(c) : F[f + i] = c[i]
  <2> HIDE DEF c, f, F
  <2> QED BY <1>2, <1>3 DEF Placed, f, F
<1>5. /\ Len(d) \in Nat /\ Len(c) = Len(d) + 3 /\ c[1] = Size(Len(d)) /\ c[2] = CRLF
      /\ \A j \in 1..Len(d) : c[2 + j] = d[j]
  BY <1>1, ChunksType, ChunkParts
<1>6. /\ HeadLen \in Nat /\ Len(E) \in Nat /\ Len(X) = HeadLen + Len(E) + n
      /\ \A j \in 1..Len(E) : X[HeadLen + j] = E[j]
  BY StreamParts
<1>7. Len(E) = Len(F) + 3 /\ \A i \in 1..Len(F) : E[i] = F[i]
  <2>1. F \in Seq(Token)
    BY <1>1, SentPieces, PiecesType
  <2>2. E = Cat(F, Tail3)
    BY SentPieces
  <2> HIDE DEF F, E
  <2>3. IsCat(Token, F, Tail3)
    BY <2>1, TailParts, CatAt
  <2> QED BY <2>2, <2>3, TailParts DEF IsCat
<1> HIDE DEF X, E, F, d, c, f
<1>8. EndOf(k) \in Nat /\ EndOf(k) >= HeadLen
  BY <1>3, <1>4, <1>6
<1>9. EndOf(k + 1) = EndOf(k) + Len(d) + 3
  <2>1. Len(c) = Len(d) + 3 /\ Len(d) \in Nat
    BY <1>5
  <2>2. EndOf(k + 1) = HeadLen + (f + Len(c)) /\ EndOf(k) = HeadLen + f /\ f \in Nat /\ HeadLen \in Nat
    BY <1>3, <1>4, <1>6
  <2> DEFINE x == Len(d)
             y == Len(c)
  <2>3. /\ y = x + 3 /\ x \in Nat
        /\ EndOf(k + 1) = HeadLen + (f + y) /\ EndOf(k) = HeadLen + f
    BY <2>1, <2>2
  <2> HIDE DEF x, y
  <2>4. EndOf(k + 1) = EndOf(k) + x + 3
    BY <2>2, <2>3
  <2> QED BY <2>4 DEF x
<1>10. EndOf(k + 1) <= Len(X)
  <2> DEFINE y == Len(c)
             z == Len(F)
  <2>1. EndOf(k + 1) = HeadLen + (f + y) /\ f + y <= z /\ Len(X) = HeadLen + (z + 3) + n
    BY <1>3, <1>4, <1>6, <1>7
  <2>2. y \in Nat /\ z \in Nat /\ f \in Nat /\ HeadLen \in Nat
    BY <1>4, <1>6
  <2> HIDE DEF y, z
  <2> QED BY <2>1, <2>2
<1>11. \A i \in 1..Len(c) : X[EndOf(k) + i] = c[i]
  <2> SUFFICES ASSUME NEW i \in 1..Len(c) PROVE X[EndOf(k) + i] = c[i]
    OBVIOUS
  <2> DEFINE y == Len(c)
             z == Len(F)
  <2>1. y \in Nat /\ z \in Nat /\ f \in Nat /\ HeadLen \in Nat /\ f + y <= z /\ i \in 1..y
    BY <1>4, <1>6
  <2>2. f + i \in 1..z /\ f + i \in 1..(z + 3)
    <3> HIDE DEF y, z
    <3> QED BY <2>1
  <2>3. EndOf(k) + i = HeadLen + (f + i)
    <3> HIDE DEF y, z
    <3> QED BY <1>3, <2>1
  <2>4. X[HeadLen + (f + i)] = E[f + i]
    BY <1>6, <1>7, <2>2
  <2>5. E[f + i] = F[f + i]
    BY <1>7, <2>2
  <2> QED BY <1>4, <2>3, <2>4, <2>5
<1>12. 1 \in 1..Len(c) /\ 2 \in 1..Len(c)
  BY <1>5
<1>13. X[EndOf(k) + 1] = Size(Len(d)) /\ X[EndOf(k) + 2] = CRLF
  BY <1>5, <1>11, <1>12
<1>14. \A j \in 1..Len(d) : X[EndOf(k) + 2 + j] = d[j]
  <2> SUFFICES ASSUME NEW j \in 1..Len(d) PROVE X[EndOf(k) + 2 + j] = d[j]
    OBVIOUS
  <2> DEFINE x == Len(d)
  <2>1. x \in Nat /\ j \in 1..x /\ Len(c) = x + 3
    BY <1>5
  <2>2. 2 + j \in 1..Len(c) /\ EndOf(k) + (2 + j) = EndOf(k) + 2 + j
    <3> HIDE DEF x
    <3> QED BY <1>8, <2>1
  <2>3. X[EndOf(k) + (2 + j)] = c[2 + j]
    BY <1>11, <2>2
  <2> QED BY <1>5, <2>2, <2>3
<1> QED BY <1>8, <1>9, <1>10, <1>13, <1>14 DEF X, d

\* The last chunk, of size 0.
LEMMA LastPlace ==
  ASSUME resp \in Responses, resp.kind = "chunked", NEW n \in Nat
  PROVE  /\ EndOf(Count) \in Nat /\ EndOf(Count) >= HeadLen
         /\ Len(Stream(n)) = EndOf(Count) + 3 + n
         /\ Stream(n)[EndOf(Count) + 1] = Size(0)
         /\ Stream(n)[EndOf(Count) + 2] = CRLF
         /\ Stream(n)[EndOf(Count) + 3] = CRLF
<1> DEFINE X == Stream(n)
           E == EncodeBody(resp)
           F == Pieces(Sent, Count)
           f == Len(F)
<1>0. Count \in Nat /\ Count \in 0..Count
  BY ChunksType
<1>1. EndOf(Count) = HeadLen + f
  BY <1>0, SentPieces
<1>2. /\ HeadLen \in Nat /\ Len(X) = HeadLen + Len(E) + n
      /\ \A j \in 1..Len(E) : X[HeadLen + j] = E[j]
  BY StreamParts
<1>3. f \in Nat /\ Len(E) = f + 3 /\ \A i \in 1..3 : E[f + i] = Tail3[i]
  <2>1. F \in Seq(Token)
    BY <1>0, SentPieces, PiecesType
  <2>2. E = Cat(F, Tail3)
    BY SentPieces
  <2> HIDE DEF F, E
  <2>3. IsCat(Token, F, Tail3)
    BY <2>1, TailParts, CatAt
  <2> QED BY <2>2, <2>3, TailParts DEF IsCat
<1> HIDE DEF X, E, F, f
<1>4. EndOf(Count) \in Nat /\ EndOf(Count) >= HeadLen /\ Len(X) = EndOf(Count) + 3 + n
  BY <1>1, <1>2, <1>3
<1>5. \A i \in 1..3 : X[EndOf(Count) + i] = Tail3[i]
  <2> SUFFICES ASSUME NEW i \in 1..3 PROVE X[EndOf(Count) + i] = Tail3[i]
    OBVIOUS
  <2>1. f + i \in 1..(f + 3) /\ EndOf(Count) + i = HeadLen + (f + i)
    BY <1>1, <1>2, <1>3
  <2>2. X[HeadLen + (f + i)] = E[f + i]
    BY <1>2, <1>3, <2>1
  <2> QED BY <1>3, <2>1, <2>2
<1>6. 1 \in 1..3 /\ 2 \in 1..3 /\ 3 \in 1..3
  OBVIOUS
<1> QED BY <1>4, <1>5, <1>6, TailParts DEF X

-----------------------------------------------------------------------------
(* What the searches find. *)

LEMMA FirstIsLeast ==
  ASSUME NEW P, P \subseteq Nat \ {0}
  PROVE  /\ First(P) = 0 <=> P = {}
         /\ First(P) # 0 => First(P) \in P /\ \A j \in P : First(P) <= j
<1>1. CASE P = {}
  BY <1>1 DEF First
<1>2. CASE P # {}
  <2>1. \E i \in P : \A j \in P : i <= j
    BY <1>2, LeastNatural
  <2>2. First(P) \in P /\ \A j \in P : First(P) <= j
    BY <1>2, <2>1 DEF First
  <2> QED BY <1>2, <2>2
<1> QED BY <1>1, <1>2

LEMMA Numbers ==
  ASSUME TypeOK
  PROVE  Len(header) \in Nat /\ Len(wire) \in Nat
  BY LenProperties DEF TypeOK

\* The first empty line is the one that ends the header.
LEMMA HeadFound ==
  ASSUME resp \in Responses, NEW n \in Nat, NEW h, Len(h) \in Nat,
         \A i \in 1..Len(h) : h[i] = Stream(n)[i], FindEnd(h, 1) # 0
  PROVE  FindEnd(h, 1) + 1 = HeadLen /\ HeadLen <= Len(h) /\ HeadLen \in Nat
<1> DEFINE P == {i \in 1..(Len(h) - 1) : h[i] = CRLF /\ h[i + 1] = CRLF}
           e == FindEnd(h, 1)
           H == Len(HeaderOf(resp))
           X == Stream(n)
           m == Len(h)
<1>1. e \in P /\ \A j \in P : e <= j
  <2>1. P \subseteq Nat \ {0}
    OBVIOUS
  <2>2. e = First(P) /\ First(P) # 0
    BY DEF FindEnd
  <2> HIDE DEF P, e
  <2> QED BY <2>1, <2>2, FirstIsLeast
<1>2. /\ H \in Nat \ {0} /\ HeadLen = H + 2 /\ X[H + 1] = CRLF /\ X[H + 2] = CRLF
      /\ \A i \in 1..H : X[i] # CRLF
  BY StreamParts, HeaderParts
<1>3. e \in 1..(m - 1) /\ h[e] = CRLF /\ m \in Nat /\ \A i \in 1..m : h[i] = X[i]
  BY <1>1
<1> HIDE DEF e, H, X
<1>4. e > H
  <2>1. e \in 1..m
    BY <1>3
  <2>2. X[e] = CRLF
    BY <1>3, <2>1
  <2>3. e \notin 1..H
    BY <1>2, <2>2
  <2> QED BY <1>2, <1>3, <2>3
<1>5. H + 1 \in P
  <2>1. H + 1 \in 1..(m - 1) /\ H + 1 \in 1..m /\ H + 2 \in 1..m /\ (H + 1) + 1 = H + 2
    BY <1>2, <1>3, <1>4
  <2>2. h[H + 1] = CRLF /\ h[H + 2] = CRLF
    BY <1>2, <1>3, <2>1
  <2> QED BY <2>1, <2>2
<1>6. e <= H + 1
  <2> HIDE DEF P
  <2> QED BY <1>1, <1>5
<1>7. e + 1 = HeadLen /\ HeadLen <= m /\ HeadLen \in Nat
  BY <1>2, <1>3, <1>4, <1>6
<1> QED BY <1>7 DEF e

\* What the header says, seen in the beginning of the stream.
LEMMA HeaderSays ==
  ASSUME resp \in Responses, NEW n \in Nat, NEW h \in Seq(Token), HeadLen <= Len(h),
         \A i \in 1..Len(h) : h[i] = Stream(n)[i]
  PROVE  LET said == Range(SubSeq(h, 1, HeadLen)) IN
         /\ TransferEncodingChunked \in said <=> resp.kind = "chunked"
         /\ \A m \in Nat : ContentLength(m) \in said <=>
                              resp.kind = "length" /\ m = Len(Body(resp))
<1> DEFINE H == Len(HeaderOf(resp))
           g == SubSeq(h, 1, HeadLen)
           X == Stream(n)
<1>0. Len(h) \in Nat
  BY LenProperties
<1>1. /\ H \in Nat \ {0} /\ HeadLen = H + 2 /\ X[H + 1] = CRLF /\ X[H + 2] = CRLF
      /\ \A i \in 1..H : X[i] = HeaderOf(resp)[i]
  BY <1>0, StreamParts
<1>2. IsSubSeq(Token, h, 1, HeadLen)
  <2>1. HeadLen \in Nat /\ 1 \in Nat \ {0} /\ 1 <= HeadLen + 1
    BY <1>1
  <2> QED BY <1>0, <2>1, SubSeqAt
<1>3. g \in Seq(Token) /\ Len(g) = HeadLen /\ \A i \in 1..HeadLen : g[i] = X[i]
  <2>1. HeadLen \in Nat /\ HeadLen - 1 + 1 = HeadLen /\ \A i \in 1..HeadLen : 1 + i - 1 = i /\ i \in 1..Len(h)
    <3> HIDE DEF H
    <3> QED BY <1>0, <1>1
  <2>2. g \in Seq(Token) /\ Len(g) = HeadLen /\ \A i \in 1..HeadLen : g[i] = h[i]
    BY <1>2, <2>1 DEF IsSubSeq
  <2>3. \A i \in 1..HeadLen : h[i] = X[i]
    BY <2>1
  <2> HIDE DEF g, X
  <2> QED BY <2>2, <2>3
<1>4. DOMAIN g = 1..HeadLen
  <2> HIDE DEF g
  <2> QED BY <1>3, LenProperties
<1> HIDE DEF g, X
<1>5. ASSUME NEW t, t # CRLF, NEW v \in BOOLEAN, \A i \in 1..H : HeaderOf(resp)[i] = t <=> v
      PROVE  t \in Range(g) <=> v
  <2>1. ASSUME t \in Range(g) PROVE v
    <3>1. PICK i \in 1..HeadLen : g[i] = t
      BY <1>4, <2>1 DEF Range
    <3>2. X[i] = t
      BY <1>3, <3>1
    <3>3. i # H + 1 /\ i # H + 2
      <4> HIDE DEF H
      <4> QED BY <1>1, <1>5, <3>2
    <3>4. i \in 1..H
      <4> HIDE DEF H
      <4> QED BY <1>1, <3>3
    <3> HIDE DEF H
    <3> QED BY <1>1, <1>5, <3>2, <3>4
  <2>2. ASSUME v PROVE t \in Range(g)
    <3>1. 1 \in 1..H /\ 1 \in 1..HeadLen
      <4> HIDE DEF H
      <4> QED BY <1>1
    <3>2. g[1] = t
      <4> HIDE DEF H
      <4> QED BY <1>1, <1>3, <1>5, <2>2, <3>1
    <3> QED BY <1>4, <3>1, <3>2 DEF Range
  <2> QED BY <2>1, <2>2
<1>7. TransferEncodingChunked \in Range(g) <=> resp.kind = "chunked"
  <2>1. \A i \in 1..H : HeaderOf(resp)[i] = TransferEncodingChunked <=> resp.kind = "chunked"
    BY <1>0, HeaderParts
  <2> DEFINE v == resp.kind = "chunked"
  <2> HIDE DEF v, H
  <2>2. v \in BOOLEAN /\ \A i \in 1..H : HeaderOf(resp)[i] = TransferEncodingChunked <=> v
    BY <2>1 DEF v
  <2>3. TransferEncodingChunked \in Range(g) <=> v
    BY <1>5, <2>2, Tokens
  <2> QED BY <2>3 DEF v
<1>8. ASSUME NEW m \in Nat
      PROVE  ContentLength(m) \in Range(g) <=> resp.kind = "length" /\ m = Len(Body(resp))
  <2>1. \A i \in 1..H : HeaderOf(resp)[i] = ContentLength(m) <=>
                          resp.kind = "length" /\ m = Len(Body(resp))
    BY <1>0, HeaderParts
  <2> DEFINE v == resp.kind = "length" /\ m = Len(Body(resp))
  <2> HIDE DEF v, H
  <2>2. v \in BOOLEAN /\ \A i \in 1..H : HeaderOf(resp)[i] = ContentLength(m) <=> v
    BY <2>1 DEF v
  <2>3. ContentLength(m) \in Range(g) <=> v
    BY <1>5, <2>2, Tokens
  <2> QED BY <2>3 DEF v
<1> QED BY <1>7, <1>8 DEF g

\* Framing is what the header of the response says.
LEMMA FramingMeans ==
  ASSUME TypeOK, NEW n \in Nat, RestInv(n), hlen = HeadLen, hlen <= Len(header)
  PROVE  /\ TransferEncodingChunked \in Framing <=> resp.kind = "chunked"
         /\ \A m \in Nat : ContentLength(m) \in Framing <=>
                              resp.kind = "length" /\ m = Len(Body(resp))
<1>1. /\ resp \in Responses /\ header \in Seq(Token)
      /\ \A i \in 1..Len(header) : header[i] = Stream(n)[i]
  BY DEF TypeOK, RestInv
<1>2. Framing = Range(SubSeq(header, 1, HeadLen))
  BY DEF Framing
<1> QED BY <1>1, <1>2, HeaderSays

\* What the size line after k chunks says.
SizeAt(k) == IF k < Count THEN Len(resp.chunks[k + 1]) ELSE 0

LEMMA SizeLine ==
  ASSUME resp \in Responses, resp.kind = "chunked", NEW n \in Nat, NEW k \in 0..Count
  PROVE  /\ k \in Nat /\ Count \in Nat
         /\ EndOf(k) \in Nat /\ EndOf(k) >= HeadLen
         /\ SizeAt(k) \in Nat /\ (SizeAt(k) = 0 <=> k = Count)
         /\ Stream(n)[EndOf(k) + 1] = Size(SizeAt(k))
         /\ Stream(n)[EndOf(k) + 2] = CRLF
<1>0. Count \in Nat /\ k \in Nat
  BY ChunksType
<1>1. CASE k < Count
  <2>1. k \in 0..(Count - 1) /\ k + 1 \in 1..Count
    BY <1>0, <1>1
  <2>2. SizeAt(k) = Len(resp.chunks[k + 1]) /\ Len(resp.chunks[k + 1]) \in Nat \ {0}
    BY <1>1, <2>1, ChunksType DEF SizeAt
  <2>3. /\ EndOf(k) \in Nat /\ EndOf(k) >= HeadLen
        /\ Stream(n)[EndOf(k) + 1] = Size(Len(resp.chunks[k + 1])) /\ Stream(n)[EndOf(k) + 2] = CRLF
    BY <2>1, ChunkPlace
  <2>4. SizeAt(k) \in Nat /\ (SizeAt(k) = 0 <=> k = Count)
    BY <1>0, <1>1, <2>2
  <2> QED BY <1>0, <2>2, <2>3, <2>4
<1>2. CASE k = Count
  <2>1. SizeAt(k) = 0
    BY <1>0, <1>2 DEF SizeAt
  <2>2. /\ EndOf(Count) \in Nat /\ EndOf(Count) >= HeadLen
        /\ Stream(n)[EndOf(Count) + 1] = Size(0) /\ Stream(n)[EndOf(Count) + 2] = CRLF
    BY LastPlace
  <2> QED BY <1>0, <1>2, <2>1, <2>2
<1> QED BY <1>0, <1>1, <1>2

LEMMA LineFound ==
  ASSUME TypeOK, NEW n \in Nat, RestInv(n), resp.kind = "chunked", NEW k \in 0..Count,
         pos = EndOf(k) + 1, LineEnd # 0
  PROVE  /\ LineEnd = EndOf(k) + 2 /\ EndOf(k) + 2 <= Len(header)
         /\ SizeHere = SizeAt(k)
<1> DEFINE P == {i \in pos..Len(header) : header[i] = CRLF}
           X == Stream(n)
           m == Len(header)
<1>0. resp \in Responses /\ header \in Seq(Token) /\ m \in Nat
  BY Numbers DEF TypeOK
<1>1. /\ EndOf(k) \in Nat /\ SizeAt(k) \in Nat
      /\ X[EndOf(k) + 1] = Size(SizeAt(k)) /\ X[EndOf(k) + 2] = CRLF
  BY <1>0, SizeLine
<1>2. \A i \in 1..m : header[i] = X[i]
  BY DEF RestInv
<1>3. LineEnd \in P /\ \A j \in P : LineEnd <= j
  <2>1. P \subseteq Nat \ {0}
    BY <1>1
  <2>2. LineEnd = First(P)
    BY DEF LineEnd, FindCRLF
  <2> HIDE DEF P
  <2> QED BY <2>1, <2>2, FirstIsLeast
<1>4. LineEnd \in pos..m /\ header[LineEnd] = CRLF
  BY <1>3
<1> HIDE DEF X, m
<1>5. LineEnd # pos
  <2>1. pos \in 1..m
    BY <1>0, <1>1, <1>4
  <2>2. header[pos] = Size(SizeAt(k))
    BY <1>1, <1>2, <2>1
  <2> QED BY <1>1, <1>4, <2>2, Tokens
<1>6. EndOf(k) + 2 \in 1..m /\ EndOf(k) + 1 \in 1..m /\ EndOf(k) + 2 \in pos..m
  BY <1>0, <1>1, <1>4, <1>5
<1>7. EndOf(k) + 2 \in P
  <2>1. header[EndOf(k) + 2] = CRLF
    BY <1>1, <1>2, <1>6
  <2> QED BY <1>6, <2>1 DEF m
<1>8. LineEnd <= EndOf(k) + 2
  <2> HIDE DEF P
  <2> QED BY <1>3, <1>7
<1>9. LineEnd = EndOf(k) + 2 /\ EndOf(k) + 2 <= m
  BY <1>0, <1>1, <1>4, <1>5, <1>6, <1>8
<1> DEFINE l == SubSeq(header, pos, LineEnd - 1)
<1>10. l \in Seq(Token) /\ Len(l) = 1 /\ l[1] = Size(SizeAt(k))
  <2>1. LineEnd - 1 = pos /\ pos \in Nat \ {0} /\ pos \in Nat /\ pos <= pos + 1 /\ pos <= m
    BY <1>0, <1>1, <1>6, <1>9
  <2>2. IsSubSeq(Token, header, pos, pos)
    BY <1>0, <2>1, SubSeqAt DEF m
  <2>3. pos - pos + 1 = 1 /\ pos + 1 - 1 = pos /\ 1 \in 1..1
    BY <2>1
  <2>4. l \in Seq(Token) /\ Len(l) = 1 /\ l[1] = header[pos]
    BY <2>1, <2>2, <2>3 DEF IsSubSeq
  <2> HIDE DEF l
  <2> QED BY <1>1, <1>2, <1>6, <2>4
<1>11. SizeHere = SizeAt(k)
  <2>1. SizeHere = ChunkSize(l)
    BY DEF SizeHere
  <2> HIDE DEF l
  <2>2. Len(l) > 0 /\ l[1][1] = "hex" /\ l[1][2] = SizeAt(k)
    BY <1>1, <1>10, Tokens
  <2> QED BY <2>1, <2>2 DEF ChunkSize
<1> QED BY <1>9, <1>11 DEF m

-----------------------------------------------------------------------------
(* Receiving. *)

LEMMA RespKept ==
  ASSUME UNCHANGED resp
  PROVE  /\ \A n : Stream(n)' = Stream(n)
         /\ HeadLen' = HeadLen /\ Count' = Count
         /\ \A k : EndOf(k)' = EndOf(k) /\ BodyOf(k)' = BodyOf(k)
         /\ Body(resp)' = Body(resp)
  BY DEF Stream, HeadLen, Count, EndOf, BodyOf

LEMMA RestKept ==
  ASSUME UNCHANGED <<resp, header, wire>>, NEW n, RestInv(n)
  PROVE  RestInv(n)'
<1>1. Stream(n)' = Stream(n)
  BY RespKept
<1> QED BY <1>1 DEF RestInv

\* A recv takes the next bytes of the stream.
LEMMA Received ==
  ASSUME TypeOK, NEW n \in Nat, RestInv(n), UNCHANGED resp,
         NEW max \in Nat, NEW t, recv(max, t)
  PROVE  /\ header' \in Seq(Token) /\ wire' \in Seq(Token) /\ spent' = spent + t
         /\ RestInv(n)'
         /\ Len(header') \in Nat
         /\ Len(header) <= Len(header') /\ Len(header') <= Len(header) + max
         /\ \A i \in 1..Len(header') : header'[i] = Stream(n)[i]
<1>1. PICK c \in 1..max : /\ c <= Len(wire)
                          /\ header' = header \o SubSeq(wire, 1, c)
                          /\ wire' = SubSeq(wire, c + 1, Len(wire))
  BY DEF recv
<1> DEFINE a == Len(header)
           w == Len(wire)
           u == SubSeq(wire, 1, c)
           v == SubSeq(wire, c + 1, w)
           X == Stream(n)
<1>2. header \in Seq(Token) /\ wire \in Seq(Token) /\ a \in Nat /\ w \in Nat
  BY Numbers DEF TypeOK
<1>3. c \in Nat /\ c <= w /\ c <= max
  BY <1>1
<1>4. IsSubSeq(Token, wire, 1, c) /\ IsSubSeq(Token, wire, c + 1, w)
  <2>1. 1 \in Nat \ {0} /\ 1 <= c + 1 /\ c <= Len(wire)
    BY <1>1, <1>3
  <2>2. c + 1 \in Nat \ {0} /\ c + 1 <= w + 1 /\ w <= Len(wire)
    BY <1>2, <1>3
  <2> HIDE DEF w
  <2> QED BY <1>2, <1>3, <2>1, <2>2, SubSeqAt
<1>5. /\ a + w = Len(X)
      /\ \A i \in 1..a : header[i] = X[i]
      /\ \A i \in 1..w : wire[i] = X[a + i]
  BY DEF RestInv
<1> HIDE DEF a, w, X
<1>6. u \in Seq(Token) /\ Len(u) = c - 1 + 1 /\ \A i \in 1..(c - 1 + 1) : u[i] = wire[1 + i - 1]
  BY <1>4 DEF IsSubSeq
<1>7. v \in Seq(Token) /\ Len(v) = w - (c + 1) + 1 /\ \A i \in 1..(w - (c + 1) + 1) : v[i] = wire[c + 1 + i - 1]
  BY <1>4 DEF IsSubSeq
<1>8. header' = Cat(header, u) /\ wire' = v
  BY <1>1 DEF Cat, w
<1> HIDE DEF u, v
<1>9. Len(u) = c /\ Len(v) = w - c
  BY <1>2, <1>3, <1>6, <1>7
<1>10. IsCat(Token, header, u)
  BY <1>2, <1>6, CatAt
<1>11. /\ header' \in Seq(Token) /\ Len(header') = a + c
       /\ \A i \in 1..a : header'[i] = header[i]
       /\ \A i \in 1..c : header'[a + i] = u[i]
  BY <1>8, <1>9, <1>10 DEF IsCat, a
<1>12. \A i \in 1..(a + c) : header'[i] = X[i]
  <2> SUFFICES ASSUME NEW i \in 1..(a + c) PROVE header'[i] = X[i]
    OBVIOUS
  <2>1. CASE i <= a
    <3>1. i \in 1..a
      BY <1>2, <1>3, <2>1
    <3> QED BY <1>5, <1>11, <3>1
  <2>2. CASE i > a
    <3> DEFINE j == i - a
    <3>1. /\ j \in 1..c /\ i = a + j /\ j \in 1..w
          /\ j \in 1..(c - 1 + 1) /\ 1 + j - 1 = j
      BY <1>2, <1>3, <2>2
    <3> HIDE DEF j
    <3>2. header'[i] = wire[j]
      BY <1>6, <1>11, <3>1
    <3> QED BY <1>5, <3>1, <3>2
  <2> QED BY <1>2, <1>3, <2>1, <2>2
<1>13. \A i \in 1..(w - c) : v[i] = X[(a + c) + i]
  <2> SUFFICES ASSUME NEW i \in 1..(w - c) PROVE v[i] = X[(a + c) + i]
    OBVIOUS
  <2>1. /\ i \in 1..(w - (c + 1) + 1) /\ c + 1 + i - 1 = c + i /\ c + i \in 1..w
        /\ a + (c + i) = (a + c) + i
    BY <1>2, <1>3
  <2> QED BY <1>5, <1>7, <2>1
<1>14. RestInv(n)'
  <2>1. X' = X
    BY RespKept DEF X
  <2>2. Len(header') = a + c /\ Len(wire') = w - c
    BY <1>8, <1>9, <1>11
  <2>3. (a + c) + (w - c) = Len(X)
    BY <1>2, <1>3, <1>5
  <2>4. Len(header') + Len(wire') = Len(X')
    BY <2>1, <2>2, <2>3
  <2>5. \A i \in 1..Len(header') : header'[i] = X'[i]
    BY <1>12, <2>1, <2>2
  <2>6. \A i \in 1..Len(wire') : wire'[i] = X'[Len(header') + i]
    BY <1>8, <1>13, <2>1, <2>2
  <2> QED BY <2>4, <2>5, <2>6 DEF RestInv, X
<1>15. a + c \in Nat /\ a <= a + c /\ a + c <= a + max
  BY <1>2, <1>3
<1>16. spent' = spent + t
  BY DEF recv
<1> QED BY <1>7, <1>8, <1>11, <1>12, <1>14, <1>15, <1>16 DEF a, X

\* Data is cut out of what was received where it is in the stream.
LEMMA DataSlice ==
  ASSUME NEW n, NEW h \in Seq(Token), \A i \in 1..Len(h) : h[i] = Stream(n)[i],
         NEW d \in Seq(Data), NEW a \in Nat, NEW b \in Nat, b = a + Len(d), b <= Len(h),
         \A j \in 1..Len(d) : Stream(n)[a + j] = d[j]
  PROVE  SubSeq(h, a + 1, b) = d
<1> DEFINE s == SubSeq(h, a + 1, b)
           l == Len(d)
           X == Stream(n)
<1>1. l \in Nat /\ Len(h) \in Nat /\ b = a + l
  BY LenProperties
<1>2. IsSubSeq(Token, h, a + 1, b)
  <2>1. a + 1 \in Nat \ {0} /\ a + 1 <= b + 1
    <3> HIDE DEF l
    <3> QED BY <1>1
  <2> QED BY <2>1, SubSeqAt
<1>3. s \in Seq(Token) /\ Len(s) = b - (a + 1) + 1 /\ \A i \in 1..(b - (a + 1) + 1) : s[i] = h[a + 1 + i - 1]
  BY <1>2 DEF IsSubSeq
<1> HIDE DEF s, X, l
<1>4. Len(s) = l
  BY <1>1, <1>3
<1>5. \A i \in 1..l : s[i] = d[i]
  <2> SUFFICES ASSUME NEW i \in 1..l PROVE s[i] = d[i]
    OBVIOUS
  <2>1. i \in 1..(b - (a + 1) + 1) /\ a + 1 + i - 1 = a + i /\ a + i \in 1..Len(h)
    BY <1>1
  <2>2. s[i] = X[a + i]
    BY <1>3, <2>1 DEF X
  <2> QED BY <2>2 DEF X, l
<1>6. s = d
  BY <1>3, <1>4, <1>5, SameElements DEF l
<1> QED BY <1>6 DEF s

-----------------------------------------------------------------------------
(* Every step keeps the invariant. *)

\* The header or a chunk is complete, or the reading has failed.
LEMMA Failed ==
  ASSUME Finish(-1)
  PROVE  Place'
  BY DEF Finish, Place

LEMMA InitInv ==
  ASSUME Init
  PROVE  Inv
<1>0. resp \in Responses /\ Extra \subseteq Nat
  BY HttpClientAssumption DEF Init
<1>1. PICK n \in Extra \cup {0} : wire = Encode(resp) \o [i \in 1..n |-> Byte]
  BY DEF Init
<1>2. n \in Nat /\ wire = Stream(n)
  BY <1>0, <1>1 DEF Stream
<1>3. wire \in Seq(Token)
  BY <1>0, <1>2, StreamParts
<1>4. header = <<>> /\ Len(header) = 0
  BY DEF Init
<1>5. RestInv(n)
  <2>1. Len(wire) \in Nat
    BY <1>3, LenProperties
  <2>2. 0 + Len(wire) = Len(Stream(n)) /\ \A i \in 1..Len(wire) : wire[i] = Stream(n)[0 + i]
    BY <1>2, <2>1
  <2>3. 1..Len(header) = {}
    BY <1>4
  <2> QED BY <1>4, <2>2, <2>3 DEF RestInv
<1>6. TypeOK
  <2>1. header \in Seq(Token) /\ result \in Seq(Data)
    BY <1>4 DEF Init
  <2> QED BY <1>3, <2>1, HttpClientAssumption DEF Init, TypeOK
<1>7. Place
  BY DEF Init, Place
<1> QED BY <1>1, <1>5, <1>6, <1>7 DEF Inv

LEMMA HeadRecvInv ==
  ASSUME Inv, head_recv
  PROVE  Inv'
<1>0. TypeOK /\ Place /\ pc = "head" /\ resp \in Responses
  BY DEF Inv, TypeOK, head_recv
<1>1. UNCHANGED <<resp, prompt, pos, start, need, result>>
  BY DEF head_recv, peer
<1>2. PICK n \in Extra \cup {0} : RestInv(n)
  BY DEF Inv
<1>3. n \in Nat
  BY HttpClientAssumption
<1>4. PICK t \in Delays : recv(BUF_SIZE, t) /\ Spend(t)
  BY DEF head_recv
<1>5. t \in Nat /\ BUF_SIZE \in Nat
  BY DelaysAreTimes, HttpClientAssumption
<1>6. /\ header' \in Seq(Token) /\ wire' \in Seq(Token) /\ spent' = spent + t
      /\ RestInv(n)' /\ Len(header') \in Nat
      /\ \A i \in 1..Len(header') : header'[i] = Stream(n)[i]
  BY <1>0, <1>1, <1>2, <1>3, <1>4, <1>5, Received
<1>7. pc' \in {"head", "frame", "done"}
  BY <1>0 DEF head_recv, Finish, Stay
<1>8. TypeOK'
  <2>1. timeout' \in Int /\ spent' \in Nat
    BY <1>0, <1>4, <1>5, <1>6 DEF TypeOK, Spend
  <2> QED BY <1>0, <1>1, <1>6, <1>7, <2>1 DEF TypeOK
<1>9. Place'
  <2>1. HeadLen' = HeadLen
    BY <1>1, RespKept
  <2>2. result' = <<>>
    BY <1>0, <1>1 DEF Place
  <2>3. CASE pc' = "frame"
    <3>1. FindEnd(header', 1) # 0 /\ hlen' = FindEnd(header', 1) + 1
      BY <1>0, <2>3 DEF head_recv, Finish, Stay
    <3>2. hlen' = HeadLen /\ HeadLen <= Len(header')
      <4> DEFINE h == header'
      <4>1. Len(h) \in Nat /\ (\A i \in 1..Len(h) : h[i] = Stream(n)[i]) /\ FindEnd(h, 1) # 0
        BY <1>6, <3>1
      <4> HIDE DEF h
      <4>2. FindEnd(h, 1) + 1 = HeadLen /\ HeadLen <= Len(h)
        BY <1>0, <1>3, <4>1, HeadFound
      <4> QED BY <3>1, <4>2 DEF h
    <3> QED BY <2>1, <2>2, <2>3, <3>2 DEF Place
  <2>4. CASE pc' = "head"
    BY <2>2, <2>4 DEF Place
  <2>5. CASE pc' = "done"
    <3>1. ret' = -1
      BY <1>0, <2>5 DEF head_recv, Finish, Stay
    <3> QED BY <2>5, <3>1 DEF Place
  <2> QED BY <1>7, <2>3, <2>4, <2>5
<1> QED BY <1>2, <1>6, <1>8, <1>9 DEF Inv

LEMMA FrameChunkedInv ==
  ASSUME Inv, frame_chunked
  PROVE  Inv'
<1>0. TypeOK /\ Place /\ pc = "frame" /\ resp \in Responses
  BY DEF Inv, TypeOK, frame_chunked
<1>1. /\ UNCHANGED <<resp, prompt, wire, header, timeout, spent, hlen, start, need, result, ret>>
      /\ pos' = hlen + 1 /\ pc' = "size"
  BY DEF frame_chunked, peer
<1>2. PICK n \in Extra \cup {0} : RestInv(n)
  BY DEF Inv
<1>3. n \in Nat
  BY HttpClientAssumption
<1>4. hlen = HeadLen /\ hlen <= Len(header) /\ result = <<>>
  BY <1>0 DEF Place
<1>5. resp.kind = "chunked"
  BY <1>0, <1>2, <1>3, <1>4, FramingMeans DEF frame_chunked
<1>6. TypeOK' /\ RestInv(n)'
  BY <1>0, <1>1, <1>2, RestKept DEF TypeOK
<1>7. 0 \in 0..Count /\ EndOf(0) = HeadLen /\ BodyOf(0) = <<>> /\ HeadLen \in Nat
  <2>1. Count \in Nat /\ 0 \in 0..Count /\ BodyOf(0) = <<>> /\ HeadLen \in Nat
    BY <1>0, <1>3, ChunksType, BodyPieces, StreamParts
  <2>2. Pieces(Sent, 0) = <<>>
    BY <1>0, SentPieces, PiecesStep
  <2>3. EndOf(0) = HeadLen + Len(Pieces(Sent, 0))
    BY <1>0, <2>1, SentPieces
  <2>4. EndOf(0) = HeadLen + 0
    BY <2>2, <2>3
  <2> QED BY <2>1, <2>4
<1>8. AtSize(0)'
  <2>1. EndOf(0)' = EndOf(0) /\ BodyOf(0)' = BodyOf(0)
    BY <1>1, RespKept
  <2>2. pos' = EndOf(0) + 1 /\ pos' <= Len(header) + 1
    <3>1. Len(header) \in Nat
      BY <1>0, Numbers
    <3> QED BY <1>1, <1>4, <1>7, <3>1
  <2> QED BY <1>1, <1>4, <1>7, <2>1, <2>2 DEF AtSize
<1>9. Place'
  <2>1. HeadLen' = HeadLen
    BY <1>1, RespKept
  <2>2. 0 \in 0..Len(resp'.chunks)
    BY <1>1, <1>7 DEF Count
  <2>3. hlen' = HeadLen' /\ hlen' <= Len(header') /\ resp'.kind = "chunked" /\ pc' = "size"
    BY <1>1, <1>4, <1>5, <2>1
  <2>4. (\E k \in 0..Len(resp.chunks) : AtSize(k))'
    BY <1>8, <2>2
  <2> QED BY <2>3, <2>4 DEF Place
<1> QED BY <1>2, <1>6, <1>9 DEF Inv

\* The whole body is there.
LEMMA BodyTaken ==
  ASSUME resp \in Responses, resp.kind = "length", NEW n \in Nat,
         NEW h \in Seq(Token), \A i \in 1..Len(h) : h[i] = Stream(n)[i],
         hlen = HeadLen, Len(h) = hlen + Len(Body(resp))
  PROVE  SubSeq(h, hlen + 1, Len(h)) = Body(resp)
<1> DEFINE d == Body(resp)
<1>1. d \in Seq(Data) /\ Len(d) \in Nat
  BY BodyPieces
<1>2. HeadLen \in Nat /\ \A j \in 1..Len(d) : Stream(n)[HeadLen + j] = d[j]
  <2>1. EncodeBody(resp) = d
    BY DEF EncodeBody
  <2> QED BY <2>1, StreamParts
<1> HIDE DEF d
<1>3. Len(h) \in Nat /\ Len(h) = HeadLen + Len(d)
  BY LenProperties DEF d
<1>4. SubSeq(h, HeadLen + 1, Len(h)) = d
  <2> DEFINE b == Len(h)
  <2>1. b \in Nat /\ b = HeadLen + Len(d) /\ b <= Len(h)
    BY <1>3
  <2> HIDE DEF b
  <2>2. SubSeq(h, HeadLen + 1, b) = d
    BY <1>1, <1>2, <2>1, DataSlice
  <2> QED BY <2>2 DEF b
<1> QED BY <1>4 DEF d

\* Chunk k + 1 is there.
LEMMA ChunkTaken ==
  ASSUME resp \in Responses, resp.kind = "chunked", NEW n \in Nat, NEW k \in 0..(Count - 1),
         NEW h \in Seq(Token), \A i \in 1..Len(h) : h[i] = Stream(n)[i], EndOf(k + 1) <= Len(h)
  PROVE  BodyOf(k) \o SubSeq(h, EndOf(k) + 2 + 1, EndOf(k) + 2 + Len(resp.chunks[k + 1])) = BodyOf(k + 1)
<1> DEFINE d == resp.chunks[k + 1]
           a == EndOf(k) + 2
<1>1. k + 1 \in 1..Count
  BY ChunksType
<1>2. d \in Seq(Data) /\ Len(d) \in Nat
  BY <1>1, ChunksType
<1>3. /\ EndOf(k) \in Nat /\ EndOf(k + 1) = EndOf(k) + Len(d) + 3
      /\ \A j \in 1..Len(d) : Stream(n)[EndOf(k) + 2 + j] = d[j]
  BY ChunkPlace
<1>4. Len(h) \in Nat
  BY LenProperties
<1>5. a \in Nat /\ a + Len(d) \in Nat /\ a + Len(d) <= Len(h)
  <2> DEFINE x == Len(d)
             y == Len(h)
  <2>1. x \in Nat /\ y \in Nat /\ EndOf(k) \in Nat /\ EndOf(k) + x + 3 <= y
    BY <1>2, <1>3, <1>4
  <2> HIDE DEF x, y
  <2>2. EndOf(k) + 2 \in Nat /\ EndOf(k) + 2 + x \in Nat /\ EndOf(k) + 2 + x <= y
    BY <2>1
  <2> QED BY <2>2 DEF x, y
<1>6. SubSeq(h, a + 1, a + Len(d)) = d
  <2>1. \A j \in 1..Len(d) : Stream(n)[a + j] = d[j]
    BY <1>3
  <2> DEFINE b == a + Len(d)
  <2>2. b \in Nat /\ b = a + Len(d) /\ b <= Len(h)
    BY <1>5
  <2> HIDE DEF a, b, d
  <2>3. SubSeq(h, a + 1, b) = d
    BY <1>2, <1>5, <2>1, <2>2, DataSlice
  <2> QED BY <2>3 DEF b
<1>7. BodyOf(k + 1) = BodyOf(k) \o d
  BY BodyPieces DEF Cat
<1> HIDE DEF d
<1> QED BY <1>6, <1>7 DEF a, d

LEMMA PlaceSize ==
  ASSUME pc' = "size", hlen' = HeadLen', hlen' <= Len(header'), resp'.kind = "chunked",
         NEW k \in 0..Count', AtSize(k)'
  PROVE  Place'
<1>1. k \in 0..Len(resp'.chunks)
  BY DEF Count
<1>2. (\E j \in 0..Len(resp.chunks) : AtSize(j))'
  BY <1>1
<1> QED BY <1>2 DEF Place

LEMMA PlaceFill ==
  ASSUME pc' = "fill", hlen' = HeadLen', hlen' <= Len(header'), need' \in Nat,
         InLength' \/ (resp'.kind = "chunked" /\ \E k \in 0..(Count' - 1) : InChunk(k)')
  PROVE  Place'
<1>1. InLength' \/ (resp'.kind = "chunked" /\ (\E k \in 0..(Len(resp.chunks) - 1) : InChunk(k))')
  BY DEF Count
<1> QED BY <1>1 DEF Place

\* The reading waits for what remains, or has failed.
LEMMA RemainMeans ==
  ASSUME NEW last, Remain(last)
  PROVE  /\ last > Len(header) /\ UNCHANGED result
         /\ Finish(-1) \/ (pc' = "fill" /\ need' = last - Len(header))
  BY DEF Remain

LEMMA FrameLengthInv ==
  ASSUME Inv, frame_length
  PROVE  Inv'
<1>0. TypeOK /\ Place /\ pc = "frame" /\ resp \in Responses
  BY DEF Inv, TypeOK, frame_length
<1>1. UNCHANGED <<resp, prompt, wire, header, timeout, spent, hlen, pos, start>>
  BY DEF frame_length, peer
<1>2. PICK n \in Extra \cup {0} : RestInv(n)
  BY DEF Inv
<1>3. n \in Nat
  BY HttpClientAssumption
<1>4. hlen = HeadLen /\ hlen <= Len(header) /\ result = <<>>
  BY <1>0 DEF Place
<1>5. PICK m \in 0..MaxChunk :
        /\ ContentLength(m) \in Framing
        /\ \/ Remain(hlen + m)
           \/ Len(header) = hlen + m /\ need' = 0 /\ TakeAll(header)
           \/ Len(header) > hlen + m /\ need' = 0 /\ Finish(-1) /\ UNCHANGED result
  BY DEF frame_length
<1>6. m \in Nat /\ resp.kind = "length" /\ m = Len(Body(resp))
  <2>1. m \in Nat
    BY HttpResponseAssumption
  <2> QED BY <1>0, <1>2, <1>3, <1>4, <1>5, <2>1, FramingMeans
<1>7. RestInv(n)'
  BY <1>1, <1>2, RestKept
<1>8. /\ HeadLen' = HeadLen /\ Body(resp)' = Body(resp)
      /\ HeadLen \in Nat /\ Len(header) \in Nat /\ header \in Seq(Token)
      /\ Body(resp) \in Seq(Data) /\ <<>> \in Seq(Data)
  BY <1>0, <1>1, <1>3, RespKept, StreamParts, Numbers, BodyPieces DEF TypeOK
<1> DEFINE last == hlen + m
<1>9. \/ Remain(last)
      \/ Finish(-1) /\ UNCHANGED result
      \/ Len(header) = last /\ TakeAll(header)
  BY <1>5
<1>10. last \in Nat
  BY <1>4, <1>6, <1>8
<1>11. pc' \in {"fill", "done"} /\ result' \in Seq(Data) /\ Place'
  <2>1. CASE Finish(-1) /\ UNCHANGED result
    BY <1>4, <1>8, <2>1, Failed DEF Finish
  <2>2. CASE Remain(last) /\ ~Finish(-1)
    <3>1. /\ last > Len(header) /\ UNCHANGED result
          /\ pc' = "fill" /\ need' = last - Len(header)
      <4> HIDE DEF last
      <4> QED BY <2>2, RemainMeans
    <3>2. need' \in Nat
      <4> HIDE DEF last
      <4> QED BY <1>8, <1>10, <3>1
    <3>3. InLength'
      <4>1. resp'.kind = "length" /\ hlen' = hlen /\ header' = header
        BY <1>1, <1>6
      <4>2. Len(Body(resp))' = m
        BY <1>6, <1>8
      <4>3. hlen \in Nat /\ m \in Nat /\ Len(header) \in Nat
        BY <1>4, <1>6, <1>8
      <4>4. need' = hlen' + Len(Body(resp))' - Len(header')
        BY <3>1, <4>1, <4>2, <4>3
      <4> QED BY <4>1, <4>4 DEF InLength
    <3>4. Place'
      BY <1>1, <1>4, <1>8, <3>1, <3>2, <3>3, PlaceFill
    <3> QED BY <1>4, <1>8, <3>1, <3>4
  <2>4. Remain(last) => UNCHANGED result
    <3> HIDE DEF last
    <3> QED BY RemainMeans
  <2>3. CASE Len(header) = last /\ TakeAll(header)
    <3>1. Len(header) = hlen + Len(Body(resp))
      BY <1>6, <2>3
    <3>2. SubSeq(header, hlen + 1, Len(header)) = Body(resp)
      BY <1>0, <1>2, <1>3, <1>4, <1>6, <1>8, <3>1, BodyTaken DEF RestInv
    <3>3. pc' = "done" /\ result' = Body(resp)'
      BY <1>8, <2>3, <3>2 DEF TakeAll, Finish
    <3>4. Place'
      BY <3>3 DEF Place
    <3> QED BY <1>8, <3>3, <3>4
  <2> HIDE DEF last
  <2> QED BY <1>9, <2>1, <2>2, <2>3, <2>4
<1>12. TypeOK'
  BY <1>0, <1>1, <1>11 DEF TypeOK
<1> QED BY <1>2, <1>7, <1>11, <1>12 DEF Inv

LEMMA FailedInv ==
  ASSUME Inv, frame_neither \/ recv_fails
  PROVE  Inv'
<1>0. TypeOK /\ resp \in Responses
  BY DEF Inv, TypeOK
<1>1. UNCHANGED <<resp, prompt, wire, header, timeout, hlen, pos, start, need, result>> /\ Finish(-1)
  BY DEF frame_neither, recv_fails, peer
<1>2. PICK n \in Extra \cup {0} : RestInv(n)
  BY DEF Inv
<1>3. RestInv(n)'
  BY <1>1, <1>2, RestKept
<1>4. spent' \in Nat
  <2>1. CASE frame_neither
    BY <1>0, <2>1 DEF frame_neither, TypeOK
  <2>2. CASE recv_fails
    <3>1. PICK t \in Delays : spent' = spent + t
      BY <2>2 DEF recv_fails
    <3> QED BY <1>0, <3>1, DelaysAreTimes DEF TypeOK
  <2> QED BY <2>1, <2>2
<1>5. TypeOK'
  BY <1>0, <1>1, <1>4 DEF TypeOK, Finish
<1>6. Place'
  BY <1>1, Failed
<1> QED BY <1>2, <1>3, <1>5, <1>6 DEF Inv

LEMMA SizeRecvInv ==
  ASSUME Inv, size_recv
  PROVE  Inv'
<1>0. TypeOK /\ Place /\ pc = "size" /\ resp \in Responses
  BY DEF Inv, TypeOK, size_recv
<1>1. UNCHANGED <<resp, prompt, hlen, pos, start, need, result>>
  BY DEF size_recv, peer
<1>2. PICK n \in Extra \cup {0} : RestInv(n)
  BY DEF Inv
<1>3. n \in Nat
  BY HttpClientAssumption
<1>4. PICK t \in Delays : recv(BUF_SIZE, t) /\ Spend(t)
  BY DEF size_recv
<1>5. t \in Nat /\ BUF_SIZE \in Nat
  BY DelaysAreTimes, HttpClientAssumption
<1>6. /\ header' \in Seq(Token) /\ wire' \in Seq(Token) /\ spent' = spent + t
      /\ RestInv(n)' /\ Len(header') \in Nat /\ Len(header) <= Len(header')
  BY <1>0, <1>1, <1>2, <1>3, <1>4, <1>5, Received
<1>7. pc' = "size" \/ (pc' = "done" /\ Finish(-1))
  BY <1>0 DEF size_recv, Finish, Stay
<1>8. TypeOK'
  <2>1. timeout' \in Int /\ spent' \in Nat
    BY <1>0, <1>4, <1>5, <1>6 DEF TypeOK, Spend
  <2> QED BY <1>0, <1>1, <1>6, <1>7, <2>1 DEF TypeOK
<1>9. Place'
  <2>1. CASE pc' = "size"
    <3>1. PICK k \in 0..Len(resp.chunks) : AtSize(k)
      BY <1>0 DEF Place
    <3>2. /\ HeadLen' = HeadLen /\ Count' = Count
          /\ EndOf(k)' = EndOf(k) /\ BodyOf(k)' = BodyOf(k)
      BY <1>1, RespKept
    <3>3. hlen = HeadLen /\ hlen <= Len(header) /\ resp.kind = "chunked" /\ HeadLen \in Nat
      BY <1>0, <1>3, StreamParts DEF Place
    <3>4. hlen' <= Len(header')
      <4>1. Len(header) \in Nat
        BY <1>0, Numbers
      <4> QED BY <1>1, <1>6, <3>3, <4>1
    <3>5. AtSize(k)'
      <4>1. pos = EndOf(k) + 1 /\ pos <= Len(header) + 1 /\ result = BodyOf(k)
        BY <3>1 DEF AtSize
      <4>2. EndOf(k) \in Nat /\ Len(header) \in Nat
        BY <1>0, <1>3, <3>1, <3>3, SizeLine, Numbers DEF Count
      <4>3. pos <= Len(header') + 1
        BY <1>6, <4>1, <4>2
      <4> QED BY <1>1, <3>2, <4>1, <4>3 DEF AtSize
    <3>6. k \in 0..Count'
      BY <3>1, <3>2 DEF Count
    <3> QED BY <1>1, <2>1, <3>2, <3>3, <3>4, <3>5, <3>6, PlaceSize
  <2>2. CASE Finish(-1)
    BY <2>2, Failed
  <2> QED BY <1>7, <2>1, <2>2
<1> QED BY <1>2, <1>6, <1>8, <1>9 DEF Inv

\* Chunk k + 1 is taken, and the reader is at the next size line.
LEMMA ChunkDone ==
  ASSUME resp \in Responses, resp.kind = "chunked", NEW n \in Nat, NEW k \in 0..(Count - 1),
         UNCHANGED resp, hlen' = HeadLen, hlen' <= Len(header'),
         header' \in Seq(Token), \A i \in 1..Len(header') : header'[i] = Stream(n)[i],
         EndOf(k + 1) <= Len(header'), pos' = EndOf(k + 1) + 1, pc' = "size",
         result' = BodyOf(k) \o SubSeq(header', EndOf(k) + 2 + 1, EndOf(k) + 2 + Len(resp.chunks[k + 1]))
  PROVE  Place' /\ result' \in Seq(Data)
<1>1. k + 1 \in 0..Count /\ HeadLen' = HeadLen /\ Count' = Count
  BY ChunksType, RespKept
<1>2. result' = BodyOf(k + 1)
  <2> DEFINE h == header'
  <2>1. /\ h \in Seq(Token) /\ (\A i \in 1..Len(h) : h[i] = Stream(n)[i]) /\ EndOf(k + 1) <= Len(h)
        /\ result' = BodyOf(k) \o SubSeq(h, EndOf(k) + 2 + 1, EndOf(k) + 2 + Len(resp.chunks[k + 1]))
    OBVIOUS
  <2> HIDE DEF h
  <2> QED BY <2>1, ChunkTaken
<1>3. result' \in Seq(Data)
  BY <1>1, <1>2, BodyPieces
<1>4. AtSize(k + 1)'
  <2>1. EndOf(k + 1)' = EndOf(k + 1) /\ BodyOf(k + 1)' = BodyOf(k + 1)
    BY RespKept
  <2>2. EndOf(k + 1) \in Nat /\ Len(header') \in Nat
    <3>1. Len(header') \in Nat
      BY LenProperties
    <3> QED BY <1>1, <3>1, SizeLine
  <2>3. pos' <= Len(header') + 1
    BY <2>2
  <2> QED BY <1>2, <2>1, <2>3 DEF AtSize
<1>5. Place'
  BY <1>1, <1>4, PlaceSize
<1> QED BY <1>3, <1>5

LEMMA ChunkStartInv ==
  ASSUME Inv, chunk_start
  PROVE  Inv'
<1>0. TypeOK /\ Place /\ pc = "size" /\ resp \in Responses /\ LineEnd # 0 /\ SizeHere # 0
  BY DEF Inv, TypeOK, chunk_start
<1>1. UNCHANGED <<resp, prompt, wire, header, timeout, spent, hlen>>
  BY DEF chunk_start, peer
<1>2. PICK n \in Extra \cup {0} : RestInv(n)
  BY DEF Inv
<1>3. n \in Nat
  BY HttpClientAssumption
<1>4. hlen = HeadLen /\ hlen <= Len(header) /\ resp.kind = "chunked"
  BY <1>0 DEF Place
<1>5. PICK k \in 0..Count : AtSize(k)
  BY <1>0 DEF Place, Count
<1>6. pos = EndOf(k) + 1 /\ result = BodyOf(k)
  BY <1>5 DEF AtSize
<1>7. LineEnd = EndOf(k) + 2 /\ SizeHere = SizeAt(k)
  BY <1>0, <1>2, <1>3, <1>4, <1>5, <1>6, LineFound
<1>8. k \in 0..(Count - 1) /\ SizeHere = Len(resp.chunks[k + 1])
  <2>1. k \in Nat /\ Count \in Nat /\ k # Count
    BY <1>0, <1>3, <1>4, <1>5, <1>7, SizeLine
  <2>2. k < Count /\ k \in 0..(Count - 1)
    BY <1>5, <2>1
  <2> QED BY <1>7, <2>2 DEF SizeAt
<1> DEFINE d == Len(resp.chunks[k + 1])
           last == NextChunk(LineEnd, SizeHere) - 1
<1>9. EndOf(k) \in Nat /\ d \in Nat /\ EndOf(k + 1) = EndOf(k) + d + 3
  <2>1. k + 1 \in 1..Count
    BY <1>0, <1>8, ChunksType
  <2> QED BY <1>0, <1>3, <1>4, <1>8, <2>1, ChunkPlace, ChunksType
<1>10. /\ start' = EndOf(k) + 2 /\ pos' = EndOf(k + 1) + 1 /\ last = EndOf(k + 1)
       /\ EndOf(k + 1) \in Nat
  <2>1. start' = LineEnd /\ pos' = LineEnd + d + 2 /\ last = (LineEnd + d + 2) - 1
    BY <1>8 DEF chunk_start, NextChunk
  <2> HIDE DEF d, last
  <2> QED BY <1>7, <1>9, <2>1
<1>11. \/ Remain(last)
       \/ Len(header) >= last /\ TakeChunk(header, LineEnd, SizeHere)
  BY DEF chunk_start
<1>12. /\ HeadLen' = HeadLen /\ Count' = Count /\ Len(header) \in Nat /\ HeadLen \in Nat
       /\ EndOf(k)' = EndOf(k) /\ EndOf(k + 1)' = EndOf(k + 1) /\ BodyOf(k)' = BodyOf(k)
       /\ header \in Seq(Token) /\ result \in Seq(Data)
  BY <1>0, <1>1, <1>3, RespKept, Numbers, StreamParts DEF TypeOK
<1> HIDE DEF last
<1>13. pc' \in {"size", "fill", "done"} /\ result' \in Seq(Data) /\ Place'
  <2>1. CASE Remain(last)
    <3>1. /\ last > Len(header) /\ UNCHANGED result
          /\ Finish(-1) \/ (pc' = "fill" /\ need' = last - Len(header))
      BY <2>1, RemainMeans
    <3>2. CASE Finish(-1)
      BY <1>12, <3>1, <3>2, Failed DEF Finish
    <3>3. CASE pc' = "fill" /\ need' = last - Len(header)
      <4>1. need' \in Nat
        BY <1>10, <1>12, <3>1, <3>3
      <4>2. InChunk(k)'
        <5>1. /\ start' = EndOf(k)' + 2 /\ pos' = EndOf(k + 1)' + 1 /\ result' = BodyOf(k)'
              /\ need' = EndOf(k + 1)' - Len(header')
          BY <1>1, <1>6, <1>10, <1>12, <3>1, <3>3
        <5> QED BY <5>1 DEF InChunk
      <4>3. resp'.kind = "chunked" /\ hlen' = HeadLen' /\ hlen' <= Len(header') /\ k \in 0..(Count' - 1)
        BY <1>1, <1>4, <1>8, <1>12
      <4>4. Place'
        BY <3>3, <4>1, <4>2, <4>3, PlaceFill
      <4> QED BY <1>12, <3>1, <3>3, <4>4
    <3> QED BY <3>1, <3>2, <3>3
  <2>2. CASE Len(header) >= last /\ TakeChunk(header, LineEnd, SizeHere)
    <3>1. /\ pc' = "size"
          /\ result' = BodyOf(k) \o SubSeq(header, EndOf(k) + 2 + 1, EndOf(k) + 2 + Len(resp.chunks[k + 1]))
      BY <1>6, <1>7, <1>8, <2>2 DEF TakeChunk
    <3>2. /\ EndOf(k + 1) <= Len(header')
      BY <1>1, <1>10, <1>12, <2>2
    <3>3. header' = header /\ \A i \in 1..Len(header) : header[i] = Stream(n)[i]
      BY <1>1, <1>2 DEF RestInv
    <3>4. Place' /\ result' \in Seq(Data)
      <4>1. /\ hlen' = HeadLen /\ hlen' <= Len(header') /\ header' \in Seq(Token) /\ UNCHANGED resp
            /\ \A i \in 1..Len(header') : header'[i] = Stream(n)[i]
            /\ result' = BodyOf(k) \o SubSeq(header', EndOf(k) + 2 + 1, EndOf(k) + 2 + Len(resp.chunks[k + 1]))
        BY <1>1, <1>4, <1>12, <3>1, <3>3
      <4> QED BY <1>0, <1>3, <1>4, <1>8, <1>10, <3>1, <3>2, <4>1, ChunkDone
    <3> QED BY <3>1, <3>4
  <2> QED BY <1>11, <2>1, <2>2
<1>14. TypeOK'
  BY <1>0, <1>1, <1>13 DEF TypeOK
<1>15. RestInv(n)'
  BY <1>1, <1>2, RestKept
<1> QED BY <1>2, <1>13, <1>14, <1>15 DEF Inv

LEMMA ChunkLastInv ==
  ASSUME Inv, chunk_last
  PROVE  Inv'
<1>0. TypeOK /\ Place /\ pc = "size" /\ resp \in Responses /\ LineEnd # 0 /\ SizeHere = 0
  BY DEF Inv, TypeOK, chunk_last
<1>1. UNCHANGED <<resp, prompt, wire, header, timeout, spent, hlen, result>> /\ pc' = "last"
  BY DEF chunk_last, peer
<1>2. PICK n \in Extra \cup {0} : RestInv(n)
  BY DEF Inv
<1>3. n \in Nat
  BY HttpClientAssumption
<1>4. hlen = HeadLen /\ hlen <= Len(header) /\ resp.kind = "chunked"
  BY <1>0 DEF Place
<1>5. PICK k \in 0..Count : AtSize(k)
  BY <1>0 DEF Place, Count
<1>6. pos = EndOf(k) + 1 /\ result = BodyOf(k)
  BY <1>5 DEF AtSize
<1>7. SizeHere = SizeAt(k)
  BY <1>0, <1>2, <1>3, <1>4, <1>5, <1>6, LineFound
<1>8. k = Count
  BY <1>0, <1>3, <1>4, <1>5, <1>7, SizeLine
<1>9. result = Body(resp)
  BY <1>0, <1>6, <1>8, BodyPieces
<1>10. HeadLen' = HeadLen /\ Body(resp)' = Body(resp)
  BY <1>1, RespKept
<1>11. Place'
  <2>1. hlen' = HeadLen' /\ hlen' <= Len(header') /\ resp'.kind = "chunked" /\ result' = Body(resp)'
    BY <1>1, <1>4, <1>9, <1>10
  <2> QED BY <1>1, <2>1 DEF Place
<1>12. TypeOK' /\ RestInv(n)'
  BY <1>0, <1>1, <1>2, RestKept DEF TypeOK
<1> QED BY <1>2, <1>11, <1>12 DEF Inv

LEMMA LastFoundInv ==
  ASSUME Inv, last_found
  PROVE  Inv'
<1>0. TypeOK /\ Place /\ pc = "last"
  BY DEF Inv, last_found
<1>1. UNCHANGED <<resp, prompt, wire, header, timeout, spent, hlen, result>> /\ pc' = "done"
  BY DEF last_found, peer, Finish
<1>2. PICK n \in Extra \cup {0} : RestInv(n)
  BY DEF Inv
<1>3. result' = Body(resp)'
  BY <1>0, <1>1, RespKept DEF Place
<1>4. Place'
  BY <1>1, <1>3 DEF Place
<1>5. TypeOK' /\ RestInv(n)'
  BY <1>0, <1>1, <1>2, RestKept DEF TypeOK
<1> QED BY <1>2, <1>4, <1>5 DEF Inv

LEMMA LastRecvInv ==
  ASSUME Inv, last_recv
  PROVE  Inv'
<1>0. TypeOK /\ Place /\ pc = "last" /\ resp \in Responses
  BY DEF Inv, TypeOK, last_recv
<1>1. UNCHANGED <<resp, prompt, hlen, pos, start, need, result>>
  BY DEF last_recv, peer
<1>2. PICK n \in Extra \cup {0} : RestInv(n)
  BY DEF Inv
<1>3. n \in Nat
  BY HttpClientAssumption
<1>4. PICK t \in Delays : recv(BUF_SIZE, t) /\ SpendLast(t)
  BY DEF last_recv
<1>5. t \in Nat /\ BUF_SIZE \in Nat
  BY DelaysAreTimes, HttpClientAssumption
<1>6. /\ header' \in Seq(Token) /\ wire' \in Seq(Token) /\ spent' = spent + t
      /\ RestInv(n)' /\ Len(header') \in Nat /\ Len(header) <= Len(header')
  BY <1>0, <1>1, <1>2, <1>3, <1>4, <1>5, Received
<1>7. pc' = "last" \/ (pc' = "done" /\ Finish(-1))
  BY <1>0 DEF last_recv, Finish, Stay
<1>8. TypeOK'
  <2>1. timeout' \in Int /\ spent' \in Nat
    BY <1>0, <1>4, <1>5, <1>6 DEF TypeOK, SpendLast
  <2> QED BY <1>0, <1>1, <1>6, <1>7, <2>1 DEF TypeOK
<1>9. Place'
  <2>1. CASE pc' = "last"
    <3>1. /\ hlen = HeadLen /\ hlen <= Len(header) /\ resp.kind = "chunked" /\ HeadLen \in Nat
          /\ result = Body(resp) /\ Len(header) \in Nat
      BY <1>0, <1>3, StreamParts, Numbers DEF Place
    <3>2. HeadLen' = HeadLen /\ Body(resp)' = Body(resp)
      BY <1>1, RespKept
    <3>3. hlen' <= Len(header')
      BY <1>1, <1>6, <3>1
    <3>4. hlen' = HeadLen' /\ resp'.kind = "chunked" /\ result' = Body(resp)'
      BY <1>1, <3>1, <3>2
    <3> QED BY <2>1, <3>3, <3>4 DEF Place
  <2>2. CASE Finish(-1)
    BY <2>2, Failed
  <2> QED BY <1>7, <2>1, <2>2
<1> QED BY <1>2, <1>6, <1>8, <1>9 DEF Inv

LEMMA FillLateInv ==
  ASSUME Inv, fill_late
  PROVE  Inv'
<1>0. TypeOK /\ Place /\ pc = "fill" /\ resp \in Responses
  BY DEF Inv, TypeOK, fill_late
<1>1. UNCHANGED <<resp, prompt, result>> /\ timeout' = 0 /\ Finish(-1)
  BY DEF fill_late, peer
<1>2. PICK n \in Extra \cup {0} : RestInv(n)
  BY DEF Inv
<1>3. n \in Nat /\ need \in Nat
  BY <1>0, HttpClientAssumption DEF Place
<1>4. PICK t \in Delays : recv(need, t)
  BY DEF fill_late
<1>5. t \in Nat
  BY DelaysAreTimes
<1>6. header' \in Seq(Token) /\ wire' \in Seq(Token) /\ spent' = spent + t /\ RestInv(n)'
  BY <1>0, <1>1, <1>2, <1>3, <1>4, Received
<1>7. TypeOK'
  <2>1. spent' \in Nat
    BY <1>0, <1>5, <1>6 DEF TypeOK
  <2> QED BY <1>0, <1>1, <1>6, <2>1 DEF TypeOK, Finish
<1>8. Place'
  BY <1>1, Failed
<1> QED BY <1>2, <1>6, <1>7, <1>8 DEF Inv

LEMMA FillRecvInv ==
  ASSUME Inv, fill_recv
  PROVE  Inv'
<1>0. TypeOK /\ Place /\ pc = "fill" /\ resp \in Responses
  BY DEF Inv, TypeOK, fill_recv
<1>1. UNCHANGED <<resp, prompt, hlen, pos, start>>
  BY DEF fill_recv, peer
<1>2. PICK n \in Extra \cup {0} : RestInv(n)
  BY DEF Inv
<1>3. /\ n \in Nat /\ need \in Nat /\ hlen = HeadLen /\ hlen <= Len(header)
      /\ InLength \/ (resp.kind = "chunked" /\ \E k \in 0..(Count - 1) : InChunk(k))
  BY <1>0, HttpClientAssumption DEF Place, Count
<1>4. PICK t \in Delays : recv(need, t) /\ Spend(t)
  BY DEF fill_recv, FillLimit
<1>5. t \in Nat
  BY DelaysAreTimes
<1>6. /\ header' \in Seq(Token) /\ wire' \in Seq(Token) /\ spent' = spent + t
      /\ RestInv(n)' /\ Len(header') \in Nat
      /\ Len(header) <= Len(header') /\ Len(header') <= Len(header) + need
      /\ \A i \in 1..Len(header') : header'[i] = Stream(n)[i]
  BY <1>0, <1>1, <1>2, <1>3, <1>4, Received
<1>7. need' = need - (Len(header') - Len(header))
  BY DEF fill_recv
<1>8. Len(header) \in Nat /\ HeadLen \in Nat /\ HeadLen' = HeadLen /\ Count' = Count /\ Body(resp)' = Body(resp)
  BY <1>0, <1>1, <1>3, Numbers, StreamParts, RespKept
<1>9. hlen' = HeadLen' /\ hlen' <= Len(header') /\ need' \in Nat
  BY <1>1, <1>3, <1>6, <1>7, <1>8
<1>10. \/ Stay /\ UNCHANGED result
       \/ /\ need' = 0
          /\ IF TransferEncodingChunked \in Framing
             THEN TakeChunk(header', start, pos - 2 - start)
             ELSE TakeAll(header')
  <2>1. need' <= 0 => need' = 0
    BY <1>9
  <2> QED BY <2>1 DEF fill_recv
<1>11. TransferEncodingChunked \in Framing <=> resp.kind = "chunked"
  BY <1>0, <1>2, <1>3, FramingMeans
<1>12. pc' \in {"size", "fill", "done"} /\ result' \in Seq(Data) /\ Place'
  <2>1. CASE InLength
    <3>1. resp.kind = "length" /\ need = hlen + Len(Body(resp)) - Len(header) /\ Len(Body(resp)) \in Nat
      BY <1>0, <2>1, BodyPieces DEF InLength
    <3>2. need' = hlen + Len(Body(resp)) - Len(header')
      BY <1>3, <1>6, <1>7, <1>8, <3>1
    <3>3. CASE Stay /\ UNCHANGED result
      <4>1. InLength'
        BY <1>1, <1>8, <3>1, <3>2 DEF InLength
      <4>2. pc' = "fill" /\ result' \in Seq(Data)
        BY <1>0, <3>3 DEF Stay, TypeOK
      <4> QED BY <1>9, <4>1, <4>2, PlaceFill
    <3>4. CASE need' = 0 /\ TakeAll(header')
      <4>1. SubSeq(header', hlen + 1, Len(header')) = Body(resp)
        <5>1. Len(header') = hlen + Len(Body(resp))
          BY <1>3, <1>6, <1>8, <3>1, <3>2, <3>4
        <5> DEFINE h == header'
        <5>2. /\ h \in Seq(Token) /\ Len(h) = hlen + Len(Body(resp))
              /\ \A i \in 1..Len(h) : h[i] = Stream(n)[i]
          BY <1>6, <5>1
        <5> HIDE DEF h
        <5>3. SubSeq(h, hlen + 1, Len(h)) = Body(resp)
          BY <1>0, <1>3, <3>1, <5>2, BodyTaken
        <5> QED BY <5>3 DEF h
      <4>2. pc' = "done" /\ result' = Body(resp)'
        BY <1>8, <3>4, <4>1 DEF TakeAll, Finish
      <4>3. Place'
        BY <4>2 DEF Place
      <4>4. Body(resp) \in Seq(Data)
        BY <1>0, BodyPieces
      <4> QED BY <1>8, <4>2, <4>3, <4>4
    <3> QED BY <1>10, <1>11, <3>1, <3>3, <3>4
  <2>2. ASSUME resp.kind = "chunked", NEW k \in 0..(Count - 1), InChunk(k)
        PROVE  pc' \in {"size", "fill", "done"} /\ result' \in Seq(Data) /\ Place'
    <3> DEFINE d == Len(resp.chunks[k + 1])
    <3>1. /\ start = EndOf(k) + 2 /\ pos = EndOf(k + 1) + 1
          /\ need = EndOf(k + 1) - Len(header) /\ result = BodyOf(k)
      BY <2>2 DEF InChunk
    <3>2. EndOf(k) \in Nat /\ d \in Nat /\ EndOf(k + 1) = EndOf(k) + d + 3
      <4>1. k + 1 \in 1..Count
        BY <1>0, ChunksType
      <4> QED BY <1>0, <1>3, <2>2, <4>1, ChunkPlace, ChunksType
    <3>3. EndOf(k)' = EndOf(k) /\ EndOf(k + 1)' = EndOf(k + 1) /\ BodyOf(k)' = BodyOf(k)
      BY <1>1, RespKept
    <3> HIDE DEF d
    <3>4. EndOf(k + 1) \in Nat /\ need' = EndOf(k + 1) - Len(header') /\ pos - 2 - start = d
      <4>1. Len(header) \in Nat /\ Len(header') \in Nat
        BY <1>6, <1>8
      <4>2. EndOf(k + 1) \in Nat
        BY <3>2
      <4>3. need' = EndOf(k + 1) - Len(header')
        BY <1>7, <3>1, <4>1, <4>2
      <4>4. pos - 2 - start = d
        <5>1. pos = EndOf(k) + d + 4 /\ start = EndOf(k) + 2
          BY <3>1, <3>2
        <5> DEFINE e == EndOf(k)
        <5>2. e \in Nat /\ d \in Nat /\ pos = e + d + 4 /\ start = e + 2
          BY <3>2, <5>1
        <5> HIDE DEF e
        <5> QED BY <5>2
      <4> QED BY <4>2, <4>3, <4>4
    <3>5. CASE Stay /\ UNCHANGED result
      <4>1. InChunk(k)'
        <5>1. /\ start' = EndOf(k)' + 2 /\ pos' = EndOf(k + 1)' + 1 /\ result' = BodyOf(k)'
              /\ need' = EndOf(k + 1)' - Len(header')
          BY <1>1, <3>1, <3>3, <3>4, <3>5
        <5> QED BY <5>1 DEF InChunk
      <4>2. pc' = "fill" /\ result' \in Seq(Data)
        BY <1>0, <3>5 DEF Stay, TypeOK
      <4>3. resp'.kind = "chunked" /\ k \in 0..(Count' - 1)
        BY <1>1, <1>8, <2>2
      <4>4. Place'
        BY <1>9, <4>1, <4>2, <4>3, PlaceFill
      <4> QED BY <4>2, <4>4
    <3>6. CASE need' = 0 /\ TakeChunk(header', start, pos - 2 - start)
      <4>1. /\ pc' = "size"
            /\ result' = BodyOf(k) \o SubSeq(header', EndOf(k) + 2 + 1, EndOf(k) + 2 + Len(resp.chunks[k + 1]))
        BY <3>1, <3>4, <3>6 DEF TakeChunk, d
      <4>2. EndOf(k + 1) <= Len(header')
        BY <1>6, <3>4, <3>6
      <4>3. hlen' = HeadLen /\ hlen' <= Len(header') /\ pos' = EndOf(k + 1) + 1 /\ UNCHANGED resp
        BY <1>1, <1>8, <1>9, <3>1
      <4>4. Place' /\ result' \in Seq(Data)
        BY <1>0, <1>3, <1>6, <2>2, <4>1, <4>2, <4>3, ChunkDone
      <4> QED BY <4>1, <4>4
    <3> QED BY <1>10, <1>11, <2>2, <3>5, <3>6
  <2> QED BY <1>3, <2>1, <2>2
<1>13. TypeOK'
  <2>1. timeout' \in Int /\ spent' \in Nat
    BY <1>0, <1>4, <1>5, <1>6 DEF TypeOK, Spend
  <2> QED BY <1>0, <1>1, <1>6, <1>12, <2>1 DEF TypeOK
<1> QED BY <1>2, <1>6, <1>12, <1>13 DEF Inv

LEMMA StutterInv ==
  ASSUME Inv, UNCHANGED vars
  PROVE  Inv'
<1>1. /\ UNCHANGED <<resp, prompt, wire, header, timeout, spent>>
      /\ UNCHANGED <<pc, hlen, pos, start, need, result, ret>>
  BY DEF vars, peer
<1>2. PICK n \in Extra \cup {0} : RestInv(n)
  BY DEF Inv
<1>3. TypeOK' /\ RestInv(n)'
  BY <1>1, <1>2, RestKept DEF Inv, TypeOK
<1>4. Place'
  <2>1. /\ HeadLen' = HeadLen /\ Body(resp)' = Body(resp) /\ InLength' = InLength
        /\ \A k : AtSize(k)' = AtSize(k) /\ InChunk(k)' = InChunk(k)
    BY <1>1 DEF HeadLen, AtSize, InChunk, InLength, EndOf, BodyOf
  <2> QED BY <1>1, <2>1 DEF Inv, Place
<1> QED BY <1>2, <1>3, <1>4 DEF Inv

LEMMA NextInv ==
  ASSUME Inv, [Next]_vars
  PROVE  Inv'
<1>1. CASE head_recv
  BY <1>1, HeadRecvInv
<1>2. CASE frame_chunked
  BY <1>2, FrameChunkedInv
<1>3. CASE frame_length
  BY <1>3, FrameLengthInv
<1>4. CASE frame_neither \/ recv_fails
  BY <1>4, FailedInv
<1>5. CASE size_recv
  BY <1>5, SizeRecvInv
<1>6. CASE chunk_start
  BY <1>6, ChunkStartInv
<1>7. CASE chunk_last
  BY <1>7, ChunkLastInv
<1>8. CASE last_found
  BY <1>8, LastFoundInv
<1>9. CASE last_recv
  BY <1>9, LastRecvInv
<1>10. CASE fill_late
  BY <1>10, FillLateInv
<1>11. CASE fill_recv
  BY <1>11, FillRecvInv
<1>12. CASE UNCHANGED vars
  BY <1>12, StutterInv
<1> QED BY <1>1, <1>2, <1>3, <1>4, <1>5, <1>6, <1>7, <1>8, <1>9, <1>10, <1>11, <1>12
    DEF Next, Step, Terminated

-----------------------------------------------------------------------------

\* What was received is the beginning of what the peer sent, and the offsets
\* that readHttpResponse keeps (header_length, pos_num, pos_chunk_start,
\* remain) are where the header and the chunks really end (http.cpp:113-264,
\* 358-428).
THEOREM OffsetsKnown == Spec => []Inv
<1>1. Init => Inv
  BY InitInv
<1>2. Inv /\ [Next]_vars => Inv'
  BY NextInv
<1> QED BY <1>1, <1>2, PTL DEF Spec

\* A response that readHttpResponse reports as complete is the one that was
\* sent: for every size of the chunks and of the buffer, every split of the
\* stream into recvs, every time they take, and any stray bytes after it
\* (http.cpp:113-264, 358-428).
THEOREM SuccessExact == Spec => []SuccessIsExact
<1>1. Inv => SuccessIsExact
  BY DEF Inv, Place, SuccessIsExact
<1> QED BY <1>1, OffsetsKnown, PTL

-----------------------------------------------------------------------------
(* Parts of the stream. *)

LEMMA EncodeLength ==
  ASSUME resp \in Responses, NEW n \in Nat
  PROVE  /\ Len(Encode(resp)) \in Nat
         /\ Len(Encode(resp)) = HeadLen + Len(EncodeBody(resp))
         /\ Len(Stream(n)) = Len(Encode(resp)) + n
<1> DEFINE h == HeaderOf(resp)
           l == <<CRLF, CRLF>>
           e == EncodeBody(resp)
           z == [i \in 1..n |-> Byte]
           a == Cat(h, l)
           b == Cat(a, e)
<1>1. h \in Seq(Token) /\ e \in Seq(Token)
  BY HeaderParts, EncodeBodyType
<1>2. l \in Seq(Token)
  <2>1. CRLF \in Token
    BY DEF Token, Data
  <2> QED BY <2>1
<1>3. z \in Seq(Token) /\ Len(z) = n
  <2>1. Byte \in Token
    BY DEF Token, Data
  <2>2. z \in [1..n -> Token]
    BY <2>1
  <2> HIDE DEF z
  <2>3. z \in Seq(Token)
    BY <2>2, SeqDef
  <2> QED BY <2>2, <2>3, LenProperties
<1>4. Encode(resp) = b /\ Stream(n) = Cat(b, z)
  BY DEF Stream, Encode, Cat
<1> HIDE DEF h, l, e, z
<1>5. a \in Seq(Token)
  BY <1>1, <1>2, CatAt DEF IsCat
<1> HIDE DEF a
<1>6. b \in Seq(Token)
  BY <1>1, <1>5, CatAt DEF IsCat
<1> HIDE DEF b
<1>7. Len(b) \in Nat /\ Len(Cat(b, z)) = Len(b) + Len(z)
  BY <1>3, <1>6, CatAt DEF IsCat
<1>8. HeadLen \in Nat /\ Len(e) \in Nat /\ Len(Stream(n)) = HeadLen + Len(e) + n
  BY StreamParts DEF e
<1> DEFINE B == Len(b)
           C == Len(e)
           W == Len(Stream(n))
<1>9. B \in Nat /\ C \in Nat /\ HeadLen \in Nat /\ W = B + n /\ W = HeadLen + C + n
  BY <1>3, <1>4, <1>7, <1>8
<1> HIDE DEF B, C, W
<1>10. B = HeadLen + C
  BY <1>9
<1> QED BY <1>4, <1>9, <1>10 DEF B, C, W, e

LEMMA PartOfStream ==
  ASSUME resp \in Responses, NEW n \in Nat, NEW a \in Nat, NEW b \in Nat, a <= b, b <= Len(Stream(n))
  PROVE  IsPart(Token, Stream(n), Part(n, a, b), a, b)
<1>1. Stream(n) \in Seq(Token)
  BY StreamParts
<1> QED BY <1>1, PartIs DEF Part

LEMMA IsPartOfStream ==
  ASSUME resp \in Responses, NEW n \in Nat, NEW u, NEW a, NEW b, IsPart(Token, Stream(n), u, a, b)
  PROVE  u = Part(n, a, b)
<1>1. a \in Nat /\ b \in Nat /\ a <= b /\ b <= Len(Stream(n))
  BY DEF IsPart
<1>2. IsPart(Token, Stream(n), Part(n, a, b), a, b)
  BY <1>1, PartOfStream
<1> QED BY <1>2, PartUnique

-----------------------------------------------------------------------------
(* The loop of ParseHttpContentChunk. *)

\* The size line at the beginning of a part that starts at a chunk.
LEMMA SizeInPart ==
  ASSUME resp \in Responses, resp.kind = "chunked", NEW n \in Nat, NEW k \in 0..Count,
         NEW u, NEW b, IsPart(Token, Stream(n), u, EndOf(k), b)
  PROVE  /\ SizeEnd(u) # 0 <=> EndOf(k) + 2 <= b
         /\ SizeEnd(u) # 0 => SizeEnd(u) = 2 /\ SizeSaid(u) = SizeAt(k)
<1> DEFINE a == EndOf(k)
           m == b - a
           P == {i \in 1..Len(u) : u[i] = CRLF}
<1>1. /\ a \in Nat /\ SizeAt(k) \in Nat
      /\ Stream(n)[a + 1] = Size(SizeAt(k)) /\ Stream(n)[a + 2] = CRLF
  BY SizeLine
<1>2. /\ u \in Seq(Token) /\ b \in Nat /\ a <= b /\ Len(u) = m
      /\ \A i \in 1..m : u[i] = Stream(n)[a + i]
  BY DEF IsPart
<1>3. m \in Nat /\ (a + 2 <= b <=> m >= 2)
  <2> HIDE DEF a
  <2> QED BY <1>1, <1>2
<1> HIDE DEF m
<1>4. m >= 1 => u[1] = Size(SizeAt(k)) /\ u[1] # CRLF
  <2>1. m >= 1 => 1 \in 1..m
    BY <1>3
  <2> QED BY <1>1, <1>2, <2>1, Tokens
<1>5. m >= 2 => u[2] = CRLF
  <2>1. m >= 2 => 2 \in 1..m
    BY <1>3
  <2> QED BY <1>1, <1>2, <2>1
<1>6. /\ SizeEnd(u) = 0 <=> P = {}
      /\ SizeEnd(u) # 0 => SizeEnd(u) \in P /\ \A j \in P : SizeEnd(u) <= j
  <2>1. P \subseteq Nat \ {0} /\ SizeEnd(u) = First(P)
    BY DEF SizeEnd, FindCRLF
  <2> HIDE DEF P
  <2>2. /\ First(P) = 0 <=> P = {}
        /\ First(P) # 0 => First(P) \in P /\ \A j \in P : First(P) <= j
    BY <2>1, FirstIsLeast
  <2> QED BY <2>1, <2>2
<1>7. m >= 2 => 2 \in P
  BY <1>2, <1>3, <1>5
<1>8. \A i \in P : i \in 1..m /\ i # 1
  BY <1>2, <1>3, <1>4
<1> HIDE DEF P
<1>9. SizeEnd(u) # 0 <=> m >= 2
  <2>1. \A i \in P : m >= 2
    BY <1>3, <1>8
  <2> QED BY <1>6, <1>7, <2>1
<1>10. SizeEnd(u) # 0 => SizeEnd(u) = 2
  <2>1. \A i \in P : i >= 2
    BY <1>3, <1>8
  <2>2. \A i \in P : i \in Int
    BY <1>8
  <2> QED BY <1>6, <1>7, <1>9, <2>1, <2>2
<1>11. ASSUME SizeEnd(u) # 0 PROVE SizeSaid(u) = SizeAt(k)
  <2> DEFINE l == SubSeq(u, 1, 1)
  <2>1. m >= 2 /\ SizeEnd(u) - 1 = 1
    BY <1>9, <1>10, <1>11
  <2>2. IsSubSeq(Token, u, 1, 1)
    <3>1. 1 \in Nat \ {0} /\ 1 \in Nat /\ 1 <= 1 + 1 /\ 1 <= Len(u)
      BY <1>2, <1>3, <2>1
    <3> QED BY <1>2, <3>1, SubSeqAt
  <2>3. Len(l) = 1 /\ l[1] = u[1]
    <3>1. 1 - 1 + 1 = 1 /\ 1 + 1 - 1 = 1 /\ 1 \in 1..1
      OBVIOUS
    <3> QED BY <2>2, <3>1 DEF IsSubSeq
  <2>4. SizeSaid(u) = ChunkSize(l)
    BY <2>1 DEF SizeSaid
  <2> HIDE DEF l
  <2>5. Len(l) > 0 /\ l[1][1] = "hex" /\ l[1][2] = SizeAt(k)
    BY <1>1, <1>3, <1>4, <2>1, <2>3, Tokens
  <2> QED BY <2>4, <2>5 DEF ChunkSize
<1> QED BY <1>3, <1>9, <1>10, <1>11

\* A whole chunk is found if it is there.
LEMMA HasChunkMeans ==
  ASSUME resp \in Responses, resp.kind = "chunked", NEW n \in Nat, NEW k \in 0..Count,
         NEW u, NEW b, IsPart(Token, Stream(n), u, EndOf(k), b)
  PROVE  HasChunk(u) <=> k < Count /\ EndOf(k + 1) <= b
<1> DEFINE a == EndOf(k)
           d == Len(resp.chunks[k + 1])
<1>1. /\ k \in Nat /\ Count \in Nat /\ SizeAt(k) \in Nat
      /\ SizeAt(k) = 0 <=> k = Count
  BY SizeLine
<1>2. /\ SizeEnd(u) # 0 <=> a + 2 <= b
      /\ SizeEnd(u) # 0 => SizeEnd(u) = 2 /\ SizeSaid(u) = SizeAt(k)
  BY SizeInPart
<1>3. Len(u) = b - a /\ a \in Nat /\ b \in Nat /\ a <= b
  BY DEF IsPart
<1>4. CASE k = Count
  <2>1. ~HasChunk(u)
    BY <1>1, <1>2, <1>4 DEF HasChunk
  <2> QED BY <1>1, <1>4, <2>1
<1>5. CASE k < Count
  <2>1. k \in 0..(Count - 1) /\ k + 1 \in 1..Count
    BY <1>1, <1>5
  <2>2. EndOf(k + 1) = a + d + 3 /\ d \in Nat /\ SizeAt(k) = d /\ d # 0
    BY <1>1, <1>5, <2>1, ChunkPlace, ChunksType DEF SizeAt
  <2> HIDE DEF a, d
  <2>3. HasChunk(u) <=> SizeEnd(u) # 0 /\ 2 + d + 1 <= b - a
    BY <1>2, <1>3, <2>2 DEF HasChunk, ChunkIsWhole
  <2>4. a + d + 3 <= b <=> a + 2 <= b /\ 2 + d + 1 <= b - a
    BY <1>3, <2>2
  <2> QED BY <1>2, <1>5, <2>2, <2>3, <2>4
<1>6. k < Count \/ k = Count
  BY <1>1
<1> QED BY <1>4, <1>5, <1>6

\* The parser has k chunks, and the input begins with the next one.
AtChunk(q, n, k, fed) ==
    /\ k \in 0..Count
    /\ EndOf(k) <= fed
    /\ q = [input |-> Part(n, EndOf(k), fed), result |-> BodyOf(k)]

LEMMA AtChunkPart ==
  ASSUME resp \in Responses, resp.kind = "chunked", NEW n \in Nat, NEW fed \in Nat,
         fed <= Len(Stream(n)), NEW q, NEW k, AtChunk(q, n, k, fed)
  PROVE  IsPart(Token, Stream(n), q.input, EndOf(k), fed)
<1>1. EndOf(k) \in Nat
  BY SizeLine DEF AtChunk
<1>2. q.input = Part(n, EndOf(k), fed) /\ EndOf(k) <= fed
  BY DEF AtChunk
<1> QED BY <1>1, <1>2, PartOfStream

LEMMA TurnMoves ==
  ASSUME resp \in Responses, resp.kind = "chunked", NEW n \in Nat, NEW fed \in Nat,
         fed <= Len(Stream(n)), NEW q, NEW k, AtChunk(q, n, k, fed), HasChunk(q.input)
  PROVE  AtChunk(Turn(q), n, k + 1, fed) /\ EndOf(k + 1) > EndOf(k)
<1> DEFINE u == q.input
           a == EndOf(k)
           c == resp.chunks[k + 1]
           d == Len(c)
           s == SubSeq(u, 3, 2 + d)
           r == SubSeq(u, 2 + d + 2, Len(u))
<1>1. IsPart(Token, Stream(n), u, a, fed) /\ k \in 0..Count
  BY AtChunkPart DEF AtChunk
<1>2. k < Count /\ EndOf(k + 1) <= fed
  BY <1>1, HasChunkMeans
<1>3. k \in 0..(Count - 1) /\ k + 1 \in 1..Count /\ k + 1 \in 0..Count
  BY <1>1, <1>2, ChunksType
<1>4. /\ a \in Nat /\ EndOf(k + 1) = a + d + 3 /\ d \in Nat /\ c \in Seq(Data)
      /\ \A j \in 1..d : Stream(n)[a + 2 + j] = c[j]
  BY <1>3, ChunkPlace, ChunksType
<1>5. SizeEnd(u) = 2 /\ SizeSaid(u) = d
  <2>1. SizeEnd(u) # 0
    BY DEF HasChunk
  <2>2. SizeAt(k) = d
    BY <1>2 DEF SizeAt
  <2> QED BY <1>1, <2>1, <2>2, SizeInPart
<1>6. Turn(q) = [input |-> r, result |-> q.result \o s]
  <2>1. 2 + 1 = 3
    OBVIOUS
  <2> QED BY <1>5, <2>1 DEF Turn
<1>7. Len(u) = fed - a /\ a <= fed
  BY <1>1 DEF IsPart
<1> HIDE DEF u, a, d, s, r, c
<1>8. /\ d + 3 \in Nat /\ fed - a \in Nat /\ d + 3 <= fed - a /\ 2 + d + 2 = (d + 3) + 1
      /\ a + (d + 3) = EndOf(k + 1) /\ a + (fed - a) = fed
      /\ 2 + d \in Nat /\ 2 <= 2 + d /\ 2 + d <= fed - a
  BY <1>2, <1>4, <1>7
<1>9. r = Part(n, EndOf(k + 1), fed)
  <2>1. IsPart(Token, Stream(n), SubSeq(u, (d + 3) + 1, fed - a), a + (d + 3), a + (fed - a))
    <3>1. fed - a <= fed - a
      BY <1>8
    <3> QED BY <1>1, <1>8, <3>1, PartOfPart
  <2>2. IsPart(Token, Stream(n), r, EndOf(k + 1), fed)
    BY <1>7, <1>8, <2>1 DEF r
  <2> QED BY <2>2, IsPartOfStream
<1>10. s = c
  <2>1. IsPart(Token, Stream(n), SubSeq(u, 2 + 1, 2 + d), a + 2, a + (2 + d))
    BY <1>1, <1>8, PartOfPart
  <2>2. SubSeq(u, 2 + 1, 2 + d) = s /\ (a + (2 + d)) - (a + 2) = d
    BY <1>4 DEF s
  <2>3. s \in Seq(Token) /\ Len(s) = d /\ \A i \in 1..d : s[i] = Stream(n)[(a + 2) + i]
    BY <2>1, <2>2 DEF IsPart
  <2>4. \A i \in 1..Len(s) : s[i] = c[i]
    BY <1>4, <2>3
  <2> QED BY <1>4, <2>3, <2>4, SameElements DEF d
<1>11. q.result \o s = BodyOf(k + 1)
  BY <1>3, <1>10, BodyPieces DEF AtChunk, Cat, c
<1>12. EndOf(k + 1) > a
  BY <1>4
<1> QED BY <1>2, <1>3, <1>6, <1>9, <1>11, <1>12 DEF AtChunk, a

\* The turns of the loop, as a function.
Turns(f, m, q) == f = [k \in 0..m |-> IF k = 0 THEN q ELSE Turn(f[k - 1])]

LEMMA TurnsAt ==
  ASSUME NEW f, NEW m \in Nat, NEW q, Turns(f, m, q), NEW k \in 0..m
  PROVE  f[k] = IF k = 0 THEN q ELSE Turn(f[k - 1])
<1> DEFINE e(j) == IF j = 0 THEN q ELSE Turn(f[j - 1])
           g == [j \in 0..m |-> e(j)]
<1>1. f = g
  BY DEF Turns
<1>2. g[k] = e(k)
  OBVIOUS
<1>3. f[k] = e(k)
  <2> HIDE DEF g, e
  <2> QED BY <1>1, <1>2
<1> QED BY <1>3

LEMMA TurnsExist ==
  ASSUME NEW q
  PROVE  \A m \in Nat : \E f : Turns(f, m, q)
<1> DEFINE T == {m \in Nat : \E f : Turns(f, m, q)}
<1>1. 0 \in T
  <2> DEFINE e == [k \in 0..0 |-> q]
  <2>1. Turns(e, 0, q)
    BY DEF Turns
  <2> QED BY <2>1
<1>2. ASSUME NEW m \in Nat, m \in T PROVE m + 1 \in T
  <2>1. PICK f : Turns(f, m, q)
    BY <1>2
  <2> DEFINE last == Turn(f[m])
             g == [k \in 0..(m + 1) |-> IF k = m + 1 THEN last ELSE f[k]]
  <2>2. ASSUME NEW k \in 0..(m + 1)
        PROVE  g[k] = IF k = 0 THEN q ELSE Turn(g[k - 1])
    <3>1. CASE k = m + 1
      <4>1. k # 0 /\ k - 1 = m /\ m \in 0..(m + 1) /\ m # m + 1
        BY <3>1
      <4>2. g[m] = f[m] /\ g[k] = last
        BY <3>1, <4>1
      <4> HIDE DEF g
      <4> QED BY <4>1, <4>2
    <3>2. CASE k # m + 1
      <4>1. k \in 0..m /\ g[k] = f[k] /\ (k # 0 => g[k - 1] = f[k - 1])
        BY <3>2
      <4> HIDE DEF g, last
      <4> QED BY <2>1, <4>1, TurnsAt
    <3> QED BY <3>1, <3>2
  <2>3. g = [k \in 0..(m + 1) |-> g[k]]
    OBVIOUS
  <2>4. Turns(g, m + 1, q)
    <3> HIDE DEF g, last
    <3> QED BY <2>2, <2>3 DEF Turns
  <2> HIDE DEF g
  <2> QED BY <2>4
<1> HIDE DEF T
<1>3. Nat \subseteq T
  BY <1>1, <1>2, NatSetInduction
<1> QED BY <1>3 DEF T

LEMMA ParseIsTurns ==
  ASSUME NEW in, NEW res, Len(in) \in Nat
  PROVE  \E f : LET q == f[Len(in)]
                    ended == SizeEnd(q.input) # 0 /\ SizeSaid(q.input) = 0 /\ LastChunkEnds(q.input)
                IN  /\ Turns(f, Len(in), [input |-> in, result |-> res])
                    /\ ParseHttpContentChunk(in, res) =
                          [ret |-> IF ended THEN 0 ELSE 1, input |-> q.input, result |-> q.result]
<1> DEFINE b == [input |-> in, result |-> res]
           f == CHOOSE h : h = [k \in 0..Len(in) |-> IF k = 0 THEN b ELSE Turn(h[k - 1])]
<1>1. \E h : h = [k \in 0..Len(in) |-> IF k = 0 THEN b ELSE Turn(h[k - 1])]
  <2> HIDE DEF b
  <2>1. \E h : Turns(h, Len(in), b)
    BY TurnsExist
  <2> QED BY <2>1, Zenon DEF Turns
<1>2. f = [k \in 0..Len(in) |-> IF k = 0 THEN b ELSE Turn(f[k - 1])]
  <2> HIDE DEF b
  <2> QED BY <1>1, Zenon
<1>3. Turns(f, Len(in), b)
  <2> HIDE DEF b
  <2> QED BY <1>2, Zenon DEF Turns
<1> DEFINE q == f[Len(in)]
           ended == SizeEnd(q.input) # 0 /\ SizeSaid(q.input) = 0 /\ LastChunkEnds(q.input)
<1>4. ParseHttpContentChunk(in, res) =
         [ret |-> IF ended THEN 0 ELSE 1, input |-> q.input, result |-> q.result]
  BY Zenon DEF ParseHttpContentChunk
<1> HIDE DEF f
<1> QED BY <1>3, <1>4, Zenon

\* The loop stops at the first chunk that is not whole.
LEMMA LoopEnds ==
  ASSUME resp \in Responses, resp.kind = "chunked", NEW n \in Nat, NEW fed \in Nat,
         fed <= Len(Stream(n)), NEW b, NEW k0, AtChunk(b, n, k0, fed),
         NEW m \in Nat, m = fed - EndOf(k0), NEW f, Turns(f, m, b)
  PROVE  \E k : AtChunk(f[m], n, k, fed) /\ ~HasChunk(f[m].input)
<1> DEFINE Good(j, k) == /\ AtChunk(f[j], n, k, fed)
                         /\ HasChunk(f[j].input) => EndOf(k) >= EndOf(k0) + j
           T == {j \in Nat : j <= m => \E k : Good(j, k)}
<1>0. EndOf(k0) \in Nat /\ fed = EndOf(k0) + m
  <2>1. EndOf(k0) \in Nat
    BY SizeLine DEF AtChunk
  <2> QED BY <2>1
<1>1. 0 \in T
  <2>1. 0 \in 0..m /\ EndOf(k0) >= EndOf(k0) + 0
    BY <1>0
  <2>2. f[0] = b
    BY <2>1, TurnsAt
  <2>3. Good(0, k0)
    BY <2>1, <2>2
  <2> QED BY <2>3
<1>2. ASSUME NEW j \in Nat, j \in T PROVE j + 1 \in T
  <2> SUFFICES ASSUME j + 1 <= m PROVE \E k : Good(j + 1, k)
    OBVIOUS
  <2>1. j <= m /\ j + 1 \in 0..m /\ j + 1 # 0 /\ (j + 1) - 1 = j
    OBVIOUS
  <2>2. PICK k : Good(j, k)
    BY <1>2, <2>1
  <2>3. f[j + 1] = Turn(f[j])
    BY <2>1, TurnsAt
  <2>4. CASE HasChunk(f[j].input)
    <3>1. AtChunk(Turn(f[j]), n, k + 1, fed) /\ EndOf(k + 1) > EndOf(k)
      BY <2>2, <2>4, TurnMoves
    <3>2. EndOf(k) \in Nat /\ EndOf(k + 1) \in Nat /\ EndOf(k) >= EndOf(k0) + j
      BY <2>2, <2>4, <3>1, SizeLine DEF AtChunk
    <3>3. EndOf(k + 1) >= EndOf(k0) + (j + 1)
      BY <1>0, <3>1, <3>2
    <3>4. Good(j + 1, k + 1)
      BY <2>3, <3>1, <3>3
    <3> QED BY <3>4
  <2>5. CASE ~HasChunk(f[j].input)
    <3>1. Turn(f[j]) = f[j]
      BY <2>5 DEF Turn
    <3>2. Good(j + 1, k)
      BY <2>2, <2>3, <2>5, <3>1
    <3> QED BY <3>2
  <2> QED BY <2>4, <2>5
<1>3. m \in T
  <2> HIDE DEF T
  <2> QED BY <1>1, <1>2, NatSetInduction
<1>4. PICK k : Good(m, k)
  BY <1>3
<1>5. ~HasChunk(f[m].input)
  <2> SUFFICES ASSUME HasChunk(f[m].input) PROVE FALSE
    OBVIOUS
  <2>1. AtChunk(Turn(f[m]), n, k + 1, fed) /\ EndOf(k + 1) > EndOf(k)
    BY <1>4, TurnMoves
  <2>2. /\ EndOf(k) \in Nat /\ EndOf(k + 1) \in Nat /\ EndOf(k) >= EndOf(k0) + m
        /\ EndOf(k + 1) <= fed
    BY <1>4, <2>1, SizeLine DEF AtChunk
  <2> QED BY <1>0, <2>1, <2>2
<1> QED BY <1>4, <1>5

\* The empty line after the last chunk.
LEMMA LastInPart ==
  ASSUME resp \in Responses, resp.kind = "chunked", NEW n \in Nat,
         NEW u, NEW b, IsPart(Token, Stream(n), u, EndOf(Count), b)
  PROVE  LastChunkEnds(u) <=> EndOf(Count) + 3 <= b
<1> DEFINE a == EndOf(Count)
           m == b - a
           P == {i \in 1..(Len(u) - 1) : u[i] = CRLF /\ u[i + 1] = CRLF}
<1>1. /\ a \in Nat /\ Stream(n)[a + 1] = Size(0)
      /\ Stream(n)[a + 2] = CRLF /\ Stream(n)[a + 3] = CRLF
  BY LastPlace
<1>2. /\ b \in Nat /\ a <= b /\ Len(u) = m
      /\ \A i \in 1..m : u[i] = Stream(n)[a + i]
  BY DEF IsPart
<1>3. m \in Nat /\ (a + 3 <= b <=> m >= 3)
  <2> HIDE DEF a
  <2> QED BY <1>1, <1>2
<1> HIDE DEF m
<1>4. m >= 1 => u[1] # CRLF
  <2>1. m >= 1 => 1 \in 1..m
    BY <1>3
  <2> QED BY <1>1, <1>2, <2>1, Tokens
<1>5. m >= 3 => u[2] = CRLF /\ u[3] = CRLF
  <2>1. m >= 3 => 2 \in 1..m /\ 3 \in 1..m
    BY <1>3
  <2> QED BY <1>1, <1>2, <2>1
<1>6. LastChunkEnds(u) <=> P # {}
  <2>1. P \subseteq Nat \ {0} /\ FindEnd(u, 1) = First(P)
    BY DEF FindEnd
  <2> HIDE DEF P
  <2>2. First(P) = 0 <=> P = {}
    BY <2>1, FirstIsLeast
  <2> QED BY <2>1, <2>2 DEF LastChunkEnds
<1>7. m >= 3 => 2 \in P
  <2>1. 2 + 1 = 3 /\ (m >= 3 => 2 \in 1..(m - 1))
    BY <1>3
  <2> QED BY <1>2, <1>5, <2>1
<1>8. ASSUME NEW i \in P PROVE m >= 3
  <2>1. i \in 1..(m - 1) /\ u[i] = CRLF
    BY <1>2
  <2>2. i # 1
    BY <1>3, <1>4, <2>1
  <2> QED BY <1>3, <2>1, <2>2
<1> HIDE DEF P
<1> QED BY <1>3, <1>6, <1>7, <1>8

\* What ParseHttpContentChunk does with what it is given.
LEMMA ChunkParsed ==
  ASSUME resp \in Responses, resp.kind = "chunked", NEW n \in Nat, NEW fed \in Nat,
         fed <= Len(Stream(n)), NEW k0 \in 0..Count, EndOf(k0) <= fed
  PROVE  LET q == ParseHttpContentChunk(Part(n, EndOf(k0), fed), BodyOf(k0)) IN
         /\ q.ret = IF fed < Len(Encode(resp)) THEN 1 ELSE 0
         /\ \E k \in 0..Count :
               /\ EndOf(k) <= fed
               /\ q.input = Part(n, EndOf(k), fed)
               /\ q.result = BodyOf(k)
               /\ q.ret = 0 => k = Count
<1> DEFINE in == Part(n, EndOf(k0), fed)
           b == [input |-> in, result |-> BodyOf(k0)]
           q == ParseHttpContentChunk(in, BodyOf(k0))
           Ends(u) == SizeEnd(u) # 0 /\ SizeSaid(u) = 0 /\ LastChunkEnds(u)
<1>1. AtChunk(b, n, k0, fed)
  BY DEF AtChunk
<1>2. EndOf(k0) \in Nat
  BY SizeLine
<1>3. Len(in) = fed - EndOf(k0) /\ Len(in) \in Nat
  <2>1. IsPart(Token, Stream(n), in, EndOf(k0), fed)
    BY <1>2, PartOfStream
  <2>2. Len(in) = fed - EndOf(k0)
    BY <2>1 DEF IsPart
  <2> HIDE DEF in
  <2> QED BY <1>2, <2>2
<1> HIDE DEF in
<1>4. PICK f : /\ Turns(f, Len(in), b)
               /\ q = [ret |-> IF Ends(f[Len(in)].input) THEN 0 ELSE 1,
                       input |-> f[Len(in)].input, result |-> f[Len(in)].result]
  BY <1>3, ParseIsTurns
<1> DEFINE r == f[Len(in)]
<1>5. PICK k : AtChunk(r, n, k, fed) /\ ~HasChunk(r.input)
  <2> HIDE DEF b
  <2> QED BY <1>1, <1>3, <1>4, LoopEnds
<1>6. /\ q.ret = IF Ends(r.input) THEN 0 ELSE 1
      /\ q.input = r.input /\ q.result = r.result
  <2> HIDE DEF q, Ends
  <2> QED BY <1>4
<1> HIDE DEF r, q
<1>7. /\ k \in 0..Count /\ EndOf(k) <= fed /\ r.input = Part(n, EndOf(k), fed) /\ r.result = BodyOf(k)
  BY <1>5 DEF AtChunk
<1>8. IsPart(Token, Stream(n), r.input, EndOf(k), fed)
  BY <1>5, AtChunkPart
<1>9. k \in Nat /\ Count \in Nat /\ (SizeAt(k) = 0 <=> k = Count)
  BY <1>7, SizeLine
<1>10. Len(Encode(resp)) \in Nat /\ Len(Stream(0)) = Len(Encode(resp)) + 0
  BY EncodeLength
<1>11. CASE k = Count
  <2>1. LastChunkEnds(r.input) <=> EndOf(Count) + 3 <= fed
    BY <1>8, <1>11, LastInPart
  <2>2. /\ SizeEnd(r.input) # 0 <=> EndOf(k) + 2 <= fed
        /\ SizeEnd(r.input) # 0 => SizeSaid(r.input) = SizeAt(k)
    BY <1>7, <1>8, SizeInPart
  <2>3. EndOf(Count) \in Nat /\ Len(Stream(0)) = EndOf(Count) + 3 + 0
    BY LastPlace
  <2>4. Len(Encode(resp)) = EndOf(Count) + 3
    BY <1>10, <2>3
  <2>5. Ends(r.input) <=> EndOf(Count) + 3 <= fed
    <3>1. EndOf(Count) + 3 <= fed => EndOf(k) + 2 <= fed
      BY <1>11, <2>3
    <3> QED BY <1>9, <1>11, <2>1, <2>2, <3>1
  <2> HIDE DEF Ends
  <2>6. q.ret = IF fed < Len(Encode(resp)) THEN 1 ELSE 0
    BY <1>6, <2>3, <2>4, <2>5
  <2> QED BY <1>6, <1>7, <1>11, <2>6 DEF q, in
<1>12. CASE k # Count
  <2>1. k < Count /\ k \in 0..(Count - 1)
    BY <1>7, <1>9, <1>12
  <2>2. ~(EndOf(k + 1) <= fed)
    BY <1>5, <1>7, <1>8, <2>1, HasChunkMeans
  <2>3. EndOf(k + 1) <= Len(Stream(0)) /\ EndOf(k + 1) \in Nat
    <3>1. k + 1 \in 0..Count
      BY <1>9, <2>1
    <3> QED BY <2>1, <3>1, ChunkPlace, SizeLine
  <2>4. fed < Len(Encode(resp))
    BY <1>10, <2>2, <2>3
  <2>5. ~Ends(r.input)
    BY <1>7, <1>8, <1>9, <1>12, SizeInPart
  <2> HIDE DEF Ends
  <2> QED BY <1>6, <1>7, <2>4, <2>5 DEF q, in
<1> QED BY <1>11, <1>12

-----------------------------------------------------------------------------
(* ParseHttpHeader. *)

LEMMA BodyFits ==
  ASSUME resp \in Responses, resp.kind = "length"
  PROVE  Len(Body(resp)) \in 0..MaxChunk
<1> DEFINE c == resp.chunks[1]
<1>1. resp.chunks \in [1..1 -> Bytes(0, MaxChunk)]
  BY DEF Responses
<1>2. c \in Bytes(0, MaxChunk)
  BY <1>1
<1>3. PICK m \in 0..MaxChunk : c \in [1..m -> {Byte, CRLF}]
  <2> HIDE DEF c
  <2> QED BY <1>2 DEF Bytes
<1> HIDE DEF c
<1>4. m \in Nat /\ c \in Seq(Data) /\ Len(c) = m
  <2>1. m \in Nat
    BY HttpResponseAssumption
  <2>2. c \in Seq(Data)
    BY <1>3, <2>1, SeqDef DEF Data
  <2> QED BY <1>3, <2>1, <2>2, LenProperties
<1>5. Count = 1
  <2>1. resp.chunks \in Seq(Seq(Data)) /\ Count \in Nat /\ DOMAIN resp.chunks = 1..Count
    BY ChunksType
  <2>2. 1..Count = 1..1
    BY <1>1, <2>1
  <2>3. 1 \in 1..Count /\ 2 \notin 1..Count
    BY <2>2
  <2> QED BY <2>1, <2>3
<1>6. Body(resp) = Cat(<<>>, c)
  <2>1. 0 \in 0..(Count - 1) /\ 0 + 1 = 1
    BY <1>5
  <2> QED BY <1>5, <2>1, BodyPieces DEF c
<1>7. Len(Cat(<<>>, c)) = 0 + m
  <2>1. <<>> \in Seq(Data) /\ Len(<<>>) = 0
    OBVIOUS
  <2>2. IsCat(Data, <<>>, c)
    BY <1>4, <2>1, CatAt
  <2> QED BY <1>4, <2>1, <2>2 DEF IsCat
<1> QED BY <1>4, <1>6, <1>7

LEMMA HeadSeen ==
  ASSUME resp \in Responses, NEW n \in Nat, NEW h, Len(h) \in Nat,
         \A i \in 1..Len(h) : h[i] = Stream(n)[i]
  PROVE  FindEnd(h, 1) # 0 <=> HeadLen <= Len(h)
<1> DEFINE P == {i \in 1..(Len(h) - 1) : h[i] = CRLF /\ h[i + 1] = CRLF}
           H == Len(HeaderOf(resp))
<1>1. FindEnd(h, 1) # 0 => HeadLen <= Len(h)
  BY HeadFound
<1>2. ASSUME HeadLen <= Len(h) PROVE FindEnd(h, 1) # 0
  <2>1. /\ H \in Nat \ {0} /\ HeadLen = H + 2
        /\ Stream(n)[H + 1] = CRLF /\ Stream(n)[H + 2] = CRLF
    BY StreamParts
  <2>2. H + 1 \in 1..(Len(h) - 1) /\ H + 1 \in 1..Len(h) /\ H + 2 \in 1..Len(h) /\ (H + 1) + 1 = H + 2
    <3> HIDE DEF H
    <3> QED BY <1>2, <2>1
  <2> HIDE DEF H
  <2>3. H + 1 \in P
    BY <2>1, <2>2
  <2>4. P \subseteq Nat \ {0} /\ FindEnd(h, 1) = First(P)
    BY DEF FindEnd
  <2> HIDE DEF P
  <2>5. First(P) = 0 <=> P = {}
    BY <2>4, FirstIsLeast
  <2> QED BY <2>3, <2>4, <2>5
<1> QED BY <1>1, <1>2

\* A header that can be used: it is framed and not too long.
Usable == resp.kind # "neither" /\ HeadLen <= MAX_PARSED

\* What ParseHttpHeader does with the beginning of the stream.
LEMMA HeaderParsed ==
  ASSUME resp \in Responses, NEW n \in Nat, NEW fed \in Nat, fed <= Len(Stream(n))
  PROVE  LET q == ParseHttpHeader(Part(n, 0, fed)) IN
         /\ fed < HeadLen => /\ q.ret \in {-1, 1} /\ (HeadLen <= MAX_PARSED => q.ret = 1)
                             /\ q.input = Part(n, 0, fed) /\ q.length = -1
         /\ HeadLen <= fed => q.ret = IF Usable THEN 0 ELSE -1
         /\ HeadLen <= fed /\ Usable =>
               /\ q.input = Part(n, HeadLen, fed)
               /\ q.length = IF resp.kind = "chunked" THEN -1 ELSE Len(Body(resp))
         /\ q.ret = -1 => q.input = Part(n, 0, fed) /\ q.length = -1
<1> DEFINE in == Part(n, 0, fed)
           q == ParseHttpHeader(in)
           end == FindEnd(in, 1)
           header0 == SubSeq(in, 1, end + 1)
           chunked == TransferEncodingChunked \in Range(header0)
           unframed == ~chunked /\ Lengths(header0) = {}
           Ret(r) == [ret |-> r, input |-> in, length |-> -1]
<1>1. IsPart(Token, Stream(n), in, 0, fed)
  <2>1. 0 \in Nat /\ 0 <= fed
    OBVIOUS
  <2> QED BY <2>1, PartOfStream
<1>2. in \in Seq(Token) /\ Len(in) = fed /\ \A i \in 1..Len(in) : in[i] = Stream(n)[i]
  <2>1. fed - 0 = fed /\ \A i \in 1..fed : 0 + i = i
    OBVIOUS
  <2> HIDE DEF in
  <2> QED BY <1>1, <2>1 DEF IsPart
<1>3. HeadLen \in Nat /\ MAX_PARSED \in Nat
  BY StreamParts, HttpParseAssumption
<1>4. end # 0 <=> HeadLen <= fed
  <2> HIDE DEF in
  <2> QED BY <1>2, HeadSeen
<1>5. end # 0 => end + 1 = HeadLen
  <2> HIDE DEF in
  <2> QED BY <1>2, HeadFound
<1>6. q = CASE end = 0 -> Ret(IF Len(in) > MAX_PARSED THEN -1 ELSE 1)
            [] end # 0 /\ (end + 1 > MAX_PARSED \/ unframed) -> Ret(-1)
            [] OTHER -> [ret    |-> 0,
                         input  |-> SubSeq(in, end + 2, Len(in)),
                         length |-> IF chunked THEN -1 ELSE CHOOSE m \in Lengths(header0) : TRUE]
  BY DEF ParseHttpHeader
<1>7. ASSUME HeadLen <= fed
      PROVE  /\ chunked <=> resp.kind = "chunked"
             /\ Lengths(header0) = IF resp.kind = "length" THEN {Len(Body(resp))} ELSE {}
  <2>1. header0 = SubSeq(in, 1, HeadLen)
    BY <1>4, <1>5, <1>7
  <2> DEFINE said == Range(header0)
  <2>2. /\ TransferEncodingChunked \in said <=> resp.kind = "chunked"
        /\ \A m \in Nat : ContentLength(m) \in said <=>
                              resp.kind = "length" /\ m = Len(Body(resp))
    <3> HIDE DEF in, header0
    <3> QED BY <1>2, <1>7, <2>1, HeaderSays
  <2>3. Lengths(header0) = {m \in 0..MaxChunk : ContentLength(m) \in said}
    BY DEF Lengths
  <2>4. resp.kind = "length" => Len(Body(resp)) \in 0..MaxChunk
    BY BodyFits
  <2>5. \A m \in 0..MaxChunk : m \in Nat
    BY HttpResponseAssumption
  <2> HIDE DEF header0, said
  <2>6. \A m \in 0..MaxChunk : ContentLength(m) \in said <=>
                              resp.kind = "length" /\ m = Len(Body(resp))
    BY <2>2, <2>5
  <2>7. Lengths(header0) = IF resp.kind = "length" THEN {Len(Body(resp))} ELSE {}
    BY <2>3, <2>4, <2>6
  <2> QED BY <2>2, <2>7 DEF said
<1>8. resp.kind \in {"chunked", "length", "neither"}
  BY ChunksType
<1> HIDE DEF in, end, header0, q
<1>9. CASE fed < HeadLen
  <2>1. end = 0
    BY <1>3, <1>4, <1>9
  <2>2. q = Ret(IF fed > MAX_PARSED THEN -1 ELSE 1)
    BY <1>2, <1>6, <2>1
  <2>3. /\ q.ret \in {-1, 1} /\ q.input = in /\ q.length = -1
        /\ fed <= MAX_PARSED => q.ret = 1
    BY <1>3, <2>2
  <2>4. HeadLen <= MAX_PARSED => fed <= MAX_PARSED
    BY <1>3, <1>9
  <2>5. ~(HeadLen <= fed)
    BY <1>3, <1>9
  <2> QED BY <1>9, <2>3, <2>4, <2>5 DEF q, in
<1>10. CASE HeadLen <= fed /\ ~Usable
  <2>1. end # 0 /\ (end + 1 > MAX_PARSED \/ unframed)
    <3>1. CASE resp.kind = "neither"
      BY <1>4, <1>7, <1>10, <3>1
    <3>2. CASE resp.kind # "neither"
      <4>1. ~(HeadLen <= MAX_PARSED)
        BY <1>10, <3>2 DEF Usable
      <4> QED BY <1>3, <1>4, <1>5, <1>10, <4>1
    <3> QED BY <3>1, <3>2
  <2>2. q = Ret(-1)
    <3> HIDE DEF unframed, chunked
    <3> QED BY <1>6, <2>1
  <2>3. q.ret = -1 /\ q.input = in /\ q.length = -1
    BY <2>2
  <2>4. ~(fed < HeadLen)
    BY <1>3, <1>10
  <2> QED BY <1>10, <2>3, <2>4 DEF q, in
<1>11. CASE HeadLen <= fed /\ Usable
  <2>1. end # 0 /\ ~(end + 1 > MAX_PARSED \/ unframed)
    <3>1. ~(HeadLen > MAX_PARSED)
      BY <1>3, <1>11 DEF Usable
    <3>2. ~unframed
      BY <1>7, <1>8, <1>11 DEF Usable
    <3> HIDE DEF unframed
    <3> QED BY <1>4, <1>5, <1>11, <3>1, <3>2
  <2>2. q = [ret |-> 0, input |-> SubSeq(in, end + 2, Len(in)),
             length |-> IF chunked THEN -1 ELSE CHOOSE m \in Lengths(header0) : TRUE]
    <3> HIDE DEF unframed, chunked
    <3> QED BY <1>6, <2>1
  <2>3. q.ret = 0 /\ q.input = SubSeq(in, end + 2, Len(in))
    <3> HIDE DEF chunked
    <3> QED BY <2>2
  <2>4. q.length = IF resp.kind = "chunked" THEN -1 ELSE Len(Body(resp))
    <3>1. q.length = IF chunked THEN -1 ELSE CHOOSE m \in Lengths(header0) : TRUE
      <4> HIDE DEF chunked
      <4> QED BY <2>2
    <3>2. CASE resp.kind = "chunked"
      BY <1>7, <1>11, <3>1, <3>2
    <3>3. CASE resp.kind = "length"
      <4>1. ~chunked /\ Lengths(header0) = {Len(Body(resp))}
        BY <1>7, <1>11, <3>3
      <4> HIDE DEF chunked
      <4> QED BY <3>1, <3>3, <4>1
    <3> QED BY <1>8, <1>11, <3>2, <3>3 DEF Usable
  <2>5. SubSeq(in, end + 2, Len(in)) = Part(n, HeadLen, fed)
    <3>1. /\ HeadLen \in Nat /\ HeadLen <= fed /\ fed <= fed - 0 /\ end + 2 = HeadLen + 1
          /\ 0 + HeadLen = HeadLen /\ 0 + fed = fed
      <4>1. end + 1 = HeadLen /\ end \in Int
        <5>1. end \in Int
          <6> DEFINE P == {i \in 1..(Len(in) - 1) : in[i] = CRLF /\ in[i + 1] = CRLF}
          <6>1. P \subseteq Nat \ {0} /\ end = First(P)
            BY DEF FindEnd, end
          <6> HIDE DEF P
          <6>2. First(P) # 0 => First(P) \in P
            BY <6>1, FirstIsLeast
          <6>3. end # 0
            BY <2>1
          <6>4. end \in Nat \ {0}
            BY <6>1, <6>2, <6>3
          <6> QED BY <6>4
        <5> QED BY <1>5, <2>1, <5>1
      <4> QED BY <1>3, <1>11, <4>1
    <3>2. IsPart(Token, Stream(n), SubSeq(in, HeadLen + 1, fed), 0 + HeadLen, 0 + fed)
      BY <1>1, <3>1, PartOfPart
    <3>3. IsPart(Token, Stream(n), SubSeq(in, end + 2, Len(in)), HeadLen, fed)
      BY <1>2, <3>1, <3>2
    <3> QED BY <3>3, IsPartOfStream
  <2>6. ~(fed < HeadLen)
    BY <1>3, <1>11
  <2>7. q.ret = 0 /\ q.ret # -1 /\ q.input = Part(n, HeadLen, fed)
    BY <2>3, <2>5
  <2> QED BY <1>11, <2>4, <2>6, <2>7 DEF q, in
<1>12. fed < HeadLen \/ HeadLen <= fed
  BY <1>3
<1> QED BY <1>9, <1>10, <1>11, <1>12

-----------------------------------------------------------------------------
(* The caller of the parsers. *)

LEMMA BodyPrefix ==
  ASSUME resp \in Responses, NEW k \in 0..Count
  PROVE  IsPrefix(BodyOf(k), Body(resp))
<1>1. Count \in Nat /\ Count \in 0..Count /\ k <= Count
  BY ChunksType
<1>2. Kept(resp.chunks, k, Count)
  BY <1>1, BodyPieces, PiecesKept
<1>3. /\ BodyOf(k) = Pieces(resp.chunks, k) /\ BodyOf(k) \in Seq(Data)
      /\ Body(resp) = Pieces(resp.chunks, Count) /\ Body(resp) \in Seq(Data)
  BY <1>1, BodyPieces
<1>4. /\ Len(BodyOf(k)) <= Len(Body(resp))
      /\ \A i \in 1..Len(BodyOf(k)) : BodyOf(k)[i] = Body(resp)[i]
  BY <1>2, <1>3 DEF Kept
<1> QED BY <1>3, <1>4, PrefixAt

LEMMA FirstEnd ==
  ASSUME resp \in Responses
  PROVE  0 \in 0..Count /\ EndOf(0) = HeadLen
<1>1. Count \in Nat /\ 0 \in 0..Count
  BY ChunksType
<1>2. Pieces(Sent, 0) = <<>> /\ Len(<<>>) = 0
  BY <1>1, SentPieces, PiecesStep
<1>3. EndOf(0) = HeadLen + 0
  BY <1>1, <1>2, SentPieces
<1>4. HeadLen \in Nat
  <2>1. 0 \in Nat
    OBVIOUS
  <2> QED BY <2>1, StreamParts
<1> QED BY <1>1, <1>3, <1>4

LEMMA ReturnedIs ==
  ASSUME NEW p \in ParsedType, NEW r \in {-1, 0, 1}, NEW next \in {"body", "done"}
  PROVE  LET q == Returned(p, r, next) IN
         /\ q \in ParsedType
         /\ q.ret = r /\ q.input = p.input /\ q.length = p.length /\ q.result = p.result
         /\ r = 1 => q.phase = p.phase
         /\ r = 0 => q.phase = next
         /\ r = -1 => q.phase = "done"
<1> DEFINE v == CASE r = 1 -> p.phase [] r = 0 -> next [] OTHER -> "done"
<1>1. /\ v \in {"header", "body", "done"}
      /\ r = 1 => v = p.phase
      /\ r = 0 => v = next
      /\ r = -1 => v = "done"
  BY DEF ParsedType
<1>2. Returned(p, r, next) = [p EXCEPT !.ret = r, !.phase = v]
  BY DEF Returned
<1> HIDE DEF v
<1> QED BY <1>1, <1>2 DEF ParsedType

\* The parser of the body, when the header has been taken off.
LEMMA BodyCall ==
  ASSUME resp \in Responses, NEW n \in Nat, NEW fed \in Nat, fed <= Len(Stream(n)), HeadLen <= fed,
         NEW p \in ParsedType, p.phase = "body", InBody(p, n, fed)
  PROVE  CallBody(p) \in ParsedType /\ PhaseInv(CallBody(p), n, fed)
<1> DEFINE q == CallBody(p)
           e == Len(Encode(resp))
<1>1. e \in Nat /\ Len(Stream(n)) = e + n /\ HeadLen \in Nat
  BY EncodeLength, StreamParts
<1>2. CASE resp.kind = "length"
  <2> DEFINE r == ParseHttpContentLength(p.input, p.length)
             c == Len(Body(resp))
  <2>1. p.length = c /\ p.input = Part(n, HeadLen, fed) /\ p.result = <<>>
    BY <1>2 DEF InBody
  <2>2. IsPart(Token, Stream(n), p.input, HeadLen, fed)
    BY <1>1, <2>1, PartOfStream
  <2>3. Len(p.input) = fed - HeadLen /\ p.input \in Seq(Token)
    BY <2>2 DEF IsPart
  <2>4. /\ c \in Nat /\ e = HeadLen + c
        /\ \A j \in 1..c : Stream(n)[HeadLen + j] = Body(resp)[j]
        /\ Body(resp) \in Seq(Data)
    <3>1. EncodeBody(resp) = Body(resp)
      BY <1>2 DEF EncodeBody
    <3>2. e = HeadLen + c
      BY <3>1, EncodeLength
    <3>3. \A j \in 1..c : Stream(n)[HeadLen + j] = Body(resp)[j]
      BY <3>1, StreamParts
    <3> HIDE DEF e
    <3> QED BY <3>2, <3>3, BodyPieces
  <2>5. q = Returned(p, r, "done")
    <3> HIDE DEF e
    <3> QED BY <2>1, <2>4 DEF CallBody, CallContentLength
  <2> HIDE DEF e, c, q
  <2>6. /\ r \in {-1, 0, 1}
        /\ r = 1 => fed < e
        /\ r = 0 => fed = e
        /\ r = -1 => fed > e
    BY <1>1, <2>1, <2>3, <2>4 DEF ParseHttpContentLength
  <2> HIDE DEF r
  <2>7. /\ q \in ParsedType
        /\ q.ret = r /\ q.input = p.input /\ q.length = p.length /\ q.result = <<>>
        /\ r = 1 => q.phase = "body"
        /\ r # 1 => q.phase = "done"
    BY <2>1, <2>5, <2>6, ReturnedIs
  <2>8. CASE r = 1
    <3>1. q.phase = "body" /\ fed < e /\ InBody(q, n, fed)
      BY <1>2, <2>1, <2>6, <2>7, <2>8 DEF InBody, c
    <3> QED BY <2>7, <3>1 DEF PhaseInv, q, e
  <2>9. CASE r # 1
    <3>1. IsPrefix(<<>>, Body(resp))
      BY <2>4, PrefixEmpty
    <3>2. r = 0 => Body(resp) = p.input
      <4> SUFFICES ASSUME r = 0 PROVE p.input = Body(resp)
        OBVIOUS
      <4>1. fed - HeadLen = c
        BY <1>1, <2>4, <2>6
      <4>2. Len(p.input) = c /\ \A i \in 1..c : p.input[i] = Stream(n)[HeadLen + i]
        BY <2>2, <4>1 DEF IsPart
      <4>3. \A i \in 1..Len(p.input) : p.input[i] = Body(resp)[i]
        BY <2>4, <4>2
      <4> QED BY <2>3, <2>4, <4>2, <4>3, SameElements DEF c
    <3>3. n = 0 => r = 0 /\ fed = Len(Stream(n))
      BY <1>1, <2>6, <2>9
    <3>4. Ended(q, n, fed)
      BY <1>2, <2>7, <3>1, <3>2, <3>3 DEF Ended
    <3>5. q.phase = "done"
      BY <2>7, <2>9
    <3> QED BY <2>7, <3>4, <3>5 DEF PhaseInv, q
  <2> QED BY <2>8, <2>9
<1>3. CASE resp.kind = "chunked"
  <2>1. /\ p.length = -1
        /\ \E k \in 0..Count : EndOf(k) <= fed /\ p.input = Part(n, EndOf(k), fed) /\ p.result = BodyOf(k)
    BY <1>3 DEF InBody, Count
  <2>2. PICK k0 \in 0..Count : EndOf(k0) <= fed /\ p.input = Part(n, EndOf(k0), fed) /\ p.result = BodyOf(k0)
    BY <2>1
  <2> DEFINE t == ParseHttpContentChunk(p.input, p.result)
             s == [p EXCEPT !.input = t.input, !.result = t.result]
  <2>3. PICK k \in 0..Count :
           /\ EndOf(k) <= fed
           /\ t.input = Part(n, EndOf(k), fed)
           /\ t.result = BodyOf(k)
           /\ t.ret = 0 => k = Count
    BY <1>3, <2>2, ChunkParsed
  <2>4. t.ret = IF fed < e THEN 1 ELSE 0
    BY <1>3, <2>2, ChunkParsed
  <2>5. q = Returned(s, t.ret, "done")
    <3>1. ~(p.length >= 0)
      BY <2>1
    <3> QED BY <3>1 DEF CallBody, CallContentChunk
  <2>6. EndOf(k) \in Nat
    BY <1>3, SizeLine
  <2>7. t.input \in Seq(Token) /\ t.result \in Seq(Data)
    <3>1. IsPart(Token, Stream(n), Part(n, EndOf(k), fed), EndOf(k), fed)
      BY <2>3, <2>6, PartOfStream
    <3>2. BodyOf(k) \in Seq(Data)
      BY BodyPieces
    <3> QED BY <2>3, <3>1, <3>2 DEF IsPart
  <2> HIDE DEF t, e, q
  <2>8. /\ s \in ParsedType /\ s.input = t.input /\ s.result = t.result
        /\ s.length = -1 /\ s.phase = "body"
    BY <2>1, <2>7 DEF ParsedType
  <2> HIDE DEF s
  <2>9. /\ q \in ParsedType /\ q.ret = t.ret
        /\ q.input = t.input /\ q.result = t.result /\ q.length = -1
        /\ t.ret = 1 => q.phase = "body"
        /\ t.ret = 0 => q.phase = "done"
    <3>1. t.ret \in {-1, 0, 1}
      BY <2>4
    <3> QED BY <2>5, <2>8, <3>1, ReturnedIs
  <2>10. CASE fed < e
    <3>1. t.ret = 1 /\ q.phase = "body"
      BY <2>4, <2>9, <2>10
    <3>2. InBody(q, n, fed)
      BY <1>3, <2>3, <2>9 DEF InBody, Count
    <3> QED BY <2>9, <2>10, <3>1, <3>2 DEF PhaseInv, q, e
  <2>11. CASE ~(fed < e)
    <3>1. t.ret = 0 /\ q.phase = "done" /\ k = Count
      BY <2>3, <2>4, <2>9, <2>11
    <3>2. q.result = Body(resp) /\ IsPrefix(q.result, Body(resp))
      BY <2>3, <2>9, <3>1, BodyPieces, BodyPrefix
    <3>3. n = 0 => fed = Len(Stream(n))
      BY <1>1, <2>11
    <3>4. Ended(q, n, fed)
      BY <1>3, <2>9, <3>1, <3>2, <3>3 DEF Ended
    <3> QED BY <2>9, <3>1, <3>4 DEF PhaseInv, q
  <2> QED BY <2>10, <2>11
<1> QED BY <1>2, <1>3 DEF InBody

\* Whatever is appended to the input, the parsers stay where they belong.
LEMMA FeedKeeps ==
  ASSUME resp \in Responses, NEW n \in Nat, NEW a, NEW b, NEW piece,
         IsPart(Token, Stream(n), piece, a, b), NEW p \in ParsedType, PhaseInv(p, n, a)
  PROVE  Feed(p, piece) \in ParsedType /\ PhaseInv(Feed(p, piece), n, b)
<1> DEFINE more == [p EXCEPT !.input = @ \o piece]
           f == Feed(p, piece)
<1>1. /\ a \in Nat /\ b \in Nat /\ a <= b /\ b <= Len(Stream(n)) /\ piece \in Seq(Token)
  BY DEF IsPart
<1>2. HeadLen \in Nat /\ Len(Stream(n)) \in Nat
  <2>1. Stream(n) \in Seq(Token) /\ HeadLen \in Nat
    BY StreamParts
  <2> QED BY <2>1, LenProperties
<1>3. p.phase \in {"header", "body", "done"} /\ p.input \in Seq(Token)
  BY DEF ParsedType
<1>4. ASSUME NEW c \in Nat, c <= a, p.input = Part(n, c, a)
      PROVE  p.input \o piece = Part(n, c, b)
  <2>1. a <= Len(Stream(n))
    BY <1>1, <1>2
  <2>2. IsPart(Token, Stream(n), p.input, c, a)
    BY <1>1, <1>4, <2>1, PartOfStream
  <2>3. IsPart(Token, Stream(n), Cat(p.input, piece), c, b)
    BY <2>2, PartCat
  <2> QED BY <2>3, IsPartOfStream DEF Cat
<1>5. /\ more \in ParsedType /\ more.input = p.input \o piece /\ more.phase = p.phase
      /\ more.length = p.length /\ more.result = p.result
  <2> DEFINE i == p.input \o piece
  <2>1. i \in Seq(Token)
    <3>1. IsCat(Token, p.input, piece)
      BY <1>1, <1>3, CatAt
    <3> QED BY <3>1 DEF IsCat, Cat
  <2>2. more = [p EXCEPT !.input = i]
    OBVIOUS
  <2> HIDE DEF i, more
  <2>3. more.input = i
    BY <2>2 DEF ParsedType
  <2> QED BY <2>1, <2>2, <2>3 DEF ParsedType, i
<1> HIDE DEF more
<1>6. CASE p.phase = "done"
  <2>1. f = p
    BY <1>6 DEF Feed
  <2>2. Ended(p, n, a)
    BY <1>6 DEF PhaseInv
  <2>3. Ended(p, n, b)
    <3>1. a = Len(Stream(n)) => b = Len(Stream(n))
      BY <1>1, <1>2
    <3> QED BY <2>2, <3>1 DEF Ended
  <2> QED BY <1>6, <2>1, <2>3 DEF PhaseInv
<1>7. CASE p.phase = "body"
  <2>1. HeadLen <= a /\ InBody(p, n, a)
    BY <1>7 DEF PhaseInv
  <2>2. f = CallBody(more)
    BY <1>5, <1>7 DEF Feed, more
  <2>3. HeadLen <= b
    BY <1>1, <1>2, <2>1
  <2>4. InBody(more, n, b)
    <3>1. CASE resp.kind = "length"
      <4>1. p.length = Len(Body(resp)) /\ p.input = Part(n, HeadLen, a) /\ p.result = <<>>
        BY <2>1, <3>1 DEF InBody
      <4>2. p.input \o piece = Part(n, HeadLen, b)
        BY <1>2, <1>4, <2>1, <4>1
      <4> QED BY <1>5, <3>1, <4>1, <4>2 DEF InBody
    <3>2. CASE resp.kind = "chunked"
      <4>1. /\ p.length = -1
            /\ \E k \in 0..Count : EndOf(k) <= a /\ p.input = Part(n, EndOf(k), a) /\ p.result = BodyOf(k)
        BY <2>1, <3>2 DEF InBody, Count
      <4>2. PICK k \in 0..Count : EndOf(k) <= a /\ p.input = Part(n, EndOf(k), a) /\ p.result = BodyOf(k)
        BY <4>1
      <4>3. EndOf(k) \in Nat
        BY <3>2, SizeLine
      <4>4. p.input \o piece = Part(n, EndOf(k), b)
        BY <1>4, <4>2, <4>3
      <4>5. EndOf(k) <= b
        BY <1>1, <4>2, <4>3
      <4>6. \E j \in 0..Count :
               EndOf(j) <= b /\ more.input = Part(n, EndOf(j), b) /\ more.result = BodyOf(j)
        BY <1>5, <4>2, <4>4, <4>5
      <4> QED BY <1>5, <3>2, <4>1, <4>6 DEF InBody, Count
    <3> QED BY <2>1, <3>1, <3>2 DEF InBody
  <2> QED BY <1>1, <1>5, <1>7, <2>2, <2>3, <2>4, BodyCall
<1>8. CASE p.phase = "header"
  <2> DEFINE q == ParseHttpHeader(more.input)
             s == [more EXCEPT !.input = q.input, !.length = q.length]
             g == Returned(s, q.ret, "body")
  <2>1. a < HeadLen /\ p.input = Part(n, 0, a) /\ p.result = <<>>
    BY <1>8 DEF PhaseInv, InHeader
  <2>2. more.input = Part(n, 0, b)
    <3>1. 0 \in Nat /\ 0 <= a
      BY <1>1
    <3> QED BY <1>4, <1>5, <2>1, <3>1
  <2>3. /\ b < HeadLen => /\ q.ret \in {-1, 1} /\ (HeadLen <= MAX_PARSED => q.ret = 1)
                          /\ q.input = Part(n, 0, b) /\ q.length = -1
        /\ HeadLen <= b => q.ret = IF Usable THEN 0 ELSE -1
        /\ HeadLen <= b /\ Usable =>
              /\ q.input = Part(n, HeadLen, b)
              /\ q.length = IF resp.kind = "chunked" THEN -1 ELSE Len(Body(resp))
        /\ q.ret = -1 => q.input = Part(n, 0, b) /\ q.length = -1
    BY <1>1, <2>2, HeaderParsed
  <2>4. b < HeadLen \/ HeadLen <= b
    BY <1>1, <1>2
  <2>5. f = IF g.phase = "body" THEN CallBody(g) ELSE g
    BY <1>5, <1>8 DEF Feed, CallHeader, more
  <2> HIDE DEF q
  <2>6. q.ret \in {-1, 0, 1} /\ q.input \in Seq(Token) /\ q.length \in Int
    <3>1. Part(n, 0, b) \in Seq(Token)
      <4>1. 0 \in Nat /\ 0 <= b
        BY <1>1
      <4> QED BY <1>1, <4>1, PartOfStream DEF IsPart
    <3>2. HeadLen <= b => Part(n, HeadLen, b) \in Seq(Token)
      BY <1>1, <1>2, PartOfStream DEF IsPart
    <3>3. Len(Body(resp)) \in Int
      BY BodyPieces
    <3>4. q.ret \in {-1, 0, 1}
      BY <2>3, <2>4
    <3>5. q.input \in Seq(Token)
      BY <2>3, <2>4, <3>1, <3>2
    <3>6. q.length \in Int
      BY <2>3, <2>4, <3>3
    <3> QED BY <3>4, <3>5, <3>6
  <2>7. /\ s \in ParsedType /\ s.input = q.input /\ s.length = q.length
        /\ s.result = <<>> /\ s.phase = "header"
    BY <1>5, <1>8, <2>1, <2>6 DEF ParsedType
  <2> HIDE DEF s
  <2>8. /\ g \in ParsedType /\ g.ret = q.ret
        /\ g.input = q.input /\ g.length = q.length /\ g.result = <<>>
        /\ q.ret = 1 => g.phase = "header"
        /\ q.ret = 0 => g.phase = "body"
        /\ q.ret = -1 => g.phase = "done"
    BY <2>6, <2>7, ReturnedIs
  <2> HIDE DEF g, f
  <2>9. CASE q.ret = 1
    <3>1. b < HeadLen /\ q.input = Part(n, 0, b)
      BY <2>3, <2>4, <2>9
    <3>2. g.phase = "header" /\ InHeader(g, n, b)
      BY <2>8, <2>9, <3>1 DEF InHeader
    <3>3. f = g
      BY <2>5, <3>2
    <3> QED BY <2>8, <3>2, <3>3 DEF PhaseInv, f
  <2>10. CASE q.ret = -1
    <3>1. ~(resp.kind # "neither" /\ HeadLen <= MAX_PARSED)
      BY <2>3, <2>4, <2>10 DEF Usable
    <3>2. IsPrefix(<<>>, Body(resp))
      BY BodyPieces, PrefixEmpty
    <3>3. g.phase = "done" /\ Ended(g, n, b)
      BY <2>8, <2>10, <3>1, <3>2 DEF Ended
    <3>4. f = g
      BY <2>5, <3>3
    <3> QED BY <2>8, <3>3, <3>4 DEF PhaseInv, f
  <2>11. CASE q.ret = 0
    <3>1. HeadLen <= b /\ Usable
      BY <2>3, <2>4, <2>11
    <3>2. g.phase = "body" /\ f = CallBody(g)
      BY <2>5, <2>8, <2>11
    <3>3. resp.kind \in {"chunked", "length"}
      BY <3>1, ChunksType DEF Usable
    <3>4. InBody(g, n, b)
      <4>1. CASE resp.kind = "length"
        BY <2>3, <2>8, <3>1, <4>1 DEF InBody
      <4>2. CASE resp.kind = "chunked"
        <5>1. 0 \in 0..Count /\ EndOf(0) = HeadLen /\ BodyOf(0) = <<>>
          BY FirstEnd, BodyPieces
        <5>2. g.input = Part(n, EndOf(0), b) /\ EndOf(0) <= b /\ g.result = BodyOf(0) /\ g.length = -1
          BY <2>3, <2>8, <3>1, <4>2, <5>1
        <5> QED BY <4>2, <5>1, <5>2 DEF InBody, Count
      <4> QED BY <3>3, <4>1, <4>2
    <3> QED BY <1>1, <2>8, <3>1, <3>2, <3>4, BodyCall DEF f
  <2> QED BY <2>6, <2>9, <2>10, <2>11
<1> QED BY <1>3, <1>6, <1>7, <1>8

-----------------------------------------------------------------------------
(* Both readers. *)

LEMMA StepReads ==
  ASSUME Step
  PROVE  /\ pc # "done" /\ UNCHANGED <<resp, prompt>>
         /\ \/ UNCHANGED <<header, wire>>
            \/ \E c \in Nat \ {0} :
                  /\ c <= Len(wire)
                  /\ header' = header \o SubSeq(wire, 1, c)
                  /\ wire' = SubSeq(wire, c + 1, Len(wire))
<1> DEFINE Takes == \E c \in Nat \ {0} : /\ c <= Len(wire)
                                         /\ header' = header \o SubSeq(wire, 1, c)
                                         /\ wire' = SubSeq(wire, c + 1, Len(wire))
<1> SUFFICES pc # "done" /\ UNCHANGED <<resp, prompt>> /\ (UNCHANGED <<header, wire>> \/ Takes)
  OBVIOUS
<1>1. ASSUME NEW max, NEW t, recv(max, t) PROVE Takes
  <2>1. PICK c \in 1..max : /\ c <= Len(wire)
                            /\ header' = header \o SubSeq(wire, 1, c)
                            /\ wire' = SubSeq(wire, c + 1, Len(wire))
    BY <1>1 DEF recv
  <2>2. c \in Nat \ {0}
    OBVIOUS
  <2> QED BY <2>1, <2>2
<1> HIDE DEF Takes
<1>2. CASE head_recv
  BY <1>1, <1>2 DEF head_recv, peer
<1>3. CASE size_recv
  BY <1>1, <1>3 DEF size_recv, peer
<1>4. CASE last_recv
  BY <1>1, <1>4 DEF last_recv, peer
<1>5. CASE fill_late
  BY <1>1, <1>5 DEF fill_late, peer
<1>6. CASE fill_recv
  BY <1>1, <1>6 DEF fill_recv, peer
<1>7. CASE frame_chunked \/ frame_length \/ frame_neither
  BY <1>7 DEF frame_chunked, frame_length, frame_neither, peer
<1>8. CASE chunk_start \/ chunk_last \/ last_found \/ recv_fails
  BY <1>8 DEF chunk_start, chunk_last, last_found, recv_fails, peer
<1> QED BY <1>2, <1>3, <1>4, <1>5, <1>6, <1>7, <1>8 DEF Step

\* The place of the parsers does not depend on the state but for the response.
LEMMA PhaseKept ==
  ASSUME UNCHANGED resp, NEW p, NEW n, NEW fed, p = parsed', fed = Fed(n)', PhaseInv(p, n, fed)
  PROVE  PhaseInv(parsed, n, Fed(n))'
<1>1. /\ \A a, b : Part(n, a, b)' = Part(n, a, b)
      /\ Len(Stream(n))' = Len(Stream(n)) /\ Len(Encode(resp))' = Len(Encode(resp))
      /\ HeadLen' = HeadLen /\ Body(resp)' = Body(resp)
      /\ \A k : EndOf(k)' = EndOf(k) /\ BodyOf(k)' = BodyOf(k)
  BY DEF Part, Stream, HeadLen, EndOf, BodyOf
<1>2. p.phase = "header" => InHeader(parsed, n, Fed(n))'
  BY <1>1 DEF PhaseInv, InHeader
<1>3. p.phase = "body" => InBody(parsed, n, Fed(n))'
  BY <1>1 DEF PhaseInv, InBody
<1>4. p.phase = "done" => Ended(parsed, n, Fed(n))'
  BY <1>1 DEF PhaseInv, Ended
<1> QED BY <1>1, <1>2, <1>3, <1>4 DEF PhaseInv

LEMMA FedParts ==
  ASSUME resp \in Responses, NEW n \in Nat, FedInv(n)
  PROVE  /\ Fed(n) \in Nat /\ Len(Stream(n)) \in Nat /\ Len(wire) = Len(Stream(n)) - Fed(n)
         /\ IsPart(Token, Stream(n), wire, Fed(n), Len(Stream(n)))
         /\ pc # "done" => IsPart(Token, Stream(n), header, 0, Fed(n))
<1> DEFINE X == Stream(n)
           W == Len(X)
           F == Fed(n)
           l == Len(wire)
<1>1. X \in Seq(Token) /\ wire \in Seq(Token)
  BY StreamParts DEF FedInv
<1>2. F >= 0 /\ wire = SubSeq(X, F + 1, W) /\ F = W - l
  BY DEF FedInv, Fed, Part
<1>3. pc # "done" => header = Part(n, 0, F)
  BY DEF FedInv
<1>4. W \in Nat /\ l \in Nat
  BY <1>1, LenProperties
<1>5. F \in Nat /\ F <= W /\ l = W - F /\ 0 \in Nat /\ 0 <= F /\ W <= W
  <2> HIDE DEF F, W, l
  <2> QED BY <1>2, <1>4
<1>6. IsPart(Token, X, wire, F, W)
  <2>1. IsPart(Token, X, SubSeq(X, F + 1, W), F, W)
    <3> HIDE DEF F, X
    <3> QED BY <1>1, <1>4, <1>5, PartIs
  <2> QED BY <1>2, <2>1
<1>7. IsPart(Token, X, Part(n, 0, F), 0, F)
  <2> HIDE DEF F
  <2> QED BY <1>5, PartOfStream
<1> QED BY <1>3, <1>4, <1>5, <1>6, <1>7

\* The parsers are fed the next c tokens of the stream.
LEMMA FedOn ==
  ASSUME resp \in Responses, UNCHANGED <<resp, prompt>>, NEW n \in Nat, FedInv(n),
         parsed \in ParsedType, NEW c \in Nat \ {0}, c <= Len(wire),
         wire' = SubSeq(wire, c + 1, Len(wire)), parsed' = Feed(parsed, SubSeq(wire, 1, c)),
         pc' # "done" => header' = Cat(header, SubSeq(wire, 1, c)) /\ pc # "done"
  PROVE  parsed' \in ParsedType /\ FedInv(n)'
<1> DEFINE X == Stream(n)
           W == Len(X)
           F == Fed(n)
           l == Len(wire)
           piece == SubSeq(wire, 1, c)
           rest == SubSeq(wire, c + 1, l)
<1>1. /\ F \in Nat /\ W \in Nat /\ l = W - F /\ IsPart(Token, X, wire, F, W)
      /\ pc # "done" => IsPart(Token, X, header, 0, F)
  BY FedParts
<1>2. c \in Nat /\ c <= l /\ l \in Nat
  <2>1. l \in Nat
    <3>1. wire \in Seq(Token)
      BY DEF FedInv
    <3> QED BY <3>1, LenProperties
  <2> QED BY <2>1
<1> HIDE DEF F, W, l
<1>3. /\ 0 \in Nat /\ 0 <= c /\ 0 + 1 = 1 /\ F + 0 = F /\ c <= W - F /\ l <= W - F /\ F + l = W
      /\ F + c \in Nat /\ W - (l - c) = F + c /\ F + c <= W
  BY <1>1, <1>2
<1>4. IsPart(Token, X, piece, F, F + c)
  <2>1. IsPart(Token, X, SubSeq(wire, 0 + 1, c), F + 0, F + c)
    <3> HIDE DEF X
    <3> QED BY <1>1, <1>2, <1>3, PartOfPart
  <2> QED BY <1>3, <2>1
<1>5. IsPart(Token, X, rest, F + c, W)
  <2>1. IsPart(Token, X, rest, F + c, F + l)
    <3> HIDE DEF X
    <3> QED BY <1>1, <1>2, <1>3, PartOfPart
  <2> QED BY <1>3, <2>1
<1>6. rest \in Seq(Token) /\ Len(rest) = W - (F + c)
  BY <1>5 DEF IsPart
<1>7. wire' = rest
  BY DEF l
<1>8. X' = X
  BY DEF Stream
<1>9. Fed(n)' = F + c
  <2>1. Fed(n)' = W - Len(rest)
    BY <1>7, <1>8 DEF Fed, W
  <2>2. W - (W - (F + c)) = F + c
    BY <1>1, <1>3
  <2> QED BY <1>6, <2>1, <2>2
<1>10. PhaseInv(parsed, n, F)
  BY DEF FedInv, F
<1>11. Feed(parsed, piece) \in ParsedType /\ PhaseInv(Feed(parsed, piece), n, F + c)
  <2> HIDE DEF piece, X
  <2> QED BY <1>4, <1>10, FeedKeeps DEF X
<1>12. PhaseInv(parsed, n, Fed(n))'
  <2> DEFINE p == Feed(parsed, piece)
             fed == F + c
  <2>1. p = parsed' /\ fed = Fed(n)' /\ PhaseInv(p, n, fed)
    BY <1>9, <1>11
  <2> HIDE DEF p, fed, piece
  <2> QED BY <2>1, PhaseKept
<1>13. rest = Part(n, F + c, W)
  <2> HIDE DEF rest
  <2> QED BY <1>5, IsPartOfStream
<1>14. pc' # "done" => header' = Part(n, 0, F + c)
  <2> SUFFICES ASSUME pc' # "done" PROVE header' = Part(n, 0, F + c)
    OBVIOUS
  <2>1. IsPart(Token, X, header, 0, F)
    BY <1>1
  <2>2. IsPart(Token, X, Cat(header, piece), 0, F + c)
    <3> HIDE DEF X, piece
    <3> QED BY <1>4, <2>1, PartCat
  <2>3. Cat(header, piece) = Part(n, 0, F + c)
    <3> HIDE DEF piece
    <3> QED BY <2>2, IsPartOfStream
  <2> QED BY <2>3
<1>15. (prompt => n = 0)'
  BY DEF FedInv
<1>16. Part(n, F + c, W) = Part(n, Fed(n), Len(Stream(n)))' /\ Part(n, 0, F + c) = Part(n, 0, Fed(n))'
  BY <1>8, <1>9 DEF Part, W
<1>17. (wire \in Seq(Token) /\ Fed(n) >= 0)'
  <2>1. F + c >= 0
    BY <1>3
  <2> QED BY <1>6, <1>7, <1>9, <2>1
<1> HIDE DEF rest, piece
<1>18. wire' = Part(n, Fed(n), Len(Stream(n)))' /\ (pc # "done" => header = Part(n, 0, Fed(n)))'
  BY <1>7, <1>13, <1>14, <1>16
<1>19. FedInv(n)'
  BY <1>12, <1>15, <1>17, <1>18 DEF FedInv
<1> QED BY <1>11, <1>19 DEF piece

\* What was appended can be read off.
LEMMA Appended ==
  ASSUME NEW S, NEW u \in Seq(S), NEW v \in Seq(S), Len(v) # 0
  PROVE  Cat(u, v) # u /\ SubSeq(Cat(u, v), Len(u) + 1, Len(Cat(u, v))) = v
<1> DEFINE w == Cat(u, v)
           a == Len(u)
           b == Len(v)
           x == SubSeq(w, a + 1, Len(w))
<1>1. a \in Nat /\ b \in Nat /\ b # 0
  BY LenProperties
<1>2. w \in Seq(S) /\ Len(w) = a + b /\ \A i \in 1..b : w[a + i] = v[i]
  <2>1. IsCat(S, u, v)
    BY CatAt
  <2> QED BY <2>1 DEF IsCat
<1>3. a + b \in Nat /\ a <= a + b /\ a + b <= a + b /\ (a + b) - a = b /\ a + b # a
  <2> HIDE DEF a, b
  <2> QED BY <1>1
<1>4. IsPart(S, w, x, a, a + b)
  <2> HIDE DEF w, a, b
  <2> QED BY <1>1, <1>2, <1>3, PartIs
<1>5. x \in Seq(S) /\ Len(x) = b /\ \A i \in 1..b : x[i] = v[i]
  <2> HIDE DEF w, a, b, x
  <2> QED BY <1>2, <1>3, <1>4 DEF IsPart
<1>6. x = v
  <2> HIDE DEF x
  <2> QED BY <1>5, SameElements
<1> QED BY <1>2, <1>3, <1>6

LEMMA BothStarts ==
  ASSUME BothInit
  PROVE  BothInv
<1>1. /\ Init /\ parsed = NothingParsed /\ resp \in Responses /\ header = <<>> /\ pc = "head"
      /\ Extra \subseteq Nat
  BY HttpClientAssumption DEF BothInit, Init
<1>2. PICK n \in Extra \cup {0} : (prompt => n = 0) /\ wire = Encode(resp) \o [i \in 1..n |-> Byte]
  BY DEF BothInit, Init
<1>3. n \in Nat /\ wire = Stream(n)
  BY <1>1, <1>2 DEF Stream
<1>4. wire \in Seq(Token) /\ HeadLen \in Nat \ {0}
  <2>1. Stream(n) \in Seq(Token)
    BY <1>1, <1>3, StreamParts
  <2>2. HeadLen \in Nat /\ HeadLen = Len(HeaderOf(resp)) + 2 /\ Len(HeaderOf(resp)) \in Nat
    BY <1>1, <1>3, StreamParts
  <2>3. HeadLen # 0
    BY <2>2
  <2> QED BY <1>3, <2>1, <2>2, <2>3
<1>5. Len(wire) \in Nat
  BY <1>4, LenProperties
<1>6. Fed(n) = 0 /\ Fed(n) >= 0
  BY <1>3, <1>5 DEF Fed
<1>7. wire = Part(n, Fed(n), Len(Stream(n)))
  <2>1. SubSeq(wire, 1, Len(wire)) = wire
    BY <1>4, SubSeqWhole
  <2> QED BY <1>3, <1>6, <2>1 DEF Part
<1>8. <<>> = Part(n, 0, Fed(n))
  <2>1. SubSeq(wire, 1, 0) = <<>>
    BY <1>4, SubSeqNothing
  <2> QED BY <1>3, <1>6, <2>1 DEF Part
<1>9. PhaseInv(parsed, n, Fed(n))
  <2>1. parsed.phase = "header" /\ parsed.input = <<>> /\ parsed.result = <<>>
    BY <1>1 DEF NothingParsed
  <2>2. InHeader(parsed, n, Fed(n))
    BY <1>4, <1>6, <1>8, <2>1 DEF InHeader
  <2> QED BY <2>1, <2>2 DEF PhaseInv
<1>10. FedInv(n)
  BY <1>1, <1>2, <1>4, <1>6, <1>7, <1>8, <1>9 DEF FedInv
<1>11. parsed \in ParsedType
  <2>1. <<>> \in Seq(Token) /\ <<>> \in Seq(Data)
    OBVIOUS
  <2> QED BY <1>1, <2>1 DEF NothingParsed, ParsedType
<1>12. Inv
  BY <1>1, InitInv
<1> QED BY <1>1, <1>10, <1>11, <1>12 DEF BothInv, ReadInv, SuccessIsExact

\* A step that neither receives nor feeds.
LEMMA FedStays ==
  ASSUME UNCHANGED <<resp, prompt, wire, parsed>>, NEW n, FedInv(n),
         pc' # "done" => header' = header /\ pc # "done"
  PROVE  FedInv(n)'
<1>1. Fed(n)' = Fed(n) /\ Len(Stream(n))' = Len(Stream(n)) /\ \A a, b : Part(n, a, b)' = Part(n, a, b)
  BY DEF Fed, Stream, Part
<1>2. PhaseInv(parsed, n, Fed(n))'
  <2> DEFINE p == parsed
             fed == Fed(n)
  <2>1. p = parsed' /\ fed = Fed(n)' /\ PhaseInv(p, n, fed)
    BY <1>1 DEF FedInv
  <2> HIDE DEF p, fed
  <2> QED BY <2>1, PhaseKept
<1>3. Part(n, Fed(n), Len(Stream(n)))' = Part(n, Fed(n), Len(Stream(n)))
  BY DEF Fed, Stream, Part
<1>4. Part(n, 0, Fed(n))' = Part(n, 0, Fed(n))
  BY DEF Fed, Stream, Part
<1> QED BY <1>1, <1>2, <1>3, <1>4 DEF FedInv

LEMMA BothReads ==
  ASSUME BothInv, Read
  PROVE  BothInv'
<1>1. /\ Step /\ pc # "done" /\ UNCHANGED <<resp, prompt>>
      /\ parsed \in ParsedType /\ resp \in Responses /\ Inv
  BY StepReads DEF Read, BothInv, ReadInv
<1>2. PICK n \in Extra \cup {0} : FedInv(n)
  BY DEF BothInv
<1>3. n \in Nat
  BY HttpClientAssumption
<1>4. Inv'
  BY <1>1, NextInv DEF Next
<1>5. ReadInv'
  <2>1. SuccessIsExact'
    BY <1>4 DEF Inv, Place, SuccessIsExact
  <2> QED BY <1>1, <1>4, <2>1 DEF ReadInv
<1>6. CASE UNCHANGED <<header, wire>>
  <2>1. parsed' = parsed
    BY <1>6 DEF Read
  <2>2. FedInv(n)'
    BY <1>1, <1>2, <1>6, <2>1, FedStays
  <2> QED BY <1>1, <1>2, <1>5, <2>1, <2>2 DEF BothInv
<1>7. CASE ~UNCHANGED <<header, wire>>
  <2>1. PICK c \in Nat \ {0} : /\ c <= Len(wire)
                               /\ header' = header \o SubSeq(wire, 1, c)
                               /\ wire' = SubSeq(wire, c + 1, Len(wire))
    BY <1>1, <1>7, StepReads
  <2> DEFINE piece == SubSeq(wire, 1, c)
  <2>2. header \in Seq(Token) /\ wire \in Seq(Token)
    BY <1>1 DEF Inv, TypeOK
  <2>3. piece \in Seq(Token) /\ Len(piece) # 0
    <3>1. 1 \in Nat \ {0} /\ 1 <= c + 1 /\ c \in Nat /\ c - 1 + 1 # 0
      OBVIOUS
    <3>2. IsSubSeq(Token, wire, 1, c)
      BY <2>1, <2>2, <3>1, SubSeqAt
    <3> QED BY <3>1, <3>2 DEF IsSubSeq
  <2>4. header' = Cat(header, piece)
    BY <2>1 DEF Cat
  <2> HIDE DEF piece
  <2>5. header' # header /\ SubSeq(header', Len(header) + 1, Len(header')) = piece
    <3>1. Cat(header, piece) # header /\ SubSeq(Cat(header, piece), Len(header) + 1, Len(Cat(header, piece))) = piece
      BY <2>2, <2>3, Appended
    <3> QED BY <2>4, <3>1
  <2>6. parsed' = Feed(parsed, piece)
    BY <2>5 DEF Read
  <2>7. parsed' \in ParsedType /\ FedInv(n)'
    BY <1>1, <1>2, <1>3, <2>1, <2>4, <2>6, FedOn DEF piece
  <2> QED BY <1>2, <1>5, <2>7 DEF BothInv
<1> QED BY <1>6, <1>7

LEMMA BothFeeds ==
  ASSUME BothInv, FeedRest
  PROVE  BothInv'
<1>1. /\ pc = "done" /\ pc' = "done" /\ UNCHANGED <<resp, prompt, result, ret>>
      /\ parsed \in ParsedType /\ ReadInv
  BY DEF FeedRest, BothInv, peer
<1>2. PICK n \in Extra \cup {0} : FedInv(n)
  BY DEF BothInv
<1>3. n \in Nat
  BY HttpClientAssumption
<1>4. PICK c \in 1..Len(wire) : /\ parsed' = Feed(parsed, SubSeq(wire, 1, c))
                                /\ wire' = SubSeq(wire, c + 1, Len(wire))
  BY DEF FeedRest
<1>5. c \in Nat \ {0} /\ c <= Len(wire)
  <2>1. wire \in Seq(Token)
    BY <1>2 DEF FedInv
  <2>2. Len(wire) \in Nat
    BY <2>1, LenProperties
  <2> QED BY <2>2
<1>6. parsed' \in ParsedType /\ FedInv(n)'
  <2>1. resp \in Responses
    BY <1>1 DEF ReadInv
  <2> QED BY <1>1, <1>2, <1>3, <1>4, <1>5, <2>1, FedOn
<1>7. ReadInv'
  BY <1>1 DEF ReadInv, SuccessIsExact
<1> QED BY <1>2, <1>6, <1>7 DEF BothInv

LEMMA BothStays ==
  ASSUME BothInv, UNCHANGED allvars
  PROVE  BothInv'
<1>1. UNCHANGED <<resp, prompt, wire, header, pc, result, ret, parsed>> /\ UNCHANGED vars
  BY DEF allvars, vars, peer
<1>2. PICK n \in Extra \cup {0} : FedInv(n)
  BY DEF BothInv
<1>3. FedInv(n)'
  BY <1>1, <1>2, FedStays
<1>4. ReadInv'
  <2>1. (pc # "done" => Inv)'
    BY <1>1, StutterInv DEF BothInv, ReadInv
  <2> QED BY <1>1, <2>1 DEF BothInv, ReadInv, SuccessIsExact
<1> QED BY <1>1, <1>2, <1>3, <1>4 DEF BothInv

\* Wherever the stream is cut, the place of the parsers is known: what they
\* still hold is the part of the stream after the last chunk they decoded, or
\* the beginning of the header or of the body, and a response that can be
\* parsed ends with its last byte (http.cpp:266-356).
THEOREM ParsersKnowPlace == BothSpec => []BothInv
<1>1. BothInit => BothInv
  BY BothStarts
<1>2. BothInv /\ [BothNext]_allvars => BothInv'
  BY BothReads, BothFeeds, BothStays DEF BothNext, AllRead
<1> QED BY <1>1, <1>2, PTL DEF BothSpec

\* Whatever the sizes of the chunks and wherever the stream is cut, the
\* incremental parsers have decoded a prefix of the body, and all of it when
\* they return 0 (http.cpp:266-318).
THEOREM DecodedIsPrefix == BothSpec => []DecodedSoFar
<1>1. BothInv => DecodedSoFar
  <2> SUFFICES ASSUME BothInv PROVE DecodedSoFar
    OBVIOUS
  <2>1. PICK n \in Extra \cup {0} : FedInv(n)
    BY DEF BothInv
  <2>2. resp \in Responses /\ PhaseInv(parsed, n, Fed(n)) /\ parsed.phase \in {"header", "body", "done"}
    BY <2>1 DEF BothInv, ReadInv, FedInv, ParsedType
  <2>3. IsPrefix(<<>>, Body(resp))
    <3>1. Body(resp) \in Seq(Data)
      BY <2>2, BodyPieces
    <3> QED BY <3>1, PrefixEmpty
  <2>4. CASE parsed.phase = "header"
    BY <2>2, <2>3, <2>4 DEF PhaseInv, InHeader, DecodedSoFar
  <2>5. CASE parsed.phase = "body"
    <3>1. parsed.result = <<>> \/ \E k \in 0..Count : parsed.result = BodyOf(k)
      BY <2>2, <2>5 DEF PhaseInv, InBody, Count
    <3> QED BY <2>2, <2>3, <2>5, <3>1, BodyPrefix DEF DecodedSoFar
  <2>6. CASE parsed.phase = "done"
    BY <2>2, <2>6 DEF PhaseInv, Ended, DecodedSoFar
  <2> QED BY <2>2, <2>4, <2>5, <2>6
<1> QED BY <1>1, ParsersKnowPlace, PTL

\* A framed response is complete for the incremental parsers with its last
\* byte and not before, if the longest header they take is longer than its
\* framing line (http.cpp:277, 291-315, 320-356).
THEOREM EndsExactly ==
  ASSUME MAX_PARSED >= 3
  PROVE  BothSpec => []EndsWithResponse
<1>1. BothInv => EndsWithResponse
  <2> SUFFICES ASSUME BothInv, prompt, resp.kind # "neither"
               PROVE  /\ parsed.phase = "done" <=> wire = <<>>
                      /\ parsed.phase = "done" => parsed.ret = 0
    BY DEF EndsWithResponse
  <2>1. PICK n \in Extra \cup {0} : FedInv(n)
    BY DEF BothInv
  <2>2. /\ n = 0 /\ resp \in Responses /\ PhaseInv(parsed, n, Fed(n)) /\ wire \in Seq(Token)
        /\ parsed.phase \in {"header", "body", "done"}
    BY <2>1 DEF BothInv, ReadInv, FedInv, ParsedType
  <2>3. HeadLen = 3
    <3>1. resp.kind \in {"chunked", "length"}
      BY <2>2, ChunksType
    <3>2. Len(HeaderOf(resp)) = 1
      BY <3>1 DEF HeaderOf
    <3> QED BY <3>2 DEF HeadLen
  <2> DEFINE W == Len(Stream(n))
             E == Len(Encode(resp))
             F == Fed(n)
             l == Len(wire)
  <2>4. /\ F \in Nat /\ W \in Nat /\ l = W - F /\ E \in Nat /\ W = E + 0
        /\ E = HeadLen + Len(EncodeBody(resp)) /\ Len(EncodeBody(resp)) \in Nat
    <3>1. n \in Nat
      BY <2>2
    <3> QED BY <2>1, <2>2, <3>1, FedParts, EncodeLength, StreamParts
  <2>5. wire = <<>> <=> l = 0
    BY <2>2, EmptySeq
  <2>6. CASE parsed.phase = "done"
    <3>1. parsed.ret = 0 /\ F = W
      BY <2>2, <2>3, <2>6, HttpParseAssumption DEF PhaseInv, Ended
    <3> HIDE DEF l, W, F
    <3> QED BY <2>4, <2>5, <2>6, <3>1
  <2>7. CASE parsed.phase # "done"
    <3>1. F < HeadLen \/ F < E
      BY <2>2, <2>7 DEF PhaseInv, InHeader
    <3> HIDE DEF l, W, F, E
    <3>2. l # 0
      BY <2>3, <2>4, <3>1
    <3> QED BY <2>5, <2>7, <3>2
  <2> QED BY <2>6, <2>7
<1> QED BY <1>1, ParsersKnowPlace, PTL

\* readHttpResponse keeps its promises when its caller goes on reading the
\* stream (http.cpp:358-428).
THEOREM SuccessStaysExact == BothSpec => []SuccessIsExact
<1>1. BothInv => SuccessIsExact
  BY DEF BothInv, ReadInv
<1> QED BY <1>1, ParsersKnowPlace, PTL

\* The time budget is kept too, and no longer counts once the caller reads on
\* (http.cpp:99-107, 138-153, 203-214, 384-407).
THEOREM BudgetStaysShared == BothSpec => []BudgetIsShared
<1>1. BothInit => BudgetInv
  BY HttpClientAssumption DEF BothInit, Init, BudgetInv, BudgetIsShared
<1>2. BudgetInv /\ [BothNext]_allvars => BudgetInv'
  <2> SUFFICES ASSUME BudgetInv, [BothNext]_allvars PROVE BudgetInv'
    OBVIOUS
  <2>1. CASE Read
    BY <2>1, BudgetStep DEF Read, Next
  <2>2. CASE FeedRest
    BY <2>2 DEF FeedRest, BudgetInv, BudgetIsShared
  <2>3. CASE UNCHANGED allvars
    BY <2>3 DEF allvars, vars, BudgetInv, BudgetIsShared
  <2> QED BY <2>1, <2>2, <2>3 DEF BothNext, AllRead
<1>3. BudgetInv => BudgetIsShared
  BY DEF BudgetInv
<1> QED BY <1>1, <1>2, <1>3, PTL DEF BothSpec
=============================================================================
