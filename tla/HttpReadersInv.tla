--------------------------- MODULE HttpReadersInv ---------------------------
(***************************************************************************)
(* The inductive invariant of HttpReaders.  readHttpResponse is where      *)
(* HttpClientInv says, until it has returned; the incremental parsers are  *)
(* at a place of the stream that the number of tokens they were fed gives. *)
(***************************************************************************)
EXTENDS HttpReaders, HttpClientInv

ParsedType ==
    [phase : {"header", "body", "done"}, input : Seq(Token), length : Int,
     result : Seq(Data), ret : {-1, 0, 1}]

\* What the parsers have been fed: all that is no more in the stream.
Fed(n) == Len(Stream(n)) - Len(wire)

\* The tokens of the stream after the first a, up to number b.
Part(n, a, b) == SubSeq(Stream(n), a + 1, b)

\* The end of the header has not been seen.
InHeader(p, n, fed) ==
    /\ fed < HeadLen
    /\ p.input = Part(n, 0, fed)
    /\ p.result = <<>>

\* The body from its beginning, or from the first chunk that is not whole.
InBody(p, n, fed) ==
    \/ /\ resp.kind = "length"
       /\ p.length = Len(Body(resp))
       /\ p.input = Part(n, HeadLen, fed)
       /\ p.result = <<>>
    \/ /\ resp.kind = "chunked"
       /\ p.length = -1
       /\ \E k \in 0..Len(resp.chunks) :
             /\ EndOf(k) <= fed
             /\ p.input = Part(n, EndOf(k), fed)
             /\ p.result = BodyOf(k)

\* A response without stray bytes that has a framing is accepted with its
\* last token.
Ended(p, n, fed) ==
    /\ IsPrefix(p.result, Body(resp))
    /\ p.ret = 0 => Body(resp) = IF resp.kind = "chunked" THEN p.result ELSE p.input
    /\ n = 0 /\ resp.kind # "neither" /\ HeadLen <= MAX_PARSED =>
          p.ret = 0 /\ fed = Len(Stream(n))

PhaseInv(p, n, fed) ==
    /\ p.phase = "header" => InHeader(p, n, fed)
    /\ p.phase = "body" =>
          HeadLen <= fed /\ fed < Len(Encode(resp)) /\ InBody(p, n, fed)
    /\ p.phase = "done" => Ended(p, n, fed)

\* The stream has n stray bytes.
FedInv(n) ==
    /\ prompt => n = 0
    /\ wire \in Seq(Token)
    /\ Fed(n) >= 0
    /\ wire = Part(n, Fed(n), Len(Stream(n)))
    /\ pc # "done" => header = Part(n, 0, Fed(n))
    /\ PhaseInv(parsed, n, Fed(n))

\* Once readHttpResponse has returned, what it has left of the stream is read
\* by others, and all there is to say is whether its result was right.
ReadInv ==
    /\ resp \in Responses
    /\ pc # "done" => Inv
    /\ SuccessIsExact

BothInv ==
    /\ parsed \in ParsedType
    /\ ReadInv
    /\ \E n \in Extra \cup {0} : FedInv(n)
=============================================================================
