---------------------------- MODULE HttpClientInv ----------------------------
(***************************************************************************)
(* The inductive invariant of HttpClient: what was received is the         *)
(* beginning of what the peer sent, and hlen, pos, start and need are      *)
(* where the parts of that response really begin and end.                  *)
(***************************************************************************)
EXTENDS HttpClient

Data  == {Byte, CRLF}
Token == Data \cup {TransferEncodingChunked, Neither}
              \cup {ContentLength(n) : n \in Nat} \cup {Size(n) : n \in Nat}

TypeOK ==
    /\ resp \in Responses
    /\ prompt \in BOOLEAN
    /\ wire \in Seq(Token)
    /\ header \in Seq(Token)
    /\ timeout \in Int
    /\ spent \in Nat
    /\ pc \in {"head", "frame", "size", "fill", "last", "done"}
    /\ result \in Seq(Data)

\* What the peer sends: the response and n stray bytes.
Stream(n) == Encode(resp) \o [i \in 1..n |-> Byte]

RestInv(n) ==
    /\ Len(header) + Len(wire) = Len(Stream(n))
    /\ \A i \in 1..Len(header) : header[i] = Stream(n)[i]
    /\ \A i \in 1..Len(wire) : wire[i] = Stream(n)[Len(header) + i]

\* Where the header ends, where chunk k ends, and the data of k chunks.
HeadLen   == Len(HeaderOf(resp)) + 2
EndOf(k)  == HeadLen + Len(FlattenSeq([i \in 1..k |-> Chunk(resp.chunks[i])]))
BodyOf(k) == FlattenSeq([i \in 1..k |-> resp.chunks[i]])

\* k chunks have been taken, and the size line of the next one comes next.
AtSize(k) ==
    /\ pos = EndOf(k) + 1
    /\ pos <= Len(header) + 1
    /\ result = BodyOf(k)

\* Chunk k + 1 is being read, and lacks need bytes.
InChunk(k) ==
    /\ start = EndOf(k) + 2
    /\ pos = EndOf(k + 1) + 1
    /\ need = EndOf(k + 1) - Len(header)
    /\ result = BodyOf(k)

InLength ==
    /\ resp.kind = "length"
    /\ need = hlen + Len(Body(resp)) - Len(header)

Place ==
    /\ pc \in {"head", "frame"} => result = <<>>
    /\ pc \notin {"head", "done"} => hlen = HeadLen /\ hlen <= Len(header)
    /\ pc \in {"size", "last"} => resp.kind = "chunked"
    /\ pc = "size" => \E k \in 0..Len(resp.chunks) : AtSize(k)
    /\ pc = "fill" => /\ need \in Nat
                      /\ \/ InLength
                         \/ /\ resp.kind = "chunked"
                            /\ \E k \in 0..(Len(resp.chunks) - 1) : InChunk(k)
    /\ pc = "last" => result = Body(resp)
    /\ pc = "done" /\ ret = 0 => result = Body(resp)

Inv == TypeOK /\ (\E n \in Extra \cup {0} : RestInv(n)) /\ Place
=============================================================================
