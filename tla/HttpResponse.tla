---------------------------- MODULE HttpResponse ----------------------------
(***************************************************************************)
(* The responses that src/src/Worker/http.cpp reads, as sequences of       *)
(* tokens: CRLF, the header lines (the one that says how the body is       *)
(* framed), the size line of a chunk, and the bytes of the body, which may *)
(* be CRLFs too.                                                           *)
(***************************************************************************)
EXTENDS Integers, Sequences, SequencesExt

CONSTANTS MaxChunk,    \* bound: bytes in a chunk
          MaxChunks    \* bound: chunks in a body

ASSUME HttpResponseAssumption == MaxChunk \in Nat /\ MaxChunks \in Nat

CRLF == <<"crlf", 0>>
Byte == <<"byte", 0>>
TransferEncodingChunked == <<"Transfer-Encoding: chunked", 0>>
ContentLength(n) == <<"Content-Length:", n>>
Neither == <<"neither", 0>>
Size(n) == <<"hex", n>>

Bytes(lo, hi) == UNION {[1..n -> {Byte, CRLF}] : n \in lo..hi}

Responses ==
    [kind : {"chunked"}, chunks : UNION {[1..n -> Bytes(1, MaxChunk)] : n \in 0..MaxChunks}]
    \cup [kind : {"length", "neither"}, chunks : [1..1 -> Bytes(0, MaxChunk)]]

Body(r) == FlattenSeq(r.chunks)

HeaderOf(r) ==
    CASE r.kind = "chunked" -> <<TransferEncodingChunked>>
      [] r.kind = "length"  -> <<ContentLength(Len(Body(r)))>>
      [] r.kind = "neither" -> <<Neither, Neither>>

Chunk(b) == <<Size(Len(b)), CRLF>> \o b \o <<CRLF>>

EncodeBody(r) ==
    IF r.kind = "chunked"
    THEN FlattenSeq([i \in 1..Len(r.chunks) |-> Chunk(r.chunks[i])]) \o <<Size(0), CRLF, CRLF>>
    ELSE Body(r)

Encode(r) == HeaderOf(r) \o <<CRLF, CRLF>> \o EncodeBody(r)

\* std::string::find of "\r\n" and of "\r\n\r\n"; 0 stands for npos.
First(positions) ==
    IF positions = {} THEN 0 ELSE CHOOSE i \in positions : \A j \in positions : i <= j

FindCRLF(s, from) == First({i \in from..Len(s) : s[i] = CRLF})

FindEnd(s, from) == First({i \in from..(Len(s) - 1) : s[i] = CRLF /\ s[i + 1] = CRLF})

\* str_stream >> std::hex >> chunk_size: a line that is no number reads as 0.
ChunkSize(line) ==
    IF Len(line) > 0 /\ line[1][1] = "hex" THEN line[1][2] ELSE 0
=============================================================================
