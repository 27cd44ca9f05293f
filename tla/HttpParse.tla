------------------------------ MODULE HttpParse ------------------------------
(***************************************************************************)
(* The parsers of src/src/Worker/http.cpp for callers that do their own    *)
(* reading: ParseHttpHeader, ParseHttpContentLength and                    *)
(* ParseHttpContentChunk.  The caller, which is not in the repository,     *)
(* appends what it receives to input and calls the parser of the current   *)
(* phase until it stops returning 1 ("not yet").                           *)
(***************************************************************************)
EXTENDS HttpResponse

CONSTANT MAX_PARSED  \* the longest header: 10240

ASSUME HttpParseAssumption == MAX_PARSED \in Nat

Lengths(header) == {n \in 0..MaxChunk : ContentLength(n) \in Range(header)}

ParseHttpHeader(in) ==
    LET end == FindEnd(in, 1)
        header == SubSeq(in, 1, end + 1)
        chunked == TransferEncodingChunked \in Range(header)
        unframed == ~chunked /\ Lengths(header) = {}
        Return(r) == [ret |-> r, input |-> in, length |-> -1]
    IN  CASE end = 0 -> Return(IF Len(in) > MAX_PARSED THEN -1 ELSE 1)
          [] end # 0 /\ (end + 1 > MAX_PARSED \/ unframed) -> Return(-1)
          [] OTHER ->
                [ret    |-> 0,
                 input  |-> SubSeq(in, end + 2, Len(in)),
                 length |-> IF chunked THEN -1 ELSE CHOOSE n \in Lengths(header) : TRUE]

ParseHttpContentLength(in, n) ==
    IF n < 0 \/ Len(in) > n THEN -1 ELSE IF Len(in) < n THEN 1 ELSE 0

\* Whole chunks move from the input to the result; the rest stays.
ChunkIsWhole_NoCRLF(in, end, n) == end + n <= Len(in)
ChunkIsWhole(in, end, n) == end + n + 1 <= Len(in)

\* The empty line after the last chunk has arrived.
LastChunkEnds_Early(in) == FindCRLF(in, 1) # 0
LastChunkEnds(in) == FindEnd(in, 1) # 0

SizeEnd(in) == FindCRLF(in, 1)
SizeSaid(in) == ChunkSize(SubSeq(in, 1, SizeEnd(in) - 1))

HasChunk(in) ==
    SizeEnd(in) # 0 /\ SizeSaid(in) # 0 /\ ChunkIsWhole(in, SizeEnd(in), SizeSaid(in))

\* One turn of the loop.
Turn(q) ==
    LET end == SizeEnd(q.input)
        n == SizeSaid(q.input)
    IN  IF HasChunk(q.input)
        THEN [input |-> SubSeq(q.input, end + n + 2, Len(q.input)),
              result |-> q.result \o SubSeq(q.input, end + 1, end + n)]
        ELSE q

\* Each turn but the last takes some of the input, so that there are no more
\* than Len(in) of them.
ParseHttpContentChunk(in, res) ==
    LET turns[k \in 0..Len(in)] ==
            IF k = 0 THEN [input |-> in, result |-> res] ELSE Turn(turns[k - 1])
        q == turns[Len(in)]
        ended == SizeEnd(q.input) # 0 /\ SizeSaid(q.input) = 0 /\ LastChunkEnds(q.input)
    IN  [ret |-> IF ended THEN 0 ELSE 1, input |-> q.input, result |-> q.result]

-----------------------------------------------------------------------------
(* The caller: it gives every piece it receives to the parser of its phase. *)

\* length is -1 for a chunked body, and ret what the last call returned.
NothingParsed == [phase |-> "header", input |-> <<>>, length |-> -1, result |-> <<>>, ret |-> 1]

\* A parser that returns 1 is called again with more input, one that returns
\* 0 hands over to the next phase, and -1 ends it.
Returned(p, r, next) ==
    [p EXCEPT !.ret = r, !.phase = CASE r = 1 -> @ [] r = 0 -> next [] OTHER -> "done"]

CallHeader(p) ==
    LET q == ParseHttpHeader(p.input) IN
    Returned([p EXCEPT !.input = q.input, !.length = q.length], q.ret, "body")

CallContentLength(p) == Returned(p, ParseHttpContentLength(p.input, p.length), "done")

CallContentChunk(p) ==
    LET q == ParseHttpContentChunk(p.input, p.result) IN
    Returned([p EXCEPT !.input = q.input, !.result = q.result], q.ret, "done")

CallBody(p) == IF p.length >= 0 THEN CallContentLength(p) ELSE CallContentChunk(p)

Feed(p, piece) ==
    LET more == [p EXCEPT !.input = @ \o piece]
        headed == IF p.phase = "header" THEN CallHeader(more) ELSE more
    IN  CASE p.phase = "done"      -> p
          [] headed.phase = "body" -> CallBody(headed)
          [] OTHER                 -> headed
=============================================================================
