----------------------------- MODULE HttpClient -----------------------------
(***************************************************************************)
(* readHttpResponse of src/src/Worker/http.cpp, with readHttpIs_Chunk,     *)
(* readHttpConten_Length and read_nReal_timeout: a response is read from a *)
(* stream within one time budget.  Every recv returns some non-empty       *)
(* prefix of what it asks for and takes some time, or fails.  A recv that  *)
(* fails stands for an error, for the end of the stream, for an expired    *)
(* timeout, and for a clock that was set back (t2 < t1), which the code    *)
(* treats in the same way.                                                 *)
(***************************************************************************)
EXTENDS HttpResponse

CONSTANTS Extra,      \* numbers of stray bytes that may follow a response
          Budget,     \* the caller's *timeout
          Elapsed,    \* what one recv may take
          BUF_SIZE,   \* sizeof(buf), 20480
          MAX_HEADER  \* 4096

ASSUME HttpClientAssumption ==
    /\ Extra \subseteq Nat
    /\ Budget \in Nat
    /\ Elapsed \subseteq Nat
    /\ BUF_SIZE \in Nat \ {0}
    /\ MAX_HEADER \in Nat

VARIABLES
    resp,      \* the response under way
    prompt,    \* whether the peer is quick, exact and does not fail
    wire,      \* what is left of it in the stream
    header,    \* all that was received
    timeout,   \* *timeout
    spent,     \* the time that has passed
    pc,        \* "head", "frame", "size", "fill", "last", "done"
    hlen,      \* header_length
    pos,       \* pos_num
    start,     \* pos_chunk_start
    need,      \* remain of read_nReal_timeout, less what it has
    result,
    ret

peer == <<resp, prompt>>
vars == <<peer, wire, header, timeout, spent, pc, hlen, pos, start, need, result, ret>>

Init ==
    /\ resp \in Responses
    /\ prompt \in BOOLEAN
    /\ \E n \in IF prompt THEN {0} ELSE Extra : wire = Encode(resp) \o [i \in 1..n |-> Byte]
    /\ header = <<>>
    /\ timeout = Budget
    /\ spent = 0
    /\ pc = "head"
    /\ hlen = 0 /\ pos = 0 /\ start = 0 /\ need = 0
    /\ result = <<>>
    /\ ret = -1

\* What a recv may take.
Delays == IF prompt THEN {0} ELSE Elapsed

\* A recv of at most max tokens that takes the time t.
recv(max, t) ==
    /\ \E n \in 1..max :
          /\ n <= Len(wire)
          /\ header' = header \o SubSeq(wire, 1, n)
          /\ wire' = SubSeq(wire, n + 1, Len(wire))
    /\ spent' = spent + t

\* if (t >= *timeout) *timeout = zero; else *timeout -= t;
Spend_PerRecv(t) == timeout' = timeout
Spend(t) == timeout' = IF t >= timeout THEN 0 ELSE timeout - t

\* The same without the else: the time is taken off in both cases.
SpendLast(t) == timeout' = (IF t >= timeout THEN 0 ELSE timeout) - t

Finish(r) == pc' = "done" /\ ret' = r
Stay == UNCHANGED <<pc, ret>>

-----------------------------------------------------------------------------
(* readHttpResponse *)

head_recv ==
    /\ pc = "head"
    /\ \E t \in Delays : recv(BUF_SIZE, t) /\ Spend(t)
    /\ LET end == FindEnd(header', 1) IN
          \/ /\ end # 0
             /\ hlen' = end + 1
             /\ pc' = "frame"
             /\ UNCHANGED ret
          \/ /\ end = 0
             /\ IF Len(header') > MAX_HEADER \/ timeout' = 0 THEN Finish(-1) ELSE Stay
             /\ UNCHANGED hlen
    /\ UNCHANGED <<peer, pos, start, need, result>>

Framing == Range(SubSeq(header, 1, hlen))

\* "Transfer-Encoding: chunked" wins over "Content-Length:".
frame_chunked ==
    /\ pc = "frame"
    /\ TransferEncodingChunked \in Framing
    /\ pos' = hlen + 1
    /\ pc' = "size"
    /\ UNCHANGED <<peer, wire, header, timeout, spent, hlen, start, need, result, ret>>

\* remain, the bytes still to come, are waited for if the buffer takes them.
Remain(last) ==
    /\ last > Len(header)
    /\ \/ last - Len(header) > BUF_SIZE /\ need' = 0 /\ Finish(-1)
       \/ /\ last - Len(header) <= BUF_SIZE
          /\ need' = last - Len(header)
          /\ pc' = "fill"
          /\ UNCHANGED ret
    /\ UNCHANGED result

TakeAll(h) == Finish(0) /\ result' = SubSeq(h, hlen + 1, Len(h))

\* readHttpConten_Length: more than the promised bytes is an error.
frame_length ==
    /\ pc = "frame"
    /\ TransferEncodingChunked \notin Framing
    /\ \E n \in 0..MaxChunk :
          /\ ContentLength(n) \in Framing
          /\ \/ Remain(hlen + n)
             \/ Len(header) = hlen + n /\ need' = 0 /\ TakeAll(header)
             \/ Len(header) > hlen + n /\ need' = 0 /\ Finish(-1) /\ UNCHANGED result
    /\ UNCHANGED <<peer, wire, header, timeout, spent, hlen, pos, start>>

frame_neither ==
    /\ pc = "frame"
    /\ TransferEncodingChunked \notin Framing
    /\ \A n \in 0..MaxChunk : ContentLength(n) \notin Framing
    /\ Finish(-1)
    /\ UNCHANGED <<peer, wire, header, timeout, spent, hlen, pos, start, need, result>>

-----------------------------------------------------------------------------
(* readHttpIs_Chunk *)

size_recv ==
    /\ pc = "size"
    /\ FindCRLF(header, pos) = 0
    /\ \E t \in Delays : recv(BUF_SIZE, t) /\ Spend(t)
    /\ IF FindCRLF(header', pos) = 0 /\ timeout' = 0 THEN Finish(-1) ELSE Stay
    /\ UNCHANGED <<peer, hlen, pos, start, need, result>>

\* The data and the CRLF that follows it.
NextChunk_NoCRLF(s, n) == s + n + 1
NextChunk(s, n) == s + n + 2

TakeChunk(h, s, n) == pc' = "size" /\ result' = result \o SubSeq(h, s + 1, s + n) /\ UNCHANGED ret

LineEnd == FindCRLF(header, pos)
SizeHere == ChunkSize(SubSeq(header, pos, LineEnd - 1))

chunk_start ==
    /\ pc = "size"
    /\ LineEnd # 0
    /\ SizeHere # 0
    /\ start' = LineEnd
    /\ pos' = NextChunk(LineEnd, SizeHere)
    /\ \/ Remain(NextChunk(LineEnd, SizeHere) - 1)
       \/ Len(header) >= NextChunk(LineEnd, SizeHere) - 1 /\ need' = 0 /\ TakeChunk(header, LineEnd, SizeHere)
    /\ UNCHANGED <<peer, wire, header, timeout, spent, hlen>>

chunk_last ==
    /\ pc = "size"
    /\ LineEnd # 0
    /\ SizeHere = 0
    /\ start' = LineEnd
    /\ pc' = "last"
    /\ UNCHANGED <<peer, wire, header, timeout, spent, hlen, pos, need, result, ret>>

last_found ==
    /\ pc = "last"
    /\ FindEnd(header, start) # 0
    /\ Finish(0)
    /\ UNCHANGED <<peer, wire, header, timeout, spent, hlen, pos, start, need, result>>

last_recv ==
    /\ pc = "last"
    /\ FindEnd(header, start) = 0
    /\ \E t \in Delays : recv(BUF_SIZE, t) /\ SpendLast(t)
    /\ IF FindEnd(header', start) = 0 /\ timeout' = 0 THEN Finish(-1) ELSE Stay
    /\ UNCHANGED <<peer, hlen, pos, start, need, result>>

-----------------------------------------------------------------------------
(* read_nReal_timeout, and what its two callers do with what it read *)

\* Bytes that arrive as the budget runs out are not counted: the call returns
\* too few, even if they are the last.
fill_late ==
    /\ pc = "fill"
    /\ \E t \in Delays : t >= timeout /\ recv(need, t)
    /\ timeout' = 0
    /\ Finish(-1)
    /\ UNCHANGED <<peer, hlen, pos, start, need, result>>

FillLimit == need

fill_recv ==
    /\ pc = "fill"
    /\ \E t \in Delays : t < timeout /\ recv(FillLimit, t) /\ Spend(t)
    /\ need' = need - (Len(header') - Len(header))
    /\ \/ /\ need' > 0
          /\ Stay
          /\ UNCHANGED result
       \/ /\ need' <= 0
          /\ IF TransferEncodingChunked \in Framing
             THEN TakeChunk(header', start, pos - 2 - start)
             ELSE TakeAll(header')
    /\ UNCHANGED <<peer, hlen, pos, start>>

recv_fails ==
    /\ ~prompt
    /\ \/ pc \in {"head", "fill"}
       \/ pc = "size" /\ LineEnd = 0
       \/ pc = "last" /\ FindEnd(header, start) = 0
    /\ \E t \in Delays : spent' = spent + t
    /\ Finish(-1)
    /\ UNCHANGED <<peer, wire, header, timeout, hlen, pos, start, need, result>>

Terminated == pc = "done" /\ UNCHANGED vars

Step ==
    \/ head_recv \/ frame_chunked \/ frame_length \/ frame_neither
    \/ size_recv \/ chunk_start \/ chunk_last \/ last_found \/ last_recv
    \/ fill_late \/ fill_recv \/ recv_fails

Next == Step \/ Terminated

Spec == Init /\ [][Next]_vars

-----------------------------------------------------------------------------
(* Properties *)

\* A response that is reported as complete is exact: no split into recvs, no
\* stray byte and no CRLF inside the data makes readHttpResponse return 0
\* with a wrong result (http.cpp:113-264, 358-428).
SuccessIsExact == pc = "done" /\ ret = 0 => result = Body(resp)

\* The budget is for the whole response: what is left of *timeout is never
\* more than the caller gave less the time that has passed (http.cpp:99-107,
\* 138-153, 203-214, 384-407).
BudgetIsShared ==
    pc # "done" =>
        timeout <= (IF spent >= Budget THEN 0 ELSE Budget - spent)

\* The buffer takes every chunk with its line end, or the whole body.
Fits == \A i \in 1..Len(resp.chunks) : Len(resp.chunks[i]) + 2 <= BUF_SIZE

\* If the peer delivers in time, the whole response is read, however it is
\* split (http.cpp:358-428).
EveryResponseRead ==
    <>(/\ pc = "done"
       /\ prompt /\ Fits /\ resp.kind # "neither" => ret = 0 /\ result = Body(resp))
=============================================================================
