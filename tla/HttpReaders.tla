----------------------------- MODULE HttpReaders -----------------------------
(***************************************************************************)
(* The two ways in which src/src/Worker/http.cpp reads a response, on the  *)
(* same stream: readHttpResponse (HttpClient), which does its own recvs,   *)
(* and the incremental parsers (HttpParse), which a caller feeds.  The     *)
(* parsers get every piece that a recv returns, and what is left of the    *)
(* stream when readHttpResponse has returned.                              *)
(***************************************************************************)
EXTENDS HttpClient, HttpParse

VARIABLE parsed    \* the state of the caller of the incremental parsers

allvars == <<vars, parsed>>

BothInit == Init /\ parsed = NothingParsed

\* A step of readHttpResponse; a recv that takes a piece feeds the parsers.
Read ==
    /\ Step
    /\ parsed' = IF header' = header THEN parsed
                 ELSE Feed(parsed, SubSeq(header', Len(header) + 1, Len(header')))

\* The caller goes on reading by itself.
FeedRest ==
    /\ pc = "done"
    /\ \E n \in 1..Len(wire) :
          /\ parsed' = Feed(parsed, SubSeq(wire, 1, n))
          /\ wire' = SubSeq(wire, n + 1, Len(wire))
    /\ UNCHANGED <<peer, header, timeout, spent, pc, hlen, pos, start, need, result, ret>>

AllRead == pc = "done" /\ wire = <<>> /\ UNCHANGED allvars

BothNext == Read \/ FeedRest \/ AllRead

\* The calling thread runs, and the peer delivers what it has sent.
BothSpec == BothInit /\ [][BothNext]_allvars /\ WF_vars(Step)

-----------------------------------------------------------------------------
(* Properties *)

\* The incremental parsers may be called on any split of the response: what
\* they have decoded is a prefix of the body, and all of it when they return
\* 0 (http.cpp:266-318).
DecodedSoFar ==
    /\ IsPrefix(parsed.result, Body(resp))
    /\ parsed.phase = "done" /\ parsed.ret = 0 =>
          Body(resp) = IF resp.kind = "chunked" THEN parsed.result ELSE parsed.input

\* They end neither early nor late: a response with a framing they know is
\* complete when its last byte has been parsed, and not before
\* (http.cpp:277, 291-315, 320-356).
EndsWithResponse ==
    prompt /\ resp.kind # "neither" =>
        /\ parsed.phase = "done" <=> wire = <<>>
        /\ parsed.phase = "done" => parsed.ret = 0
=============================================================================
