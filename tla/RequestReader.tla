--------------------------- MODULE RequestReader ---------------------------
(***************************************************************************)
(* How Http_Server cuts requests out of a connection's byte stream:        *)
(* recv_request, read_http_header_timeout, GetInfo, readn_timeout and      *)
(* read_data of src/src/Worker/http_server.cpp, for one connection and the *)
(* one receiver that works on it (module HttpServer shows that there is    *)
(* only one).                                                              *)
(*                                                                         *)
(* The stream is a sequence of tokens: CRLF, a request's header text (one  *)
(* token), and what bodies are made of, which may be line ends and text    *)
(* that looks like a header too.  Of a token's text the model keeps what   *)
(* GetInfo's searches find in it.  Every read() returns some non-empty     *)
(* prefix of what is asked for.  Lengths count tokens.                     *)
(***************************************************************************)
EXTENDS Integers, Sequences, SequencesExt

CONSTANTS Alphabet,       \* the tokens bodies are made of
          MaxBody,        \* bound: length of a body
          MaxRequests,    \* bound: requests on the connection
          READ_BUF_SIZE   \* most tokens one read returns

\* A token's text; whether it holds "POST", and then in "POST /request" or in
\* another context; and the number behind a "Content-Length:" in it.
NoField == -1
Plain(text) == [text |-> text, post |-> "none", field |-> NoField]
CRLF == Plain("crlf")
NUL  == Plain("nul")

Silent(t) == t.post = "none" /\ t.field = NoField

ASSUME RequestReaderAssumption ==
    /\ MaxBody \in Nat
    /\ MaxRequests \in Nat
    /\ READ_BUF_SIZE \in Nat \ {0}
    /\ \A a \in Alphabet : a.field \in Nat \cup {NoField}

Bodies   == UNION {[1..n -> Alphabet] : n \in 0..MaxBody}
Requests == [valid : BOOLEAN, body : Bodies]

\* A request as the client writes it: one that is not valid asks for another
\* path than /request.
Header(q) == [text |-> "header",
              post |-> IF q.valid THEN "request" ELSE "other",
              field |-> Len(q.body)]
Encode(q) == <<Header(q), CRLF, CRLF>> \o q.body

VARIABLES
    todo,      \* what the client sends
    ahead,     \* whether it sends ahead of the answers
    nsent,     \* how many requests of todo it has sent
    wire,      \* bytes in the socket, not yet read
    buf,       \* _read_buf
    pc,        \* "idle", "header", "length", "body", "failed"
    length,    \* Content-Length of the request
    left,      \* what readn_timeout still has to read
    content,   \* worker->request so far
    delivered, \* the requests handed to submit_worker
    rejected   \* how many headers were invalid

vars == <<todo, ahead, nsent, wire, buf, pc, length, left, content, delivered, rejected>>
client == <<todo, ahead, nsent>>

Init ==
    /\ todo \in [1..MaxRequests -> Requests]
    /\ ahead \in BOOLEAN
    /\ nsent = 0
    /\ wire = <<>>
    /\ buf = <<>>
    /\ pc = "idle"
    /\ length = 0
    /\ left = 0
    /\ content = <<>>
    /\ delivered = <<>>
    /\ rejected = 0

\* Every request sent so far has been answered, which those that reach a loader
\* are.
Answered == Len(delivered) = nsent

ClientSend ==
    /\ nsent < Len(todo)
    /\ pc # "failed"
    /\ ahead \/ Answered
    /\ wire' = wire \o Encode(todo[nsent + 1])
    /\ nsent' = nsent + 1
    /\ UNCHANGED <<todo, ahead, buf, pc, length, left, content, delivered, rejected>>

\* epoll reports the connection only when the socket has something to read.
recv_request ==
    /\ pc = "idle"
    /\ wire # <<>>
    /\ pc' = "header"
    /\ UNCHANGED <<client, wire, buf, length, left, content, delivered, rejected>>

-----------------------------------------------------------------------------
(* read_http_header_timeout and GetInfo *)

\* buf[n] = '\0'; _buffer += buf: what follows a NUL in one read is dropped.
AppendCString(s, piece) ==
    LET nuls == {i \in 1..Len(piece) : piece[i] = NUL} IN
    s \o (IF nuls = {} THEN piece
          ELSE SubSeq(piece, 1, (CHOOSE i \in nuls : \A j \in nuls : i <= j) - 1))

\* _buffer.find("\r\n\r\n"): 0 if there is none.
HeaderEnd(s) ==
    LET ends == {i \in 1..(Len(s) - 1) : s[i] = CRLF /\ s[i + 1] = CRLF} IN
    IF ends = {} THEN 0 ELSE CHOOSE i \in ends : \A j \in ends : i <= j

\* GetInfo finds the first "POST" and the first "Content-Length:" of all the
\* text in front of the header's end, what is left of a rejected request's
\* body included.  The set has the length it returns; it is empty when the
\* header is rejected.
Posts(h)  == {i \in DOMAIN h : h[i].post # "none"}
Fields(h) == {i \in DOMAIN h : h[i].field # NoField}
IsFirst(i, s) == i \in s /\ \A j \in s : i <= j

GetInfo(h) ==
    {h[j].field : j \in
        {j \in Fields(h) : /\ IsFirst(j, Fields(h))
                           /\ \E i \in Posts(h) : IsFirst(i, Posts(h)) /\ h[i].post = "request"}}

HeaderText == SubSeq(buf, 1, HeaderEnd(buf) - 1)

header_read ==
    /\ pc = "header"
    /\ HeaderEnd(buf) = 0
    /\ \E n \in 1..READ_BUF_SIZE :
          /\ n <= Len(wire)
          /\ buf' = AppendCString(buf, SubSeq(wire, 1, n))
          /\ wire' = SubSeq(wire, n + 1, Len(wire))
    /\ UNCHANGED <<client, pc, length, left, content, delivered, rejected>>

\* What is left in the buffer after the header's end.
AfterHeader_KeepsEnd(s) == SubSeq(s, HeaderEnd(s) + 1, Len(s))
AfterHeader(s) == SubSeq(s, HeaderEnd(s) + 2, Len(s))

header_valid ==
    /\ pc = "header"
    /\ HeaderEnd(buf) # 0
    /\ length' \in GetInfo(HeaderText)
    /\ buf' = AfterHeader(buf)
    /\ pc' = "length"
    /\ UNCHANGED <<client, wire, left, content, delivered, rejected>>

\* "[Package Invalid]": the header is dropped and not answered, the connection
\* goes on, and so does the rest of the request: its body is read as the next
\* header's text.
header_invalid ==
    /\ pc = "header"
    /\ HeaderEnd(buf) # 0
    /\ GetInfo(HeaderText) = {}
    /\ buf' = AfterHeader(buf)
    /\ rejected' = rejected + 1
    /\ pc' = "idle"
    /\ UNCHANGED <<client, wire, length, left, content, delivered>>

-----------------------------------------------------------------------------
(* readn_timeout *)

\* The buffer holds more than the body.
body_buffered ==
    /\ pc = "length"
    /\ length < Len(buf)
    /\ delivered' = Append(delivered, SubSeq(buf, 1, length))
    /\ buf' = SubSeq(buf, length + 1, Len(buf))
    /\ pc' = "idle"
    /\ UNCHANGED <<client, wire, length, left, content, rejected>>

ClearBuffer_Forgotten == UNCHANGED buf
ClearBuffer == buf' = <<>>

body_start ==
    /\ pc = "length"
    /\ length >= Len(buf)
    /\ content' = buf
    /\ left' = length - Len(buf)
    /\ ClearBuffer
    /\ pc' = "body"
    /\ UNCHANGED <<client, wire, length, delivered, rejected>>

\* Never more than left is read: the next request stays in the socket.
ReadLimit == IF left > READ_BUF_SIZE THEN READ_BUF_SIZE ELSE left

body_read ==
    /\ pc = "body"
    /\ left > 0
    /\ \E n \in 1..ReadLimit :
          /\ n <= Len(wire)
          /\ content' = AppendCString(content, SubSeq(wire, 1, n))
          /\ wire' = SubSeq(wire, n + 1, Len(wire))
          /\ left' = left - n
    /\ UNCHANGED <<client, buf, pc, length, delivered, rejected>>

body_done ==
    /\ pc = "body"
    /\ left <= 0
    /\ delivered' = Append(delivered, content)
    /\ pc' = "idle"
    /\ UNCHANGED <<client, wire, buf, length, left, content, rejected>>

\* read_data fails: RECEIVE_TIMEOUT passes before the next bytes arrive, the
\* poll is interrupted, or the client has gone.  The connection is given up.
read_fails ==
    /\ \/ pc = "header" /\ HeaderEnd(buf) = 0
       \/ pc = "body" /\ left > 0
    /\ pc' = "failed"
    /\ UNCHANGED <<client, wire, buf, length, left, content, delivered, rejected>>

Read == header_read \/ body_read

Compute ==
    recv_request \/ header_valid \/ header_invalid \/ body_buffered \/ body_start \/ body_done

\* The client may be done, or gone, or wait for ever for an answer.
Terminated ==
    /\ pc = "failed" \/ (pc = "idle" /\ wire = <<>>)
    /\ UNCHANGED vars

Next == ClientSend \/ Compute \/ Read \/ read_fails \/ Terminated

Spec == Init /\ [][Next]_vars

\* The receiver runs, and the client sends what it has to send.
FairSpec == Spec /\ WF_vars(ClientSend) /\ WF_vars(Compute \/ Read \/ read_fails)

-----------------------------------------------------------------------------
(* Properties *)

\* The bodies of the good ones among the first n requests.
BodiesOf(n) ==
    LET bodies[i \in 0..Len(todo)] ==
            IF i = 0 THEN <<>>
            ELSE IF todo[i].valid THEN Append(bodies[i - 1], todo[i].body)
            ELSE bodies[i - 1]
    IN  bodies[n]

\* What the client writes for its first n requests.
StreamOf(n) == FlattenSeq([i \in 1..n |-> Encode(todo[i])])

\* No rejected request has "POST" or "Content-Length:" in its body.
Clean ==
    \A i \in 1..Len(todo) :
        todo[i].valid \/ \A j \in 1..Len(todo[i].body) : Silent(todo[i].body[j])

\* Requests are cut out of the stream whole, in order and without a byte of
\* their neighbours, however the reads split the stream, whatever is left in
\* _read_buf and whatever the bodies of good requests contain; after a rejected
\* request the next good one is found again, as long as the rejected one's body
\* holds no text of a header (http_server.cpp:265-303, 381-454).
DeliveredInOrder == Clean => IsPrefix(delivered, BodiesOf(nsent))

\* Between two requests no byte is lost or read twice: _read_buf and the
\* socket together hold the end of what was sent (http_server.cpp:413,
\* :437-441), also where the wrong text was taken for a header.
StreamConserved ==
    pc = "idle" => IsSuffix(buf \o wire, StreamOf(nsent))

\* The requests in front of the first one that is rejected.
Accepted == {n \in 0..Len(todo) : \A i \in 1..n : todo[i].valid}

\* A client that waits for its answers gets every request through, up to one
\* that is rejected and never answered (http_server.cpp:288-295), or a failed
\* read ends the connection.
EveryRequestDelivered ==
    ~ahead => <>(pc = "failed" \/ delivered = BodiesOf(Max(Accepted)))
=============================================================================
