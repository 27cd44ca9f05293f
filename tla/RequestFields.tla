---------------------------- MODULE RequestFields ----------------------------
(***************************************************************************)
(* The first half of Worker_Loader::parse_worker: the fields of a request. *)
(* The body is URL-decoded as a whole into a buffer of RequestBuf bytes;   *)
(* then the value of each key is looked for in the DECODED text, cut at    *)
(* the next '&', and decoded a second time.  ParseWorker adds what becomes *)
(* of the fields.                                                          *)
(*                                                                         *)
(* A text is a sequence of bytes (0..255).  A key's name, and the word     *)
(* "true", stand as one symbol each, above 255: the code only ever         *)
(* compares them whole, and none of their letters is special to a decoder. *)
(* The scanners are functions over the turns of their loops, so that the   *)
(* proofs can reason about them.                                           *)
(***************************************************************************)
EXTENDS Integers, SequencesExt

CONSTANTS RequestBuf,   \* sizeof(buf) of parse_worker: 2048
          FieldBuf,     \* sizeof(buf) - 1 of parse_content: 8191
          Values,       \* the values a client may give a field
          MaxFields     \* how many fields a client sends

ASSUME BuffersAssumption ==
    /\ RequestBuf \in Nat /\ RequestBuf > 1
    /\ FieldBuf \in Nat /\ FieldBuf > RequestBuf
    /\ MaxFields \in Nat

encode     == 256
type       == 257
deviceCxt  == 258
request    == 259
forcequery == 260
true       == 261

Names  == {encode, type, deviceCxt, request, forcequery}
Space  == 32
Escape == 37
And    == 38
Plus   == 43
Equals == 61

\* A text without NUL: the worker keeps a request as a C string.
Symbols == 1..true

ASSUME ValuesAssumption == Values \subseteq Seq(Symbols)

VARIABLES sent,      \* the fields the client sent, in order: <<name, value>>
          encodings, \* how many times the client URL-encoded each value
          body,      \* worker->request
          found      \* the result of parse_content for each name

fieldVars == <<sent, encodings, body, found>>

-----------------------------------------------------------------------------
(* The client: values URL-encoded and joined with '&'. *)

HexDigit(n) == IF n < 10 THEN 48 + n ELSE 55 + n

EncodeByte(c) ==
    IF c \in {Space, Escape, And, Plus, Equals}
    THEN <<Escape, HexDigit(c \div 16), HexDigit(c % 16)>>
    ELSE <<c>>

URLEncoded(v) == FlattenSeq([i \in DOMAIN v |-> EncodeByte(v[i])])

Encoded(v, times) == IF times = 1 THEN URLEncoded(v) ELSE URLEncoded(URLEncoded(v))

Field(f, times) == <<f[1], Equals>> \o Encoded(f[2], times)

Body(fields, times) ==
    FlattenSeq([i \in DOMAIN fields |->
                  (IF i = 1 THEN <<>> ELSE <<And>>) \o Field(fields[i], times)])

-----------------------------------------------------------------------------
(* url_utf8_decode *)

isxdigit(c) == c \in (48..57) \cup (65..70) \cup (97..102)

unhex(c) == IF c < 64 THEN c - 48 ELSE (c % 16) + 9

\* url[i], reading the terminating NUL one past the text.
At(text, i) == IF i <= Len(text) THEN text[i] ELSE 0

IsEscape(text, i, last) ==
    /\ text[i] = Escape
    /\ i + 2 <= last + 1            \* url + 2 <= url_end: may look one past the slice
    /\ isxdigit(At(text, i + 1))
    /\ isxdigit(At(text, i + 2))

\* The loop writes while dst_uri < dst_end = dst + max_len - 1.
RoomFor(dst, max_len) == Len(dst) < max_len - 1

\* One turn of the loop, which has read up to at and written dst.
DecodeTurn(text, last, max_len, q) ==
    LET i == q.at IN
    CASE i > last \/ ~RoomFor(q.dst, max_len) -> q
      [] i <= last /\ RoomFor(q.dst, max_len) /\ IsEscape(text, i, last) ->
            [at |-> i + 3, dst |-> Append(q.dst, 16 * unhex(text[i + 1]) + unhex(text[i + 2]))]
      [] OTHER ->
            [at |-> i + 1, dst |-> Append(q.dst, IF text[i] = Plus THEN Space ELSE text[i])]

\* The bytes first..last of text, decoded.  Each turn takes a byte or more,
\* so that there are no more than Len(text) of them.
url_utf8_decode(text, first, last, max_len) ==
    LET turns[k \in 0..Len(text)] ==
            IF k = 0 THEN [at |-> first, dst |-> <<>>]
            ELSE DecodeTurn(text, last, max_len, turns[k - 1])
    IN  turns[Len(text)].dst

\* A C string ends at its first NUL: std::string::operator=(const char*).
CString(bytes) ==
    LET nuls == {i \in 1..Len(bytes) : bytes[i] = 0}
    IN  IF nuls = {} THEN bytes ELSE SubSeq(bytes, 1, Min(nuls) - 1)

-----------------------------------------------------------------------------
(* parse_content *)

\* Where the value of a name starts: after its first occurrence, 0 when there is none.
KeyStart(text, name) ==
    LET at == {i \in 1..(Len(text) - 1) : text[i] = name /\ text[i + 1] = Equals}
    IN  IF at = {} THEN 0 ELSE Min(at) + 2

KeyEnd_FromStart(text, first) ==
    LET ends == {i \in 1..Len(text) : text[i] = And}
    IN  IF ends = {} THEN Len(text) ELSE Min(ends) - 1

\* The last byte of the value that starts at first: before the next '&', or the end.
KeyEnd(text, first) ==
    LET ends == {i \in first..Len(text) : text[i] = And}
    IN  IF ends = {} THEN Len(text) ELSE Min(ends) - 1

\* The value that starts at first.
FieldAt(text, first) == CString(url_utf8_decode(text, first, KeyEnd(text, first), FieldBuf))

parse_content_Last(text, name) ==
    LET at == {i \in 1..(Len(text) - 1) : text[i] = name /\ text[i + 1] = Equals}
    IN  IF at = {} THEN <<>> ELSE FieldAt(text, Max(at) + 2)

\* DEFAULT_SOURCE is the only source recv_request gives a worker, and
\* url_utf16_decode has the same body.
parse_content(text, name) ==
    IF KeyStart(text, name) = 0 THEN <<>> ELSE FieldAt(text, KeyStart(text, name))

-----------------------------------------------------------------------------
(* parse_worker *)

\* A decode of no byte leaves worker->request as it was.
SearchedText ==
    LET decoded == url_utf8_decode(body, 1, Len(body), RequestBuf)
    IN  IF decoded = <<>> THEN body ELSE CString(decoded)

\* The fields of the request
Fields == [n \in Names |-> parse_content(SearchedText, n)]

NoFields == [n \in Names |-> <<>>]

FieldsInit ==
    /\ sent = <<>> /\ encodings = 1 /\ body = <<>>
    /\ found = NoFields

ReceiveFields ==
    /\ sent = <<>>
    /\ \E k \in 1..MaxFields, t \in 1..2 :
          \E fields \in [1..k -> Names \X Values] :
             /\ sent' = fields
             /\ encodings' = t
             /\ body' = Body(fields, t)
    /\ UNCHANGED found

ParseFields(result) ==
    /\ body # <<>>
    /\ found' = result
    /\ body' = <<>>
    /\ UNCHANGED <<sent, encodings>>

RetrieveFields ==
    /\ sent # <<>> /\ body = <<>>
    /\ sent' = <<>> /\ encodings' = 1
    /\ found' = NoFields
    /\ UNCHANGED body

\* Whatever the rest of parse_worker does with the fields.
FieldsNext == ReceiveFields \/ ParseFields(Fields) \/ RetrieveFields

FieldsSpec == FieldsInit /\ [][FieldsNext]_fieldVars

-----------------------------------------------------------------------------
\* What the client meant by a name: the first field it sent under it.
Meant(n) ==
    LET at == {i \in DOMAIN sent : sent[i][1] = n}
    IN  IF at = {} THEN <<>> ELSE sent[Min(at)][2]

\* The text after the first of the two decodes, when nothing cuts it short.
OnceDecoded == Body(sent, 1)

Fits == encodings = 2 /\ Len(OnceDecoded) < RequestBuf

Parsed == body = <<>> /\ sent # <<>>

\* A value that both decodes leave alone and that cannot be taken for a
\* separator or for another key, so that encoding it once is enough.
Harmless(v) == \A i \in DOMAIN v : v[i] \notin {Escape, And, Plus, Equals}

\* parse_worker decodes twice, so a client that encodes each value twice gets
\* back every value, whatever bytes it holds: '&', '=', '%' and '+' and even
\* the text of another key stay inside their own field.  One encoding is
\* enough when no value holds one of those bytes.
FieldsRecovered ==
    Parsed /\ (Fits \/ (/\ Len(OnceDecoded) < RequestBuf
                        /\ \A i \in DOMAIN sent : Harmless(sent[i][2])))
    => \A n \in Names : found[n] = Meant(n)

\* A request longer than the 2048-byte buffer is cut: the fields past the cut
\* are lost, and the field it falls in keeps a beginning of its value, with
\* at most the two bytes of a cut escape behind it.  No field takes bytes of
\* another.
CutKeepsBeginnings ==
    Parsed /\ encodings = 2
    => \A n \in Names : \E k \in 0..Len(Meant(n)), g \in 0..2 :
          /\ k + g = Len(found[n])
          /\ SubSeq(found[n], 1, k) = SubSeq(Meant(n), 1, k)
=============================================================================
