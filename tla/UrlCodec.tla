------------------------------ MODULE UrlCodec ------------------------------
(***************************************************************************)
(* URLDecode, URLEncode and add_param of src/src/Worker/http.cpp: the      *)
(* client's own coding of a parameter, on texts that are sequences of      *)
(* bytes.                                                                  *)
(***************************************************************************)
EXTENDS Integers, SequencesExt

char2num(ch) ==
    CASE ch \in 48..57  -> ch - 48
      [] ch \in 97..102 -> ch - 87
      [] ch \in 65..70  -> ch - 55
      [] OTHER          -> -1

\* '%' and two digits behind it.
EscapeAt(s, i) ==
    s[i] = 37 /\ i + 2 <= Len(s) /\ char2num(s[i + 1]) # -1 /\ char2num(s[i + 2]) # -1

\* One turn of the loop, which has read up to at and written output.
UrlTurn(s, q) ==
    CASE q.at > Len(s) -> q
      [] q.at <= Len(s) /\ EscapeAt(s, q.at) ->
            [at |-> q.at + 3,
             output |-> Append(q.output, 16 * char2num(s[q.at + 1]) + char2num(s[q.at + 2]))]
      [] OTHER ->
            [at |-> q.at + 1, output |-> Append(q.output, IF s[q.at] = 43 THEN 32 ELSE s[q.at])]

\* Each turn takes a byte or more, so that there are no more than Len(s).
URLDecode(s) ==
    LET turns[k \in 0..Len(s)] ==
            IF k = 0 THEN [at |-> 1, output |-> <<>>] ELSE UrlTurn(s, turns[k - 1])
    IN  turns[Len(s)].output

\* snprintf "%%%.2X": every byte is escaped.
HexByte(c) ==
    LET Digit(n) == IF n < 10 THEN 48 + n ELSE 55 + n
    IN  <<37, Digit(c \div 16), Digit(c % 16)>>

URLEncode(s, output) == output \o FlattenSeq([i \in DOMAIN s |-> HexByte(s[i])])

URLCode(s) == URLEncode(s, <<>>)

add_param(content, key, value) == content \o key \o URLEncode(value, <<>>)
=============================================================================
