--------------------------- MODULE MCRequestReader ---------------------------
(* Instances of RequestReader for TLC. *)
EXTENDS RequestReaderInv

\* Text that belongs in a header.
Field == [text |-> "Content-Length: 0", post |-> "none", field |-> 0]

\* Bound: four body tokens in all requests together.
FewTokens == Len(FlattenSeq([i \in 1..Len(todo) |-> todo[i].body])) <= 4

Text   == {Plain("x"), CRLF, Field}
Binary == {Plain("x"), NUL}
=============================================================================
