-------------------------- MODULE RequestReaderInv --------------------------
(***************************************************************************)
(* The inductive invariant of RequestReader, for bodies without NUL: the   *)
(* buffer and the socket hold the rest of the stream, and as long as no    *)
(* rejected request's body holds text of a header, the receiver is at a    *)
(* known place of it.  That place is given by the number k of requests     *)
(* that are dealt with; the bodies of the good ones among them are what    *)
(* was delivered.                                                          *)
(***************************************************************************)
EXTENDS RequestReader

Headers == {Header(q) : q \in Requests}
Token   == Alphabet \cup Headers \cup {CRLF}

TypeOK ==
    /\ todo \in [1..MaxRequests -> Requests]
    /\ ahead \in BOOLEAN
    /\ nsent \in 0..MaxRequests
    /\ wire \in Seq(Token)
    /\ buf \in Seq(Token)
    /\ pc \in {"idle", "header", "length", "body", "failed"}
    /\ length \in Nat
    /\ left \in Nat
    /\ content \in Seq(Token)
    /\ delivered \in Seq(Seq(Token))
    /\ rejected \in Nat

\* Where request n ends in the stream, and how far the receiver has come.
End(n) == Len(StreamOf(n))
At == End(nsent) - Len(buf) - Len(wire)

\* The buffer and the socket hold the rest of the stream.
RestInv ==
    /\ At >= 0
    /\ \A i \in 1..Len(buf) : buf[i] = StreamOf(nsent)[At + i]
    /\ \A i \in 1..Len(wire) : wire[i] = StreamOf(nsent)[At + Len(buf) + i]

\* Between two requests, or in the body of a rejected one, whose end the
\* receiver cannot know.
Between(k) ==
    /\ k = 0 => At = 0
    /\ k > 0 => /\ End(k - 1) + 3 <= At
                /\ At <= End(k)
                /\ At < End(k) => ~todo[k].valid

\* In request k + 1, n bytes into its body.
Inside(k, n) ==
    /\ k < nsent
    /\ todo[k + 1].valid
    /\ length = Len(todo[k + 1].body)
    /\ At = End(k) + 3 + n

Place(k) ==
    /\ delivered = BodiesOf(k)
    /\ pc \in {"idle", "header"} => Between(k)
    /\ pc = "length" => Inside(k, 0)
    /\ pc = "body" => /\ Inside(k, length - left)
                      /\ left <= length
                      /\ content = SubSeq(todo[k + 1].body, 1, length - left)

Inv ==
    /\ TypeOK
    /\ RestInv
    /\ pc = "body" => buf = <<>>
    /\ Clean => \E k \in 0..nsent : Place(k)
=============================================================================
