------------------------------- MODULE Base64 -------------------------------
(***************************************************************************)
(* base64_encode and base64_decode of src/src/Worker/base64.cpp.           *)
(*                                                                         *)
(* A character of the encoded text is its index in base64_chars, or PAD    *)
(* for '='; bytes are 0..255 and the decoder's arithmetic is that of       *)
(* unsigned char.  The loops fill groups of three bytes and of four        *)
(* characters one after the other; here every position of the result is    *)
(* computed from its group.                                                *)
(***************************************************************************)
EXTENDS Integers, Sequences

CONSTANTS ByteSet,    \* the bytes inputs are made of
          MaxLen      \* bound: length of an input

ASSUME Base64Assumption == ByteSet \subseteq 0..255 /\ MaxLen \in Nat

PAD == 64

\* Three bytes as four characters.
Pack(a, b, c) ==
    <<a \div 4, (a % 4) * 16 + (b \div 16), (b % 16) * 4 + (c \div 64), c % 64>>

\* Four characters as three bytes, with the masks of the code.
Unpack(p, q, r, s) ==
    <<(p * 4 + ((q \div 16) % 4)) % 256,
      ((q % 16) * 16 + ((r \div 4) % 16)) % 256,
      ((r % 4) * 64 + s) % 256>>

\* Byte i of the input; a short last group is filled with '\0'.
ByteAt(s, i) == IF i <= Len(s) THEN s[i] ELSE 0

GroupOfBytes(s, g) == Pack(ByteAt(s, 3 * g + 1), ByteAt(s, 3 * g + 2), ByteAt(s, 3 * g + 3))

\* Characters after the last that carries a byte are '='.
Padded_OneLess(s, g, j) == j > Len(s) - 3 * g
Padded(s, g, j) == j > Len(s) - 3 * g + 1

base64_encode(s) ==
    [i \in 1..(4 * ((Len(s) + 2) \div 3)) |->
        LET g == (i - 1) \div 4
            j == ((i - 1) % 4) + 1
        IN  IF Padded(s, g, j) THEN PAD ELSE GroupOfBytes(s, g)[j]]

\* The loop ends at the first character that is '=' or not base64.
Stops(t) == {i \in 1..Len(t) : t[i] \notin 0..63}

Taken(t) ==
    IF Stops(t) = {} THEN Len(t) ELSE (CHOOSE i \in Stops(t) : \A j \in Stops(t) : i <= j) - 1

\* A short last group is filled with '\0', for which find() returns npos,
\* which is 255 in an unsigned char.
CharAt(t, i) == IF i <= Taken(t) THEN t[i] ELSE 255

GroupOfChars(t, g) ==
    Unpack(CharAt(t, 4 * g + 1), CharAt(t, 4 * g + 2), CharAt(t, 4 * g + 3), CharAt(t, 4 * g + 4))

\* i - 1 bytes of a last group of i characters.
DecodedLen(m) == 3 * (m \div 4) + (IF m % 4 = 0 THEN 0 ELSE (m % 4) - 1)

base64_decode(t) ==
    [k \in 1..DecodedLen(Taken(t)) |-> GroupOfChars(t, (k - 1) \div 3)[((k - 1) % 3) + 1]]

-----------------------------------------------------------------------------
(* A caller that encodes a message, and one that decodes what may be less   *)
(* than all of it: without the padding, or cut short.                       *)

VARIABLES input, text, output

vars == <<input, text, output>>

Init ==
    /\ input \in UNION {[1..n -> ByteSet] : n \in 0..MaxLen}
    /\ text = <<>>
    /\ output = <<>>

Encode ==
    /\ text = <<>> /\ input # <<>>
    /\ text' = base64_encode(input)
    /\ UNCHANGED <<input, output>>

Cut ==
    /\ text # <<>> /\ output = <<>>
    /\ text' = SubSeq(text, 1, Len(text) - 1)
    /\ UNCHANGED <<input, output>>

Decode ==
    /\ text # <<>> /\ output = <<>>
    /\ output' = base64_decode(text)
    /\ UNCHANGED <<input, text>>

Next == Encode \/ Cut \/ Decode

Spec == Init /\ [][Next]_vars

-----------------------------------------------------------------------------
(* Properties *)

\* Decoding an encoded message gives it back, for every length and byte
\* (base64.cpp:13-97), in spite of the npos that fills the last group.
RoundTrip == base64_decode(base64_encode(input)) = input
=============================================================================
