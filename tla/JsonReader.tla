----------------------------- MODULE JsonReader -----------------------------
(***************************************************************************)
(* Json::Reader of src/src/common/json/json.cpp: a document, a sequence of *)
(* bytes, is split into tokens and read into a Value by recursive descent. *)
(*                                                                         *)
(* A cursor (current_) is the position of the next byte, Len(t) + 1 at the *)
(* end.  The stack nodes_ of values under construction is the recursion of *)
(* readValue: an operator gives the value it filled, the cursor behind it, *)
(* the positions of the errors in errors_, and a status: "ok", "error", or *)
(* "thrown" when the nesting exceeds the limit.  Comments are skipped, not *)
(* collected.                                                              *)
(***************************************************************************)
EXTENDS JsonValue

CONSTANT StackLimit      \* stackLimit_g: 1000

Quote     == 34
Backslash == 92
Slash     == 47
Star      == 42
Minus     == 45
Dot       == 46
LBracket  == 91
RBracket  == 93
LBrace    == 123
RBrace    == 125
NewLine   == 10
Return    == 13

\* *current_, which is the terminating NUL at the end of the document.
ByteIn(t, i) == IF i <= Len(t) THEN t[i] ELSE 0

\* The cursor after getNextChar, which stays at the end.
Next1(t, i) == IF i <= Len(t) THEN i + 1 ELSE i

\* The first position from i on whose byte is, or is not, one of some, or
\* the end.
FirstOf(t, i, bytes)    == Min({j \in i..Len(t) : t[j] \in bytes} \cup {Len(t) + 1})
FirstNotOf(t, i, bytes) == Min({j \in i..Len(t) : t[j] \notin bytes} \cup {Len(t) + 1})

Lexeme(ok, end) == [ok |-> ok, end |-> end]

-----------------------------------------------------------------------------
(* Tokens *)

skipSpaces(t, i) == FirstNotOf(t, i, {32, 9, Return, NewLine})

match(t, i, word) ==
    LET found == i + Len(word) - 1 <= Len(t) /\ SubSeq(t, i, i + Len(word) - 1) = word
    IN  Lexeme(found, IF found THEN i + Len(word) ELSE i)

isDigit(c) == c \in 48..57

DigitsEnd(t, i) == FirstNotOf(t, i, 48..57)

\* Where each part of a number ends: digits, a fraction, an exponent.
FractionEnd(t, i) == IF ByteIn(t, i) = Dot THEN DigitsEnd(t, i + 1) ELSE i

ExponentDigits(t, i) == IF ByteIn(t, i + 1) \in {43, Minus} THEN i + 2 ELSE i + 1

ExponentEnd(t, i) == IF ByteIn(t, i) \in {69, 101} THEN DigitsEnd(t, ExponentDigits(t, i)) ELSE i

readNumber(t, i) == ExponentEnd(t, FractionEnd(t, DigitsEnd(t, i)))

RECURSIVE readString(_, _, _)
\* Behind an opening quote; a backslash hides the byte behind it.
readString(t, i, quote) ==
    CASE i > Len(t)               -> Lexeme(FALSE, i)
      [] ByteIn(t, i) = Backslash -> readString(t, Next1(t, i + 1), quote)
      [] ByteIn(t, i) = quote     -> Lexeme(TRUE, i + 1)
      [] OTHER                    -> readString(t, i + 1, quote)

readCStyleComment(t, i) ==
    LET ends == {j \in i..(Len(t) - 1) : t[j] = Star /\ t[j + 1] = Slash}
    IN  IF ends = {} THEN Lexeme(FALSE, Len(t) + 1) ELSE Lexeme(TRUE, Min(ends) + 2)

\* A line ends at a newline, a return, or both.
readCppStyleComment(t, i) ==
    LET eol == FirstOf(t, i, {NewLine, Return})
        dos == ByteIn(t, eol) = Return /\ ByteIn(t, eol + 1) = NewLine
    IN  Lexeme(TRUE, IF dos THEN eol + 2 ELSE Next1(t, eol))

readComment(t, i) ==
    CASE ByteIn(t, i) = Star  -> readCStyleComment(t, i + 1)
      [] ByteIn(t, i) = Slash -> readCppStyleComment(t, i + 1)
      [] OTHER                -> Lexeme(FALSE, Next1(t, i))

NullText == <<110, 117, 108, 108>>

Punctuation == (LBrace :> "ObjectBegin") @@ (RBrace :> "ObjectEnd")
               @@ (LBracket :> "ArrayBegin") @@ (RBracket :> "ArrayEnd")
               @@ (44 :> "ArraySeparator") @@ (58 :> "MemberSeparator") @@ (0 :> "EndOfStream")

\* The token that starts at a byte that is no space.
TokenAt(t, start) ==
    LET c    == ByteIn(t, start)
        next == Next1(t, start)
        Tok(name, lex) ==
            [type |-> IF lex.ok THEN name ELSE "Error", start |-> start, end |-> lex.end]
    IN  CASE c \in DOMAIN Punctuation   -> Tok(Punctuation[c], Lexeme(TRUE, next))
          [] c = Quote                  -> Tok("String", readString(t, next, Quote))
          [] c = Slash                  -> Tok("Comment", readComment(t, next))
          [] isDigit(c) \/ c = Minus    -> Tok("Number", Lexeme(TRUE, readNumber(t, next)))
          [] c = 116                    -> Tok("True", match(t, next, Tail(TrueText)))
          [] c = 102                    -> Tok("False", match(t, next, Tail(FalseText)))
          [] c = 110                    -> Tok("Null", match(t, next, Tail(NullText)))
          [] OTHER                      -> Tok("Error", Lexeme(FALSE, next))

readToken(t, i) == TokenAt(t, skipSpaces(t, i))

RECURSIVE PastComments(_, _)
\* A token, or the first behind it that is not a comment.
PastComments(t, tok) == IF tok.type = "Comment" THEN PastComments(t, readToken(t, tok.end)) ELSE tok

skipCommentTokens(t, i, features) ==
    LET tok == readToken(t, i)
    IN  IF features.allowComments THEN PastComments(t, tok) ELSE tok

-----------------------------------------------------------------------------
(* Numbers *)

RECURSIVE DigitsValue(_, _, _, _)
DigitsValue_NoLast(ds, k, value, max) ==
    IF k > Len(ds) THEN value
    ELSE IF ~isDigit(ds[k]) \/ value > max \div 10 \/ (value = max \div 10 /\ k # Len(ds)) THEN -1
    ELSE DigitsValue(ds, k + 1, 10 * value + (ds[k] - 48), max)

\* The loop of decodeNumber; -1 when the text must be read as a double.
DigitsValue(ds, k, value, max) ==
    LET digit == ds[k] - 48
        threshold == max \div 10
        overflows == /\ value >= threshold
                     /\ value > threshold \/ k # Len(ds) \/ digit > max % 10
    IN  CASE k > Len(ds) -> value
          [] k <= Len(ds) /\ (~isDigit(ds[k]) \/ overflows) -> -1
          [] OTHER -> DigitsValue(ds, k + 1, 10 * value + digit, max)

RECURSIVE DecimalOf(_)
DecimalOf(ds) == IF ds = <<>> THEN 0 ELSE 10 * DecimalOf(Front(ds)) + (Last(ds) - 48)

Read(status, value, cur, errs) == [status |-> status, value |-> value, cur |-> cur, errs |-> errs]

Scaled(n, shift) == IF shift >= 0 THEN n * 10 ^ shift ELSE n \div 10 ^ (-shift)

\* A real in units of 1 / RealUnit as a double, infinite when it is too large.
AsReal(mantissa, shift) ==
    LET real == Rounded(Scaled(mantissa * RealUnit, shift))
    IN  CASE mantissa = 0 -> 0
          [] mantissa # 0 /\ Len(uintToString(mantissa)) - 1 + shift > MaxExponent -> Infinity
          [] OTHER -> IF real >= RealUnit * 2 ^ (DoubleBits + DoubleScale) THEN Infinity ELSE real

\* The double that a number's text stands for, without an exponent that has no
\* digit.  If strict, such an exponent is refused, and a number that no double
\* can hold, too.
DoubleOf(t, tok, strict) ==
    LET negative == t[tok.start] = Minus
        int    == IF negative THEN tok.start + 1 ELSE tok.start
        frac   == DigitsEnd(t, int)
        exp    == FractionEnd(t, frac)
        first  == ExponentDigits(t, exp)
        hasExp == exp < tok.end
        ds     == SubSeq(t, int, frac - 1) \o SubSeq(t, frac + 1, exp - 1)
        power  == IF hasExp THEN DecimalOf(SubSeq(t, first, tok.end - 1)) ELSE 0
        shift  == (IF hasExp /\ ByteIn(t, exp + 1) = Minus THEN -power ELSE power)
                  - (IF exp > frac THEN exp - frac - 1 ELSE 0)
        real   == AsReal(DecimalOf(ds), shift)
        loose  == (hasExp /\ first = tok.end) \/ real = Infinity
    IN  IF ds = <<>> \/ (strict /\ loose)
        THEN Read("error", Null, tok.end, <<tok.start>>)
        ELSE Read("ok", RealOf(IF negative THEN -real ELSE real), tok.end, <<>>)

\* istringstream >> double, which is strict.
decodeDouble(t, tok) == DoubleOf(t, tok, TRUE)

\* An integer, unless the text is not one or is too large for one.  Values up
\* to the largest Int are stored signed, larger ones unsigned.
IntegerElse(t, tok, double) ==
    LET negative == t[tok.start] = Minus
        ds    == SubSeq(t, IF negative THEN tok.start + 1 ELSE tok.start, tok.end - 1)
        value == DigitsValue(ds, 1, 0, IF negative THEN -minInt64 ELSE maxUInt64)
    IN  CASE value = -1      -> double
          [] negative        -> Read("ok", IntOf(-value), tok.end, <<>>)
          [] value <= maxInt -> Read("ok", IntOf(value), tok.end, <<>>)
          [] OTHER           -> Read("ok", UIntOf(value), tok.end, <<>>)

decodeNumber(t, tok) == IntegerElse(t, tok, decodeDouble(t, tok))

-----------------------------------------------------------------------------
(* Strings *)

codePointToUTF8(cp) ==
    LET Six(shift) == 128 + ((cp \div shift) % 64)
    IN  CASE cp <= 127              -> <<cp>>
          [] cp \in 128..2047       -> <<192 + (cp \div 64), Six(1)>>
          [] cp \in 2048..65535     -> <<224 + (cp \div 4096), Six(64), Six(1)>>
          [] cp \in 65536..1114111  -> <<240 + (cp \div 262144), Six(4096), Six(64), Six(1)>>
          [] OTHER                  -> <<>>

HexValue(c) ==
    CASE isDigit(c)    -> c - 48
      [] c \in 97..102 -> c - 87
      [] c \in 65..70  -> c - 55
      [] OTHER         -> -1

\* Four hexadecimal digits before the closing quote at end, or -1.
decodeUnicodeEscapeSequence(t, i, end) ==
    IF end - i < 4 \/ \E j \in i..(i + 3) : HexValue(t[j]) = -1
    THEN -1
    ELSE 4096 * HexValue(t[i]) + 256 * HexValue(t[i + 1]) + 16 * HexValue(t[i + 2]) + HexValue(t[i + 3])

CodePoint(cp, next) == [cp |-> cp, next |-> next]

\* Any second escape is taken for the other half of a surrogate pair.
Combined(t, i, end, high, low) ==
    IF high \notin 55296..56319
    THEN CodePoint(high, i + 4)
    ELSE IF end - i < 10 \/ t[i + 4] # Backslash \/ t[i + 5] # 117 \/ low = -1
    THEN CodePoint(-1, i + 4)
    ELSE CodePoint(65536 + (high % 1024) * 1024 + (low % 1024), i + 10)

decodeUnicodeCodePoint(t, i, end) ==
    Combined(t, i, end, decodeUnicodeEscapeSequence(t, i, end), decodeUnicodeEscapeSequence(t, i + 6, end))

\* What a backslash and a letter stand for.
Escapes == (Quote :> Quote) @@ (Slash :> Slash) @@ (Backslash :> Backslash) @@ (98 :> 8)
           @@ (102 :> 12) @@ (110 :> NewLine) @@ (114 :> Return) @@ (116 :> 9)

RECURSIVE DecodeBytes(_, _, _, _)
\* The loop of decodeString from i to the closing quote at end.
DecodeBytes(t, i, end, decoded) ==
    LET escape == ByteIn(t, i + 1)
        point  == decodeUnicodeCodePoint(t, i + 2, end)
    IN  CASE i >= end \/ t[i] = Quote -> [ok |-> TRUE, s |-> decoded]
          [] t[i] # Backslash /\ t[i] # Quote -> DecodeBytes(t, i + 1, end, Append(decoded, t[i]))
          [] i + 1 < end /\ escape \in DOMAIN Escapes ->
                DecodeBytes(t, i + 2, end, Append(decoded, Escapes[escape]))
          [] i + 1 < end /\ escape = 117 /\ point.cp >= 0 ->
                DecodeBytes(t, point.next, end, decoded \o codePointToUTF8(point.cp))
          [] OTHER -> [ok |-> FALSE, s |-> decoded]

decodeString(t, tok) == DecodeBytes(t, tok.start + 1, tok.end - 1, <<>>)

-----------------------------------------------------------------------------
(* Values *)

RECURSIVE SkippedTo(_, _, _)
SkippedTo(t, skip, until) ==
    IF skip.type \in {until, "EndOfStream"} THEN skip.end
    ELSE SkippedTo(t, readToken(t, skip.end), until)

\* Tokens are skipped up to one of the wanted type, or to the end.
recoverFromError(t, i, until) == SkippedTo(t, readToken(t, i), until)

Recovered(t, i, value, errs, until) == Read("error", value, recoverFromError(t, i, until), errs)

addErrorAndRecover(t, tok, value, until) == Recovered(t, tok.end, value, <<tok.start>>, until)

\* What a container makes of a member or an element it could not read.
ChildFailed(t, child, value, until) ==
    IF child.status = "thrown" THEN Read("thrown", value, child.cur, child.errs)
    ELSE Recovered(t, child.cur, value, child.errs, until)

RECURSIVE readValue(_, _, _, _)
RECURSIVE readObject(_, _, _, _, _, _)
RECURSIVE readArray(_, _, _, _, _, _)

WithMember(object, name, value) == Assigned(MemberMade(object, name), name, value)

WithElement(array, index, value) == Assigned(ElementMade(array, index), IndexKey(index), value)

\* What follows a member: a comma, the end, or a comment, and then whatever
\* stands behind the comment is taken for a comma.
MemberEnds(t, comma, depth, features, object, name) ==
    IF comma.type \notin {"ObjectEnd", "ArraySeparator", "Comment"}
    THEN addErrorAndRecover(t, comma, object, "ObjectEnd")
    ELSE LET after == PastComments(t, comma)
         IN  IF after.type = "ObjectEnd" THEN Read("ok", object, after.end, <<>>)
             ELSE readObject(t, after.end, depth, features, object, name)

\* A value of which nothing could be read leaves a member of that name as it is.
WithFailed(object, name, value) ==
    LET made == MemberMade(object, name)
    IN  IF value = Null THEN made ELSE Assigned(made, name, value)

MemberRead(t, child, depth, features, object, name) ==
    IF child.status # "ok" THEN ChildFailed(t, child, WithFailed(object, name, child.value), "ObjectEnd")
    ELSE MemberEnds(t, readToken(t, child.cur), depth, features, WithMember(object, name, child.value), name)

MemberNamed(t, tok, decoded, colon, depth, features, object) ==
    IF ~decoded.ok THEN Recovered(t, tok.end, object, <<tok.start>>, "ObjectEnd")
    ELSE IF colon.type # "MemberSeparator" THEN addErrorAndRecover(t, colon, object, "ObjectEnd")
    ELSE MemberRead(t, readValue(t, colon.end, depth, features), depth, features, object, decoded.s)

\* A '}' may only follow the separator of a member without a name.
MemberStarts(t, tok, depth, features, object, name) ==
    IF tok.type = "ObjectEnd" /\ name = <<>> THEN Read("ok", object, tok.end, <<>>)
    ELSE IF tok.type # "String" THEN addErrorAndRecover(t, tok, object, "ObjectEnd")
    ELSE MemberNamed(t, tok, decodeString(t, tok), readToken(t, tok.end), depth, features, object)

\* The rest of an object whose last member was called name.
readObject(t, i, depth, features, object, name) ==
    MemberStarts(t, PastComments(t, readToken(t, i)), depth, features, object, name)

\* What follows an element.
ElementEnds(t, tok, depth, features, array, index) ==
    CASE tok.type = "ArrayEnd" -> Read("ok", array, tok.end, <<>>)
      [] tok.type = "ArraySeparator" -> readArray(t, tok.end, depth, features, array, index + 1)
      [] OTHER -> addErrorAndRecover(t, tok, array, "ArrayEnd")

ElementRead(t, child, depth, features, array, index) ==
    IF child.status # "ok" THEN ChildFailed(t, child, WithElement(array, index, child.value), "ArrayEnd")
    ELSE ElementEnds(t, PastComments(t, readToken(t, child.cur)), depth, features,
                     WithElement(array, index, child.value), index)

\* The elements of an array from index on.
readArray(t, i, depth, features, array, index) ==
    ElementRead(t, readValue(t, i, depth, features), depth, features, array, index)

readArrayFrom(t, start, depth, features) ==
    IF ByteIn(t, start) = RBracket
    THEN Read("ok", Value(arrayValue), start + 1, <<>>)
    ELSE readArray(t, start, depth, features, Value(arrayValue), 0)

StringRead(tok, decoded) ==
    IF decoded.ok THEN Read("ok", StringOf(decoded.s), tok.end, <<>>)
    ELSE Read("error", Null, tok.end, <<tok.start>>)

\* A value that one token holds.
ScalarOf(t, tok) ==
    CASE tok.type = "Number" -> decodeNumber(t, tok)
      [] tok.type = "String" -> StringRead(tok, decodeString(t, tok))
      [] tok.type = "True"   -> Read("ok", BoolOf(TRUE), tok.end, <<>>)
      [] tok.type = "False"  -> Read("ok", BoolOf(FALSE), tok.end, <<>>)
      [] tok.type = "Null"   -> Read("ok", Null, tok.end, <<>>)
      [] OTHER -> Read("error", Null, tok.end, <<tok.start>>)

ValueOf(t, tok, depth, features) ==
    CASE tok.type = "ObjectBegin" -> readObject(t, tok.end, depth, features, Value(objectValue), <<>>)
      [] tok.type = "ArrayBegin" -> readArrayFrom(t, skipSpaces(t, tok.end), depth, features)
      [] OTHER -> ScalarOf(t, tok)

readValue(t, i, depth, features) ==
    IF depth >= StackLimit THEN Read("thrown", Null, i, <<>>)
    ELSE ValueOf(t, skipCommentTokens(t, i, features), depth + 1, features)

all        == [allowComments |-> TRUE, strictRoot |-> FALSE]
strictMode == [allowComments |-> FALSE, strictRoot |-> TRUE]

RootRead(root, features) ==
    IF root.status # "thrown" /\ features.strictRoot /\ ~isContainer(root.value)
    THEN Read("error", root.value, root.cur, Append(root.errs, 1))
    ELSE root

\* The text behind the root is looked at for comments only.
parse(t, features) == RootRead(readValue(t, 1, 0, features), features)
=============================================================================
