------------------------------ MODULE OurReader ------------------------------
(***************************************************************************)
(* OurReader and CharReaderBuilder of src/src/common/json/json.cpp: the    *)
(* copy of Reader with more features and a stack depth of its own.  What   *)
(* the copy left as it was (spaces, comments, strings, integers, recovery) *)
(* is taken from JsonReader; what it changed is here.                      *)
(***************************************************************************)
EXTENDS JsonReader

Apostrophe == 39

readStringSingleQuote(t, i) == readString(t, i, Apostrophe)

QuotedToken(start, type, lex) ==
    [type |-> IF lex.ok THEN type ELSE "Error", start |-> start, end |-> lex.end]

\* An apostrophe that opens no string falls through to the comments.
OurTokenAt(t, start, f) ==
    CASE ByteIn(t, start) # Apostrophe -> TokenAt(t, start)
      [] ByteIn(t, start) = Apostrophe /\ f.allowSingleQuotes ->
            QuotedToken(start, "String", readStringSingleQuote(t, start + 1))
      [] OTHER -> QuotedToken(start, "Comment", readComment(t, start + 1))

OurToken(t, i, f) == OurTokenAt(t, skipSpaces(t, i), f)

RECURSIVE OurPastComments(_, _, _)
OurPastComments(t, tok, f) ==
    IF tok.type = "Comment" THEN OurPastComments(t, OurToken(t, tok.end, f), f) ELSE tok

OurSkipCommentTokens(t, i, f) ==
    LET tok == OurToken(t, i, f)
    IN  IF f.allowComments THEN OurPastComments(t, tok, f) ELSE tok

RECURSIVE OurSkippedTo(_, _, _, _)
OurSkippedTo(t, skip, until, f) ==
    IF skip.type \in {until, "EndOfStream"} THEN skip.end
    ELSE OurSkippedTo(t, OurToken(t, skip.end, f), until, f)

OurRecover(t, i, until, f) == OurSkippedTo(t, OurToken(t, i, f), until, f)

\* A failure in a container, at a position if it is a new one.
OurFailed(t, i, value, errs, until, f) == Read("error", value, OurRecover(t, i, until, f), errs)

OurChildFailed(t, child, value, until, f) ==
    IF child.status = "thrown" THEN Read("thrown", value, child.cur, child.errs)
    ELSE OurFailed(t, child.cur, value, child.errs, until, f)

\* sscanf takes a number up to the exponent it cannot finish, as glibc has it,
\* and one that is too large as infinite.
OurDecodeDouble(t, tok) == DoubleOf(t, tok, FALSE)

OurDecodeNumber(t, tok) == IntegerElse(t, tok, OurDecodeDouble(t, tok))

NumericKey(number) == [ok |-> number.status = "ok", s |-> asString(number.value)]

\* The name of a member: a string or, if allowed, the text of a number.
OurName(t, tok, f) ==
    CASE tok.type = "String" -> decodeString(t, tok)
      [] tok.type = "Number" /\ f.allowNumericKeys -> NumericKey(OurDecodeNumber(t, tok))
      [] OTHER -> [ok |-> FALSE, s |-> <<>>]

RECURSIVE OurReadValue(_, _, _, _)
RECURSIVE OurReadObject(_, _, _, _, _, _)
RECURSIVE OurReadArray(_, _, _, _, _, _)

OurMemberFailed(t, tok, object, f) == OurFailed(t, tok.end, object, <<tok.start>>, "ObjectEnd", f)

OurMemberEnds(t, comma, depth, f, object, name) ==
    IF comma.type \notin {"ObjectEnd", "ArraySeparator", "Comment"}
    THEN OurMemberFailed(t, comma, object, f)
    ELSE LET after == OurPastComments(t, comma, f)
         IN  IF after.type = "ObjectEnd" THEN Read("ok", object, after.end, <<>>)
             ELSE OurReadObject(t, after.end, depth, f, object, name)

OurMemberRead(t, child, depth, f, object, name) ==
    IF child.status # "ok" THEN OurChildFailed(t, child, WithFailed(object, name, child.value), "ObjectEnd", f)
    ELSE OurMemberEnds(t, OurToken(t, child.cur, f), depth, f, WithMember(object, name, child.value), name)

\* With rejectDupKeys, a name that the object has already is an error.
OurMemberNamed(t, tok, next, colon, depth, f, object) ==
    IF ~next.ok THEN OurMemberFailed(t, tok, object, f)
    ELSE IF colon.type # "MemberSeparator" THEN OurMemberFailed(t, colon, object, f)
    ELSE IF f.rejectDupKeys /\ isMember(object, next.s)
    THEN OurFailed(t, colon.end, object, <<tok.start>>, "ObjectEnd", f)
    ELSE OurMemberRead(t, OurReadValue(t, colon.end, depth, f), depth, f, object, next.s)

OurMemberStarts(t, tok, depth, f, object, name) ==
    IF tok.type = "ObjectEnd" /\ name = <<>> THEN Read("ok", object, tok.end, <<>>)
    ELSE OurMemberNamed(t, tok, OurName(t, tok, f), OurToken(t, tok.end, f), depth, f, object)

OurReadObject(t, i, depth, f, object, name) ==
    OurMemberStarts(t, OurPastComments(t, OurToken(t, i, f), f), depth, f, object, name)

OurElementEnds(t, tok, depth, f, array, index) ==
    CASE tok.type = "ArrayEnd" -> Read("ok", array, tok.end, <<>>)
      [] tok.type = "ArraySeparator" -> OurReadArray(t, tok.end, depth, f, array, index + 1)
      [] OTHER -> OurFailed(t, tok.end, array, <<tok.start>>, "ArrayEnd", f)

OurElementRead(t, child, depth, f, array, index) ==
    IF child.status # "ok" THEN OurChildFailed(t, child, WithElement(array, index, child.value), "ArrayEnd", f)
    ELSE OurElementEnds(t, OurPastComments(t, OurToken(t, child.cur, f), f), depth, f,
                        WithElement(array, index, child.value), index)

OurReadArray_Trailing(t, i, depth, f, array, index) ==
    IF ByteIn(t, skipSpaces(t, i)) = RBracket
    THEN Read("ok", array, skipSpaces(t, i) + 1, <<>>)
    ELSE OurElementRead(t, OurReadValue(t, i, depth, f), depth, f, array, index)

OurReadArray(t, i, depth, f, array, index) ==
    IF index = 0 /\ ByteIn(t, skipSpaces(t, i)) = RBracket
    THEN Read("ok", array, skipSpaces(t, i) + 1, <<>>)
    ELSE OurElementRead(t, OurReadValue(t, i, depth, f), depth, f, array, index)

\* A separator or a closing bracket may stand for a null; it is then read
\* again.
OurValueOf(t, tok, depth, f) ==
    CASE tok.type = "ObjectBegin" -> OurReadObject(t, tok.end, depth, f, Value(objectValue), <<>>)
      [] tok.type = "ArrayBegin" -> OurReadArray(t, tok.end, depth, f, Value(arrayValue), 0)
      [] tok.type \in {"ArraySeparator", "ObjectEnd", "ArrayEnd"} /\ f.allowDroppedNullPlaceholders ->
            Read("ok", Null, tok.end - 1, <<>>)
      [] tok.type = "Number" -> OurDecodeNumber(t, tok)
      [] tok.type \notin {"ObjectBegin", "ArrayBegin", "ArraySeparator", "ObjectEnd", "ArrayEnd", "Number"} ->
            ScalarOf(t, tok)
      [] OTHER -> Read("error", Null, tok.end, <<tok.start>>)

OurReadValue(t, i, depth, f) ==
    IF depth >= f.stackLimit THEN Read("thrown", Null, i, <<>>)
    ELSE OurValueOf(t, OurSkipCommentTokens(t, i, f), depth + 1, f)

\* With failIfExtra, a token that is not one at all goes unnoticed.
OurRootRead(root, extra, f) ==
    IF root.status # "thrown" /\ f.failIfExtra /\ extra.type \notin {"Error", "EndOfStream"}
    THEN Read("error", root.value, root.cur, Append(root.errs, extra.start))
    ELSE RootRead(root, f)

OurRootAnd(t, root, f) == OurRootRead(root, OurSkipCommentTokens(t, root.cur, f), f)

OurParse(t, f) == OurRootAnd(t, OurReadValue(t, 1, 0, f), f)

\* CharReaderBuilder: setDefaults, and strictMode on top of it.
defaultFeatures ==
    [allowComments |-> TRUE, strictRoot |-> FALSE, allowDroppedNullPlaceholders |-> FALSE,
     allowNumericKeys |-> FALSE, allowSingleQuotes |-> FALSE, stackLimit |-> StackLimit,
     failIfExtra |-> FALSE, rejectDupKeys |-> FALSE]

strictFeatures ==
    [defaultFeatures EXCEPT !.allowComments = FALSE, !.strictRoot = TRUE,
                            !.failIfExtra = TRUE, !.rejectDupKeys = TRUE]
=============================================================================
