----------------------------- MODULE JsonWriter -----------------------------
(***************************************************************************)
(* Three writers of src/src/common/json/json.cpp: FastWriter, StyledWriter *)
(* and the BuiltStyledStreamWriter of a StreamWriterBuilder.  An operator  *)
(* takes the document so far and gives it with a value appended.           *)
(* childValues_, the texts of the elements of an array that may fit on one *)
(* line, is what isMultineArray leaves for writeArrayValue.  Values carry  *)
(* no comments here.                                                       *)
(***************************************************************************)
EXTENDS JsonReader

CONSTANT RightMargin      \* rightMargin_: 74

ASSUME RightMarginAssumption == RightMargin \in Nat

Spaces(n) == [i \in 1..n |-> 32]

-----------------------------------------------------------------------------
(* Strings *)

HexDigitOf(n) == IF n < 10 THEN 48 + n ELSE 55 + n

\* isControlCharacter, and the NUL that valueToQuotedStringN escapes too.
isControl(c) == c \in 0..31

Escaped_Quote(c) == <<c>>

\* The letter behind the backslash, or four hexadecimal digits.
Escaped(c) ==
    CASE c \in {Quote, Backslash} -> <<Backslash, c>>
      [] c \in {8, 12, NewLine, Return, 9} ->
            <<Backslash, CHOOSE e \in DOMAIN Escapes : Escapes[e] = c>>
      [] isControl(c) /\ c \notin {8, 12, NewLine, Return, 9} ->
            <<Backslash, 117, 48, 48, HexDigitOf(c \div 16), HexDigitOf(c % 16)>>
      [] OTHER -> <<c>>

valueToQuotedStringN(s) == <<Quote>> \o FlattenSeq([i \in DOMAIN s |-> Escaped(s[i])]) \o <<Quote>>

\* A C string ends at its first NUL.
CStringOf(s) == SubSeq(s, 1, FirstOf(s, 1, {0}) - 1)

valueToQuotedString(s) == valueToQuotedStringN(CStringOf(s))

\* A value that is neither an array nor an object with members.
ScalarText(v, nullText) ==
    CASE v.type = nullValue   -> nullText
      [] v.type = stringValue -> valueToQuotedStringN(v.s)
      [] v.type = arrayValue  -> <<LBracket, RBracket>>
      [] v.type = objectValue -> <<LBrace, RBrace>>
      [] OTHER                -> asString(v)

isScalar(v) == ~isContainer(v) \/ DOMAIN v.m = {}

-----------------------------------------------------------------------------
(* FastWriter *)

RECURSIVE FastText(_, _)
\* A hole in an array is written as the null that operator[] gives for it.
FastText(v, yaml) ==
    LET colon == IF yaml THEN <<58, 32>> ELSE <<58>>
        Comma(i) == IF i > 0 THEN <<44>> ELSE <<>>
        names == getMemberNames(v)
    IN  CASE ~isContainer(v) -> ScalarText(v, NullText)
          [] v.type = arrayValue ->
                <<LBracket>> \o FlattenSeq([i \in 1..size(v) |-> Comma(i - 1) \o FastText(Element(v, i - 1), yaml)])
                \o <<RBracket>>
          [] v.type = objectValue ->
                <<LBrace>> \o FlattenSeq([i \in DOMAIN names |->
                                Comma(i - 1) \o valueToQuotedStringN(names[i]) \o colon
                                \o FastText(Member(v, names[i]), yaml)])
                \o <<RBrace>>

FastWriter(v) == Append(FastText(v, FALSE), NewLine)

-----------------------------------------------------------------------------
(* Arrays on one line or on several, for the other two *)

\* The first test of isMultineArray: long, or an element that has elements.
MustBreak(v) ==
    \/ size(v) * 3 >= RightMargin
    \/ \E i \in 0..(size(v) - 1) : isContainer(Element(v, i)) /\ size(Element(v, i)) > 0

\* childValues_, empty when the first test settles it.
childValues(v, nullText) ==
    IF MustBreak(v) THEN <<>>
    ELSE [i \in 1..size(v) |-> ScalarText(Element(v, i - 1), nullText)]

isMultineArray(v, nullText) ==
    MustBreak(v) \/ 4 + (size(v) - 1) * 2 + Len(FlattenSeq(childValues(v, nullText))) >= RightMargin

\* The elements of an array on one line.
Joined(texts) == FlattenSeq([i \in DOMAIN texts |-> (IF i > 1 THEN <<44, 32>> ELSE <<>>) \o texts[i]])

-----------------------------------------------------------------------------
(* StyledWriter: whether a line is indented is read off the document. *)

writeIndent(doc, indent) ==
    CASE doc = <<>> -> Spaces(indent)
      [] doc # <<>> /\ Last(doc) = 32 -> doc
      [] OTHER -> (IF Last(doc) = NewLine THEN doc ELSE Append(doc, NewLine)) \o Spaces(indent)

RECURSIVE StyledValue(_, _, _)

StyledArray(doc, v, indent) ==
    LET texts == childValues(v, NullText)
        inner == indent + 3
        Item(d, i) ==
            (IF texts # <<>> THEN writeIndent(d, inner) \o texts[i]
             ELSE StyledValue(writeIndent(d, inner), Element(v, i - 1), inner))
            \o (IF i < size(v) THEN <<44>> ELSE <<>>)
        opened == Append(writeIndent(doc, indent), LBracket)
    IN  IF ~isMultineArray(v, NullText)
        THEN doc \o <<LBracket, 32>> \o Joined(texts) \o <<32, RBracket>>
        ELSE Append(writeIndent(FoldLeft(Item, opened, [i \in 1..size(v) |-> i]), indent), RBracket)

\* Member names pass through c_str(), so one with a NUL is cut there.
StyledValue(doc, v, indent) ==
    LET names == getMemberNames(v)
        inner == indent + 3
        Item(d, i) ==
            StyledValue(writeIndent(d, inner) \o valueToQuotedString(names[i]) \o <<32, 58, 32>>,
                        Member(v, names[i]), inner)
            \o (IF i < Len(names) THEN <<44>> ELSE <<>>)
        opened == Append(writeIndent(doc, indent), LBrace)
    IN  CASE isScalar(v) -> doc \o ScalarText(v, NullText)
          [] v.type = arrayValue /\ ~isScalar(v) -> StyledArray(doc, v, indent)
          [] v.type = objectValue /\ ~isScalar(v) ->
                Append(writeIndent(FoldLeft(Item, opened, [i \in DOMAIN names |-> i]), indent), RBrace)

StyledWriter(v) == Append(StyledValue(<<>>, v, 0), NewLine)

-----------------------------------------------------------------------------
(* A stream writer cannot look back: indented_ says that the line is       *)
(* indented.  With no indentation the newlines are dropped too.            *)

Stream(doc, indented) == [doc |-> doc, indented |-> indented]

StreamIndent(doc, o, depth) ==
    IF o.indentation = <<>> THEN doc
    ELSE Append(doc, NewLine) \o FlattenSeq([i \in 1..depth |-> o.indentation])

WithIndent(out, text, o, depth) ==
    Stream((IF out.indented THEN out.doc ELSE StreamIndent(out.doc, o, depth)) \o text, FALSE)

Push(out, text) == [out EXCEPT !.doc = @ \o text]

RECURSIVE BuiltValue(_, _, _, _)

BuiltArray(out, v, o, depth) ==
    LET several == o.allComments \/ isMultineArray(v, o.nullSymbol)
        texts   == IF o.allComments THEN <<>> ELSE childValues(v, o.nullSymbol)
        pad     == IF o.indentation = <<>> THEN <<>> ELSE <<32>>
        Ready(s) == Stream(IF s.indented THEN s.doc ELSE StreamIndent(s.doc, o, depth + 1), TRUE)
        Item(s, i) ==
            Push(IF texts # <<>> THEN WithIndent(s, texts[i], o, depth + 1)
                 ELSE [BuiltValue(Ready(s), Element(v, i - 1), o, depth + 1) EXCEPT !.indented = FALSE],
                 IF i < size(v) THEN <<44>> ELSE <<>>)
        opened == WithIndent(out, <<LBracket>>, o, depth)
    IN  IF several
        THEN WithIndent(FoldLeft(Item, opened, [i \in 1..size(v) |-> i]), <<RBracket>>, o, depth)
        ELSE Push(out, <<LBracket>> \o pad \o Joined(texts) \o pad \o <<RBracket>>)

BuiltValue(out, v, o, depth) ==
    LET names == getMemberNames(v)
        Item(s, i) ==
            Push(BuiltValue(Push(WithIndent(s, valueToQuotedStringN(names[i]), o, depth + 1), o.colonSymbol),
                            Member(v, names[i]), o, depth + 1),
                 IF i < Len(names) THEN <<44>> ELSE <<>>)
        opened == WithIndent(out, <<LBrace>>, o, depth)
    IN  CASE isScalar(v) -> Push(out, ScalarText(v, o.nullSymbol))
          [] v.type = arrayValue /\ ~isScalar(v) -> BuiltArray(out, v, o, depth)
          [] v.type = objectValue /\ ~isScalar(v) ->
                WithIndent(FoldLeft(Item, opened, [i \in DOMAIN names |-> i]), <<RBrace>>, o, depth)

\* BuiltStyledStreamWriter::write
BuiltWriter(v, o) == BuiltValue(Stream(<<>>, TRUE), v, o, 0).doc

\* newStreamWriter: the symbols that follow from the settings.
newStreamWriter(indentation, allComments, yaml, dropNulls) ==
    [indentation |-> indentation,
     allComments |-> allComments,
     colonSymbol |-> CASE yaml -> <<58, 32>>
                       [] ~yaml /\ indentation = <<>> -> <<58>>
                       [] OTHER -> <<32, 58, 32>>,
     nullSymbol  |-> IF dropNulls THEN <<>> ELSE NullText]

Tab == <<9>>

defaultSettings == newStreamWriter(Tab, TRUE, FALSE, FALSE)
=============================================================================
