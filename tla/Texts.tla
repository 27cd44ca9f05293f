------------------------------- MODULE Texts --------------------------------
(***************************************************************************)
(* The texts the program converts, in one state machine: a message that is *)
(* encoded, cut and decoded (Base64), and a JSON document that is read     *)
(* into a Value and then edited by the calls of Json::Value.  The          *)
(* conversions are functions of the text, so the properties compare what   *)
(* they give for every reachable text and value.                           *)
(***************************************************************************)
EXTENDS Base64, OurReader, JsonWriter, JsonPath, JsonEdit, TextUtil, UrlCodec

CONSTANTS Documents,    \* the texts given to the readers
          CodePoints,   \* the characters of UTF-8 texts
          MaxGrams      \* bound: the length of a text that is cut into grams

textsVars == <<vars, root>>

TextsInit ==
    /\ Init \/ (input \in Documents /\ text = <<>> /\ output = <<>>)
    /\ EditInit

\* Messages are short; a document is not encoded.
Code == Len(input) <= MaxLen /\ root = Null /\ Next /\ UNCHANGED root

\* reader.parse(document, root): what was read stays in root on an error, too.
Parse ==
    /\ text = <<>> /\ input # <<>>
    /\ parse(input, all).status # "thrown"
    /\ root' = parse(input, all).value
    /\ input' = <<>>
    /\ UNCHANGED <<text, output>>

\* The parse throws, and the caller has no document.
ParseThrows ==
    /\ text = <<>> /\ input # <<>>
    /\ parse(input, all).status = "thrown"
    /\ input' = <<>>
    /\ UNCHANGED <<text, output, root>>

\* One call on root, once the document is read.
Call(edit) == input = <<>> /\ edit /\ UNCHANGED vars

TextsNext ==
    \/ Code \/ Parse \/ ParseThrows
    \/ Call(EditNext)

TextsSpec == TextsInit /\ [][TextsNext]_textsVars

-----------------------------------------------------------------------------
(* Reference definitions *)

\* A number as the reader stores it.
NumberOf(n) == IF n <= maxInt THEN IntOf(n) ELSE UIntOf(n)

RECURSIVE Reread(_)
\* A value as its text tells it: the type of a number is not written, a hole
\* in an array is a null.
Reread(v) ==
    CASE v.type \in {intValue, uintValue} -> NumberOf(v.n)
      [] v.type = realValue ->
            IF IsIntegral(v.n) /\ v.n \div RealUnit \in minInt64..maxUInt64
            THEN NumberOf(v.n \div RealUnit) ELSE v
      [] v.type = arrayValue ->
            [v EXCEPT !.m = [k \in {IndexKey(i) : i \in 0..(size(v) - 1)} |-> Reread(Element(v, k[1]))]]
      [] v.type = objectValue -> [v EXCEPT !.m = [k \in DOMAIN @ |-> Reread(@[k])]]
      [] OTHER -> v

RECURSIVE Height(_)
\* How deep the innermost value lies.
Height(v) == IF isScalar(v) THEN 0 ELSE 1 + Max({Height(v.m[k]) : k \in DOMAIN v.m})

RECURSIVE NamesOf(_)
NamesOf(v) ==
    (IF v.type = objectValue THEN DOMAIN v.m ELSE {})
    \cup (IF isContainer(v) THEN UNION {NamesOf(v.m[k]) : k \in DOMAIN v.m} ELSE {})

\* The integer a text is the decimal form of.
IntegerOf(s) == IF Head(s) = Minus THEN -DecimalOf(Tail(s)) ELSE DecimalOf(s)
IsIntegerText(s) ==
    /\ s # <<>> /\ \A i \in DOMAIN s : isDigit(s[i]) \/ (i = 1 /\ s[i] = Minus /\ Len(s) > 1)
    /\ IntText(IntegerOf(s)) = s

\* The UTF-8 characters of a text: a byte in 128..191 continues one.
Segments(s) ==
    FoldLeft(LAMBDA cs, c : IF c \in 128..191 /\ cs # <<>> THEN Append(Front(cs), Append(Last(cs), c))
                            ELSE Append(cs, <<c>>), <<>>, s)
WellFormed(s) == Range(Segments(s)) \subseteq {codePointToUTF8(cp) : cp \in CodePoints}

\* A text from a client, before anything is done with it.
Fresh == root = Null /\ text = <<>> /\ output = <<>> /\ input # <<>>

-----------------------------------------------------------------------------
(* Properties *)

\* The texts the writers give a value.  StyledWriter cuts a name at a NUL.
Written(v) ==
    {FastWriter(v), BuiltWriter(v, defaultSettings),
     BuiltWriter(v, newStreamWriter(<<>>, FALSE, FALSE, FALSE)),
     BuiltWriter(v, newStreamWriter(Tab, FALSE, TRUE, FALSE))}
    \cup (IF \E n \in NamesOf(v) : 0 \in Range(n) THEN {} ELSE {StyledWriter(v)})

\* A document that lost its end is refused, wherever it is cut.
CutRefused(doc) == \A k \in 0..(Len(doc) - 1) : parse(SubSeq(doc, 1, k), all).status # "ok"

\* What a writer writes, on one line or on several, the reader reads back,
\* for every value that reading and editing lead to: escapes, empty
\* containers, holes and wrapped arrays included (json.cpp:3918-4826).  A
\* value nested to the reader's limit is refused, never read differently, and
\* no array or object is taken for whole before its last bracket
\* (json.cpp:602-688), as when the loader's buffer cuts a field.
WrittenIsRead ==
    input = <<>> =>
        /\ \A doc \in Written(root) :
              IF Height(root) < StackLimit
              THEN parse(doc, all).status = "ok" /\ Equal(parse(doc, all).value, Reread(root))
              ELSE parse(doc, all).status = "thrown"
        /\ isContainer(root) => CutRefused(FastText(root, FALSE))

\* A number that only sscanf takes: its exponent is unfinished or too large.
Loose(doc) ==
    \E i \in DOMAIN doc :
        /\ isDigit(doc[i]) \/ doc[i] = Minus
        /\ LET tok == TokenAt(doc, i)
           IN  decodeNumber(doc, tok).status # OurDecodeNumber(doc, tok).status

\* OurReader, "Implementation of class Reader" over again (json.cpp:976-1800),
\* accepts what Reader accepts and reads it as Reader does.  It refuses what
\* Reader refuses, at the same places, unless a number of the document is one
\* that only sscanf takes (json.cpp:745-755, 1609-1643); an apostrophe alone is
\* a token of its own to it.  Its strict mode reads no document differently
\* and, but for such a number, accepts no more than either mode of Reader.
ReadersAgree ==
    Fresh =>
        LET mine   == parse(input, all)
            ours   == OurParse(input, defaultFeatures)
            strict == OurParse(input, strictFeatures)
            plain  == Apostrophe \notin Range(input)
        IN  /\ plain /\ mine.status = "ok" => ours.status = "ok" /\ Equal(mine.value, ours.value)
            /\ strict.status = "ok" =>
                  ours.status = "ok" /\ isContainer(strict.value) /\ Equal(strict.value, ours.value)
            /\ \/ /\ plain => mine.status = ours.status
                  /\ plain /\ mine.status # "thrown" =>
                        mine.errs = ours.errs /\ Equal(mine.value, ours.value)
                  /\ strict.status = "ok" =>
                        mine.status = "ok" /\ parse(input, strictMode).status = "ok"
               \/ Loose(input)

\* The text of an integer is read as exactly that integer if an integer type
\* holds it, also above the integers that are doubles, else as the double next
\* to it: at every limit nothing wraps, and the value converts to the same
\* double whichever way it was read (json.cpp:690-757, 2924-2930).  A value has a text exactly if
\* isConvertibleTo says so, and the get_json_ helpers give the number and the
\* truth of the text they show.
NumbersExact ==
    /\ Fresh /\ IsIntegerText(input) =>
          LET n    == IntegerOf(input)
              read == parse(input, all).value
          IN  /\ n \in minInt64..maxUInt64 => read = NumberOf(n)
              /\ n \notin minInt64..maxUInt64 => read.type = realValue
              /\ asDouble(read) = Rounded(n * RealUnit)
    /\ \A v \in {root} \cup (IF isContainer(root) THEN Range(root.m) ELSE {}) :
          isConvertibleTo(v, stringValue) <=> asString(v) # Thrown
    /\ \A name \in {n \in MemberNames : isMember(root, n) /\ n # <<>> /\ 0 \notin Range(n)} :
          LET shown == get_json_string(root, name, <<>>)
              bool  == get_json_bool(root, name, FALSE)
          IN  /\ isNumeric(Member(root, name)) /\ IsIntegerText(shown) /\ IntegerOf(shown) \in minInt..maxInt
                 => get_json_int(root, name, 0) = IntegerOf(shown)
              /\ bool # Thrown => (bool <=> shown \notin {<<>>, <<48>>, FalseText})

\* The text functions of util_common.cpp and http.cpp lose and invent
\* nothing: a UTF-8 text is cut between characters and never ends the
\* process, its JSON form is read back unless it holds a newline or an
\* apostrophe (for which the form is no JSON), a parameter survives the
\* client's URL coding, the overloads of split agree where no field is empty,
\* and every gram is a piece of the text.
TextsKept ==
    Fresh =>
        /\ WellFormed(input) =>
              LET cs   == Segments(input)
                  read == parse(<<Quote>> \o format_json_string(input) \o <<Quote>>, all)
              IN  /\ \A n \in 0..3 : substr_utf8(input, n) = FlattenSeq(SubSeq(cs, 1, Min({n, Len(cs)})))
                  /\ read.status = "ok" <=> Range(input) \cap {NewLine, Apostrophe} = {}
                  /\ read.status = "ok" => read.value = StringOf(input)
        /\ URLDecode(URLCode(input)) = input
        /\ URLDecode(add_param(<<38>>, <<65, 61>>, input)) = <<38, 65, 61>> \o input
        /\ red_replace(input, BeginMark, EndMark) = input
        /\ replaceWithin(input, <<NewLine>>, <<32>>, Len(input))
               = [i \in DOMAIN input |-> IF input[i] = NewLine THEN 32 ELSE input[i]]
        /\ LET fields == splitChar(input, 44)
           IN  <<>> \notin Range(fields) /\ Last(fields) \notin {<<10>>, <<13>>}
               => /\ split(input, <<44>>) = fields
                  /\ splitPair(input, <<44>>) = SubSeq(fields, 1, IF Len(fields) < 2 THEN 0 ELSE 2)
        /\ Len(input) <= MaxGrams => \A g \in Range(ngram(input)) : FindFrom(string_convert(input), g, 1) # 0
        /\ FindFrom(input, trim(input), 1) # 0
=============================================================================
