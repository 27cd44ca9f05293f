------------------------------ MODULE MCTexts -------------------------------
(* Documents for the readers: every short sequence of lexemes, every        *)
(* integer around the limits, numbers of every form, strings of every       *)
(* escape, and some values of each kind inside each other.                  *)
EXTENDS Texts

Strings(pieces, n) == {FlattenSeq(s) : s \in UNION {[1..k -> pieces] : k \in 1..n}}

Quoted(s) == <<Quote>> \o s \o <<Quote>>

a     == 97
Comma == <<44>>
Colon == <<58>>

Lexemes ==
    {<<LBrace>>, <<RBrace>>, <<LBracket>>, <<RBracket>>, Comma, Colon, Quoted(<<a>>), <<49>>,
     <<Slash, Star, Star, Slash>>, <<Quote>>}

NumberTexts == Strings({<<Minus>>, <<50>>, <<53>>, <<Dot>>, <<101>>}, 4)

Integers_ == {IntText(n) : n \in -300..300}

\* Plain, escaped and UTF-8 characters, a NUL, and half a surrogate pair.
Pieces ==
    {<<a>>, <<195, 169>>, <<228, 184, 173>>, <<240, 159, 152, 128>>, <<Apostrophe>>, <<NewLine>>,
     <<Backslash, Quote>>, <<Backslash, Backslash>>, <<Backslash, 110>>,
     <<Backslash, 117, 48, 48, 48, 48>>, <<Backslash, 117, 100, 56, 51, 100>>,
     <<Backslash, 117, 100, 101, 48, 48>>}

StringTexts == {Quoted(s) : s \in Strings(Pieces, 2)}

\* Texts for the text functions, not in quotes.
Plain == Strings({<<a>>, <<195, 169>>, <<240, 159, 152, 128>>, <<Quote>>, <<Apostrophe>>, <<NewLine>>,
                  <<Backslash>>, Comma, <<32>>, <<66>>, BeginMark}, 3)

\* The last two are numbers to OurReader only: "2e" and "1e9".
Parts == {<<49>>, <<50, 50>>, NullText, Quoted(<<a>>), <<LBracket, RBracket>>, <<LBrace, RBrace>>,
          Quoted(<<Backslash, Quote>>), <<Minus, 49, Dot, 53>>, TrueText,
          <<50, 101>>, <<49, 101, 57>>}

Array(p, q) == <<LBracket>> \o p \o Comma \o q \o <<RBracket>>
Object(k, p) == <<LBrace>> \o Quoted(k) \o Colon \o p \o <<RBrace>>

Nested ==
    {Array(p, q) : p \in Parts, q \in Parts} \cup {Object(<<a>>, p) : p \in Parts}
    \cup {Object(<<a>>, Array(p, Object(<<>>, q))) : p \in Parts, q \in Parts}
    \cup {Array(Array(Array(p, p), Array(p, p)), p) : p \in Parts}

MCDocuments ==
    Strings(Lexemes, 4) \cup NumberTexts \cup Integers_ \cup StringTexts \cup Plain \cup Nested

\* The last one, stored anywhere, is nested too deep to be read back.
MCItems == {Null, IntOf(1), RealOf(50), StringOf(<<Quote, 0>>),
            append(Value(arrayValue), append(Value(arrayValue), IntOf(2))), Assigned(MemberMade(Null, <<a>>), <<a>>, Value(objectValue))}

MCNames == {<<a>>, <<>>, <<a, 0>>}

MCPoints == {a, 233, 20013, 128512, Quote, Apostrophe, NewLine, Backslash, 44, 32, 66}
=============================================================================
