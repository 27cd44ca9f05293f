------------------------------ MODULE TextUtil ------------------------------
(***************************************************************************)
(* The string functions of src/src/Worker/util_common.cpp, on texts that   *)
(* are sequences of bytes.  char is signed: a byte of 128 or more compares *)
(* below 0, and as an unsigned int above 128.                              *)
(***************************************************************************)
EXTENDS Integers, SequencesExt

CONSTANT Exited       \* the result of a call that ends the process

\* std::string::find: the first place of a text from i on, 0 for npos.
FindFrom(s, what, i) ==
    LET at == {j \in i..(Len(s) - Len(what) + 1) : SubSeq(s, j, j + Len(what) - 1) = what}
    IN  IF at = {} THEN 0 ELSE Min(at)

DropFirst(s, n) == SubSeq(s, n + 1, Len(s))

-----------------------------------------------------------------------------
(* Splitting *)

RECURSIVE SplitFrom(_, _, _, _)
\* An empty field becomes the delimiter itself, unless it starts at the last
\* byte of the text; a last field that is empty or one line end is dropped.
SplitFrom(src, delimit, last, v) ==
    LET index == FindFrom(src, delimit, last)
        rest  == DropFirst(src, last - 1)
        field == IF index # last THEN <<SubSeq(src, last, index - 1)>>
                 ELSE IF index # Len(src) THEN <<delimit>>
                 ELSE <<>>
    IN  CASE index = 0 -> IF rest \in {<<>>, <<13>>, <<10>>} THEN v ELSE Append(v, rest)
          [] index # 0 -> SplitFrom(src, delimit, index + Len(delimit), v \o field)

split(src, delimit) ==
    IF src = <<>> \/ delimit = <<>> THEN <<>> ELSE SplitFrom(src, delimit, 1, <<>>)

\* The overload that wants a key and a value: <<>> for false.
splitPair(src, delimit) ==
    LET parts == split(src, delimit)
    IN  IF Len(parts) < 2 THEN <<>> ELSE <<parts[1], parts[2]>>

RECURSIVE splitChar(_, _)
\* The overload for one character: getline until the end of the stream.
splitChar(s, delim) ==
    LET index == FindFrom(s, <<delim>>, 1)
    IN  IF index = 0 THEN <<s>> ELSE <<SubSeq(s, 1, index - 1)>> \o splitChar(DropFirst(s, index), delim)

-----------------------------------------------------------------------------
(* UTF-8 *)

\* The length a first byte announces, 0 if none begins with it.
LeadSize(c) ==
    CASE c < 128        -> 1
      [] c \in 194..223 -> 2
      [] c \in 224..239 -> 3
      [] c \in 240..247 -> 4
      [] c \in 248..251 -> 5
      [] c \in 252..253 -> 6
      [] OTHER          -> 0

\* (sin[p] ^ 0x80) < 0x40 on a signed char: true of every byte from 128 on.
Continues(c) == c >= 128

\* The least second byte for which the sequence is not longer than it need
\* be.  c >= 0xfd never holds of a 5-byte sequence, and waives the 6-byte test.
LeastSecond(c) ==
    CASE c = 224        -> 160
      [] c = 240        -> 144
      [] c \in 248..251 -> 136
      [] c = 252        -> 132
      [] OTHER          -> 0

\* The sequence at the front of a text, or Exited: both functions end the
\* process on a byte they do not like.
CharSize(s) ==
    LET n == LeadSize(s[1])
    IN  IF /\ n # 0 /\ n <= Len(s)
           /\ \A i \in 2..n : Continues(s[i])
           /\ n > 1 => s[2] >= LeastSecond(s[1])
        THEN n ELSE Exited

RECURSIVE Characters(_)
Characters(s) ==
    IF s = <<>> THEN <<>>
    ELSE LET n    == CharSize(s)
             rest == Characters(DropFirst(s, n))
         IN  IF n = Exited THEN Exited
             ELSE IF rest = Exited THEN Exited
             ELSE <<SubSeq(s, 1, n)>> \o rest

substr_utf8_Bytes(src, len) == SubSeq(src, 1, Min({len, Len(src)}))

\* The whole text is checked, however few characters are asked for.
substr_utf8(src, len) ==
    LET cs == Characters(src)
    IN  IF cs = Exited THEN Exited ELSE FlattenSeq(SubSeq(cs, 1, Min({len, Len(cs)})))

\* Newline, the two quotes and the backslash get a backslash in front.
format_json_string(src) ==
    LET cs == Characters(src)
        Word(c) == IF c \in {<<10>>, <<34>>, <<39>>, <<92>>} THEN <<92>> \o c ELSE c
    IN  IF cs = Exited THEN Exited ELSE FlattenSeq([i \in DOMAIN cs |-> Word(cs[i])])

-----------------------------------------------------------------------------
(* GBK: a byte of 128 or more and the one behind it are a character. *)

is_english_string(str) == \A i \in DOMAIN str : str[i] < 128

GbkSize(s, i) == IF s[i] >= 128 THEN 2 ELSE 1

\* A position that may be past the end, as substr allows.
Piece(s, i, n) == SubSeq(s, i, Min({i + n - 1, Len(s)}))

\* The middle dot, as GB18030 spells it in four bytes and GBK in two.
LongDot  == <<129, 54, 166, 49>>
ShortDot == <<161, 164>>

RECURSIVE ShortDots(_, _)
\* The test i + 4 < length misses a dot at the very end of the text.
ShortDots(s, i) ==
    CASE i > Len(s) -> <<>>
      [] i <= Len(s) /\ i + 4 <= Len(s) /\ Piece(s, i, 4) = LongDot -> ShortDot \o ShortDots(s, i + 4)
      [] OTHER -> <<s[i]>> \o ShortDots(s, i + 1)

\* Capital letters are put in lower case byte by byte, the second byte of a
\* GBK character too.
string_convert(str_src) ==
    LET src == ShortDots(str_src, 1)
    IN  [i \in DOMAIN src |-> IF src[i] \in 65..90 THEN src[i] + 32 ELSE src[i]]

RECURSIVE GramsAt(_, _, _, _)
\* The grams that start at one character: from two characters up to five, or
\* without a limit while the text is ASCII.
GramsAt(str, j, tmp, word_len) ==
    LET longer == tmp \o Piece(str, j, GbkSize(str, j))
        gram   == IF word_len >= 2 /\ (word_len <= 5 \/ is_english_string(longer)) THEN <<longer>> ELSE <<>>
    IN  IF j > Len(str) THEN <<>>
        ELSE IF str[j] = 32 \/ (word_len > 5 /\ ~is_english_string(tmp)) THEN <<>>
        ELSE gram \o GramsAt(str, j + GbkSize(str, j), longer, word_len + 1)

RECURSIVE GramsFrom(_, _)
GramsFrom(str, i) ==
    CASE i > Len(str) -> <<>>
      [] i <= Len(str) /\ str[i] = 32 -> GramsFrom(str, i + 1)
      [] OTHER -> GramsAt(str, i, <<>>, 1) \o GramsFrom(str, i + GbkSize(str, i))

\* Each gram once, where it came first; nothing is put in del_list.
ngram(str_r) == FoldLeft(LAMBDA v, g : IF g \in Range(v) THEN v ELSE Append(v, g), <<>>,
                         GramsFrom(string_convert(str_r), 1))

\* The marks of highlighted text.
BeginMark == <<253, 161>>
EndMark   == <<253, 162>>

RECURSIVE RedFrom(_, _, _, _)
\* The byte behind the last one reads as the terminating NUL.
RedFrom(ori, i, begin, end) ==
    LET mark == Piece(ori, i, 2)
        text == CASE mark = BeginMark -> begin
                  [] mark = EndMark -> end
                  [] OTHER -> Piece(ori, i, GbkSize(ori, i))
    IN  IF i > Len(ori) THEN <<>> ELSE text \o RedFrom(ori, i + GbkSize(ori, i), begin, end)

red_replace(ori, replace_begin, replace_end) == RedFrom(ori, 1, replace_begin, replace_end)

-----------------------------------------------------------------------------
(* Replacing and trimming *)

ReplaceFirst(str, lst, rst) ==
    LET at == FindFrom(str, lst, 1)
    IN  SubSeq(str, 1, at - 1) \o rst \o DropFirst(str, at + Len(lst) - 1)

RECURSIVE replaceWithin(_, _, _, _)
\* The loop of replace over at most so many rounds; what it leaves may still
\* hold lst, and then the call goes on.
replaceWithin(str, lst, rst, rounds) ==
    IF rounds = 0 \/ FindFrom(str, lst, 1) = 0 THEN str
    ELSE replaceWithin(ReplaceFirst(str, lst, rst), lst, rst, rounds - 1)

isBlank(c) == c \in {32, 9, 10, 13}

\* find_first_not_of and find_last_not_of; a blank text is erased whole.
trim(s) ==
    LET kept == {i \in DOMAIN s : ~isBlank(s[i])}
    IN  IF kept = {} THEN <<>> ELSE SubSeq(s, Min(kept), Max(kept))
=============================================================================
