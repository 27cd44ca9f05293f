------------------------------ MODULE JsonValue ------------------------------
(***************************************************************************)
(* Json::Value of src/src/common/json/json.cpp: how two values compare,    *)
(* and the text a value converts to.                                       *)
(***************************************************************************)
EXTENDS JsonNumbers

-----------------------------------------------------------------------------
(* Comparison *)

\* memcmp over the shorter length, then the lengths; numerical on indices.
KeyLess(k, l) ==
    \E i \in 0..Len(k) :
       /\ i <= Len(l) /\ \A j \in 1..i : k[j] = l[j]
       /\ i < Len(l) /\ (i < Len(k) => k[i + 1] < l[i + 1])

\* The keys of a map in the order of its iterators.
KeysOf(v) == SetToSortSeq(DOMAIN v.m, KeyLess)

\* operator==
RECURSIVE Equal(_, _)
Equal(a, b) ==
    /\ a.type = b.type
    /\ CASE a.type \in {intValue, uintValue, realValue, booleanValue} -> a.n = b.n
         [] a.type = stringValue -> a.s = b.s
         [] isContainer(a) ->
              /\ DOMAIN a.m = DOMAIN b.m
              /\ \A k \in DOMAIN a.m : Equal(a.m[k], b.m[k])
         [] a.type = nullValue -> TRUE

-----------------------------------------------------------------------------
(* Texts *)

RECURSIVE uintToString(_)
uintToString(n) == IF n < 10 THEN <<48 + n>> ELSE Append(uintToString(n \div 10), 48 + (n % 10))

\* valueToString of an integer; '-' is 45.
IntText(i) == IF i < 0 THEN <<45>> \o uintToString(-i) ELSE uintToString(i)

RECURSIVE FractionText(_)
FractionText(f) ==
    IF f = 0 THEN <<>> ELSE <<48 + ((10 * f) \div RealUnit)>> \o FractionText((10 * f) % RealUnit)

\* "1e+9999"
InfinityText == <<49, 101, 43, 57, 57, 57, 57>>

\* "%.17g" of a double: no fraction, and no '.', when it is 0.
FiniteText(r) ==
    LET frac == FractionText(r % RealUnit)
    IN  uintToString(r \div RealUnit) \o (IF frac = <<>> THEN <<>> ELSE <<46>> \o frac)

\* valueToString of a double
RealText(r) ==
    (IF r < 0 THEN <<45>> ELSE <<>>)
    \o (IF Magnitude(r) = Infinity THEN InfinityText ELSE FiniteText(Magnitude(r)))

TrueText  == <<116, 114, 117, 101>>
FalseText == <<102, 97, 108, 115, 101>>

asString(v) ==
    CASE v.type = nullValue -> <<>>
      [] v.type = stringValue -> v.s
      [] v.type = booleanValue -> IF v.n = 1 THEN TrueText ELSE FalseText
      [] v.type \in {intValue, uintValue} -> IntText(v.n)
      [] v.type = realValue -> RealText(v.n)
      [] OTHER -> Thrown

getMemberNames(v) ==
    CASE v.type = objectValue -> KeysOf(v)
      [] v.type = nullValue -> <<>>
      [] OTHER -> Thrown
=============================================================================
