----------------------------- MODULE JsonNumbers -----------------------------
(***************************************************************************)
(* The numbers of src/src/common/json/json.cpp: the tests isInt to         *)
(* isNumeric, and the conversions asInt to asBool that they are to         *)
(* promise.  A real counts fractions of 1 / RealUnit.  A double has        *)
(* DoubleBits bits: an integer that needs more is rounded.  A fraction is  *)
(* kept as the decimal it is written as, and one below 1 / RealUnit is not *)
(* told from nothing.                                                      *)
(***************************************************************************)
EXTENDS JsonContainer

CONSTANTS IntBits,      \* bits of Int and UInt: 32
          LargestBits,  \* bits of Int64 and UInt64: 64
          RealUnit,     \* the fractions a real tells apart
          DoubleBits,   \* the bits of a double's mantissa: 53
          DoubleScale,  \* the largest double is below 2 ^ (DoubleBits + DoubleScale): 971
          MaxExponent   \* the largest decimal exponent of a double: 308

maxInt    == 2 ^ (IntBits - 1) - 1
minInt    == -(2 ^ (IntBits - 1))
maxUInt   == 2 ^ IntBits - 1
maxInt64  == 2 ^ (LargestBits - 1) - 1
minInt64  == -(2 ^ (LargestBits - 1))
maxUInt64 == 2 ^ LargestBits - 1

IntOf(i)   == [Value(intValue) EXCEPT !.n = i]
UIntOf(i)  == [Value(uintValue) EXCEPT !.n = i]
RealOf(r)  == [Value(realValue) EXCEPT !.n = r]
StringOf(s) == [Value(stringValue) EXCEPT !.s = s]
BoolOf(b)  == [Value(booleanValue) EXCEPT !.n = IF b THEN 1 ELSE 0]

-----------------------------------------------------------------------------
(* Doubles *)

Magnitude(r) == IF r < 0 THEN -r ELSE r

\* What lies between the doubles around n: from 2 ^ DoubleBits on only every
\* second integer is one, from twice that on every fourth.
Spacing(n) == 2 ^ Cardinality({k \in 1..DoubleScale : n >= 2 ^ (DoubleBits + k - 1)})

\* The multiple of step next to n; of two, the even one.
Nearest(n, step) ==
    LET q == n \div step
        rest == n % step
    IN  IF 2 * rest > step \/ (2 * rest = step /\ q % 2 = 1) THEN (q + 1) * step ELSE q * step

\* The double next to a real.
Rounded(r) ==
    LET step == RealUnit * Spacing(Magnitude(r) \div RealUnit)
        near == Nearest(Magnitude(r), step)
    IN  CASE Magnitude(r) < RealUnit * 2 ^ (DoubleBits - 1) -> r
          [] Magnitude(r) >= RealUnit * 2 ^ (DoubleBits - 1) /\ r >= 0 -> near
          [] Magnitude(r) >= RealUnit * 2 ^ (DoubleBits - 1) /\ r < 0  -> -near

\* Above every double.
Infinity == RealUnit * 10 ^ (MaxExponent + 1)

\* The limits of the integer types as doubles.  The largest Int64 and the
\* largest UInt64 are none: as one they are rounded up.
AsDouble(i) == IF i \in {maxInt64, maxUInt64} THEN (i + 1) * RealUnit ELSE i * RealUnit

\* The narrow integers are doubles, and fit in the wide ones.
ASSUME JsonNumbersAssumption ==
    /\ IntBits \in Nat \ {0} /\ LargestBits \in Nat /\ LargestBits > IntBits
    /\ maxInt > 0 /\ maxUInt > maxInt /\ maxInt64 > maxUInt /\ maxUInt64 > maxInt64
    /\ RealUnit \in Nat \ {0} /\ \E k \in 0..9 : RealUnit = 10 ^ k
    /\ DoubleBits \in Nat \ {0} /\ DoubleScale \in Nat /\ MaxExponent \in Nat
    /\ \A k \in 0..DoubleScale : 2 ^ k \in Nat \ {0}
    /\ 2 ^ (DoubleBits + DoubleScale) <= 10 ^ (MaxExponent + 1)
    /\ \A i \in {minInt, maxInt, maxUInt, minInt64, maxInt64, maxUInt64} : AsDouble(i) = Rounded(i * RealUnit)

-----------------------------------------------------------------------------
(* Conversion *)

\* A real against the bounds of an integer type.
InRange(r, min, max) == AsDouble(min) <= r /\ r <= AsDouble(max)

IsIntegral_Any(r) == TRUE

IsIntegral(r) == r % RealUnit = 0

\* isInt and isUInt
FitsInt(v, min, max) ==
    CASE v.type \in {intValue, uintValue} -> min <= v.n /\ v.n <= max
      [] v.type = realValue -> InRange(v.n, min, max) /\ IsIntegral(v.n)
      [] OTHER -> FALSE

isInt(v)  == FitsInt(v, minInt, maxInt)
isUInt(v) == FitsInt(v, 0, maxUInt)

\* A real must be strictly below the rounded limit.
isInt64(v) ==
    CASE v.type \in {intValue, uintValue} -> v.n <= maxInt64
      [] v.type = realValue -> AsDouble(minInt64) <= v.n /\ v.n < AsDouble(maxInt64) /\ IsIntegral(v.n)
      [] OTHER -> FALSE

isUInt64(v) ==
    CASE v.type \in {intValue, uintValue} -> v.n >= 0
      [] v.type = realValue -> 0 <= v.n /\ v.n < AsDouble(maxUInt64) /\ IsIntegral(v.n)
      [] OTHER -> FALSE

isIntegral(v) == isInt64(v) \/ isUInt64(v)
isDouble(v)   == v.type = realValue \/ isIntegral(v)
isNumeric(v)  == isIntegral(v) \/ isDouble(v)

\* A cast from double drops the fraction.
Truncated(r) == IF r >= 0 THEN r \div RealUnit ELSE -((-r) \div RealUnit)

AsInteger(v, fits, min, max) ==
    CASE v.type \in {intValue, uintValue} -> IF fits THEN v.n ELSE Thrown
      [] v.type = realValue -> IF InRange(v.n, min, max) THEN Truncated(v.n) ELSE Thrown
      [] v.type = nullValue -> 0
      [] v.type = booleanValue -> v.n
      [] OTHER -> Thrown

asInt(v)    == AsInteger(v, isInt(v), minInt, maxInt)
asUInt(v)   == AsInteger(v, isUInt(v), 0, maxUInt)
asInt64(v)  == AsInteger(v, isInt64(v), minInt64, maxInt64)
asUInt64(v) == AsInteger(v, isUInt64(v), 0, maxUInt64)

asDouble(v) ==
    CASE v.type \in {intValue, uintValue} -> Rounded(v.n * RealUnit)
      [] v.type = realValue -> v.n
      [] v.type = booleanValue -> v.n * RealUnit
      [] v.type = nullValue -> 0
      [] OTHER -> Thrown

asBool(v) ==
    CASE v.type \in {booleanValue, intValue, uintValue, realValue} -> v.n # 0
      [] v.type = nullValue -> FALSE
      [] OTHER -> Thrown

isConvertibleTo(v, t) ==
    CASE t = nullValue -> \/ isNumeric(v) /\ asDouble(v) = 0
                          \/ v.type = booleanValue /\ v.n = 0
                          \/ v.type = stringValue /\ v.s = <<>>
                          \/ isContainer(v) /\ DOMAIN v.m = {}
                          \/ v.type = nullValue
      [] t = intValue -> \/ isInt(v) \/ v.type \in {booleanValue, nullValue}
                         \/ v.type = realValue /\ InRange(v.n, minInt, maxInt)
      [] t = uintValue -> \/ isUInt(v) \/ v.type \in {booleanValue, nullValue}
                          \/ v.type = realValue /\ InRange(v.n, 0, maxUInt)
      [] t \in {realValue, booleanValue} -> isNumeric(v) \/ v.type \in {booleanValue, nullValue}
      [] t = stringValue -> isNumeric(v) \/ v.type \in {booleanValue, stringValue, nullValue}
      [] OTHER -> v.type \in {t, nullValue}
=============================================================================
