------------------------------ MODULE JsonEdit ------------------------------
(***************************************************************************)
(* A Json::Value that its owner edits by the calls of                      *)
(* src/src/common/json/json.cpp, one call after the other.  Texts adds the *)
(* documents that are read into it.                                        *)
(***************************************************************************)
EXTENDS JsonNumbers

CONSTANTS Items,        \* the values that calls store
          MemberNames,  \* the names that calls use
          MaxSize       \* bound: elements or members of an edited value

VARIABLE root           \* the Value edited

\* The arrays that calls make of Items.
Arrays ==
    [type : {arrayValue}, n : {0}, s : {<<>>},
     m : UNION {[{IndexKey(i) : i \in I} -> Items \cup {Null}] : I \in SUBSET (0..MaxSize)}]

\* What a ValueType says of the number; the other types leave it unused.
HasNumber(v) == v.n \in Int /\ (v.type = booleanValue => v.n \in 0..1)

\* An exception is not a value, nor what a value converts to.
ASSUME EditAssumption ==
    /\ MaxSize \in Nat
    /\ Thrown \notin Arrays /\ Thrown \notin Int /\ Thrown \notin BOOLEAN
    /\ \A x \in Items : HasNumber(x)

\* One call on root, which an exception leaves as it is.
Edit(v) ==
    /\ v # Thrown /\ size(v) <= MaxSize
    /\ root' = v

SetMember == \E name \in MemberNames, x \in Items : Edit(Assigned(MemberMade(root, name), name, x))

SetElement == \E i \in 0..(MaxSize - 1), x \in Items : Edit(Assigned(ElementMade(root, i), IndexKey(i), x))

AppendItem == \E x \in Items : Edit(append(root, x))

Resize == \E n \in 0..MaxSize : Edit(resize(root, n))

RemoveMember == \E name \in MemberNames : Edit(removeMember(root, name))

RemoveIndex == \E i \in 0..MaxSize : Edit(removeIndex(root, i))

Clear == Edit(clear(root))

EditInit == root = Null

EditNext == SetMember \/ SetElement \/ AppendItem \/ Resize \/ RemoveMember \/ RemoveIndex \/ Clear

EditSpec == EditInit /\ [][EditNext]_root

-----------------------------------------------------------------------------
\* An array as a sequence, and whether it has an element at every index.
Elements(v) == [i \in 1..size(v) |-> Element(v, i - 1)]
Dense(v) == v.type = arrayValue /\ DOMAIN v.m = {IndexKey(i) : i \in 0..(size(v) - 1)}

\* An array is a map from indices, but the calls edit it as a sequence: what
\* is appended comes last, what is removed closes up, a resize keeps the
\* front, and every other element keeps its place (json.cpp:3067-3310).
ArraysAreSequences ==
    Dense(root) =>
        /\ \A x \in Items : Dense(append(root, x)) /\ Elements(append(root, x)) = Append(Elements(root), x)
        /\ \A i \in 0..(size(root) - 1) :
              /\ Dense(removeIndex(root, i))
              /\ Elements(removeIndex(root, i)) = RemoveAt(Elements(root), i + 1)
              /\ Elements(resize(root, i)) = SubSeq(Elements(root), 1, i)
        /\ Elements(resize(root, size(root) + 2)) = Elements(root) \o <<Null, Null>>

\* The number a value of a number type holds.
ExactValue(v) == IF v.type = realValue THEN v.n ELSE v.n * RealUnit

\* isConvertibleTo promises exactly the conversions that do not throw, what
\* asInt and asUInt give fits their type, and where a test isInt, isUInt,
\* isInt64 or isUInt64 holds the conversion changes no value.
ConvertsExactly(v) ==
    /\ isConvertibleTo(v, intValue) <=> asInt(v) # Thrown
    /\ isConvertibleTo(v, uintValue) <=> asUInt(v) # Thrown
    /\ isConvertibleTo(v, realValue) <=> asDouble(v) # Thrown
    /\ isConvertibleTo(v, booleanValue) <=> asBool(v) # Thrown
    /\ asInt(v) \in minInt..maxInt \cup {Thrown}
    /\ asUInt(v) \in 0..maxUInt \cup {Thrown}
    /\ isInt(v) => asInt(v) * RealUnit = ExactValue(v)
    /\ isUInt(v) => asUInt(v) * RealUnit = ExactValue(v)
    /\ isInt64(v) => asInt64(v) * RealUnit = ExactValue(v)
    /\ isUInt64(v) => asUInt64(v) * RealUnit = ExactValue(v)

\* The tests and the conversions of a Value are written apart from each other,
\* with limits that are rounded as doubles; for a value that calls lead to and
\* for each of its elements they fit together, at every limit, whatever the
\* type the number is kept in (json.cpp:2819-3018, 3385-3465).
ConversionsExact ==
    /\ ConvertsExactly(root)
    /\ isContainer(root) => \A k \in DOMAIN root.m : ConvertsExactly(root.m[k])
=============================================================================
