---------------------------- MODULE JsonContainer ----------------------------
(***************************************************************************)
(* The values of src/src/common/json/json.cpp, and how arrays and objects  *)
(* are read and edited.  Each operator takes the value before and gives    *)
(* the value after; Thrown stands for the exception of a failed            *)
(* JSON_ASSERT_MESSAGE.                                                    *)
(*                                                                         *)
(* type is the ValueType, n the number of an integer, a Boolean (0 or 1)   *)
(* or a real, s the bytes of a string, m the std::map of an array or an    *)
(* object.  A CZString, the key of that map, is the bytes of a name, or    *)
(* <<i>> for the index i.  Comments are not kept (parse is called with     *)
(* collectComments FALSE), and there is no string with a null pointer.     *)
(***************************************************************************)
EXTENDS Integers, SequencesExt

CONSTANT Thrown      \* the result of an operation that throws

nullValue    == 0
intValue     == 1
uintValue    == 2
realValue    == 3
stringValue  == 4
booleanValue == 5
arrayValue   == 6
objectValue  == 7

\* Value(ValueType)
Value(t) == [type |-> t, n |-> 0, s |-> <<>>, m |-> <<>>]

Null       == Value(nullValue)

isContainer(v) == v.type \in {arrayValue, objectValue}

-----------------------------------------------------------------------------
(* Arrays and objects *)

IndexKey(i) == <<i>>

\* The size of an array is its highest index plus one.
size(v) ==
    CASE v.type = arrayValue /\ DOMAIN v.m # {} -> Max({k[1] : k \in DOMAIN v.m}) + 1
      [] v.type = objectValue -> Cardinality(DOMAIN v.m)
      [] OTHER -> 0

empty(v) == v.type \in {nullValue, arrayValue, objectValue} /\ size(v) = 0

clear(v) == IF v.type = nullValue \/ isContainer(v) THEN [v EXCEPT !.m = <<>>] ELSE Thrown

\* A null becomes an empty container of the wanted type.
Become(v, t) == IF v.type = nullValue THEN Value(t) ELSE v

\* A map after the assignments of another one.
Updated(old, new) ==
    [k \in DOMAIN old \cup DOMAIN new |-> IF k \in DOMAIN new THEN new[k] ELSE old[k]]

WithKey(v, k) ==
    IF k \in DOMAIN v.m THEN v ELSE [v EXCEPT !.m = Updated(@, [x \in {k} |-> Null])]

\* operator[](ArrayIndex): the element, made null if it is missing.
ElementMade(v, i) ==
    IF v.type \in {nullValue, arrayValue} THEN WithKey(Become(v, arrayValue), IndexKey(i)) ELSE Thrown

\* resolveReference(key, cend), which is operator[](std::string).
MemberMade(v, name) ==
    IF v.type \in {nullValue, objectValue} THEN WithKey(Become(v, objectValue), name) ELSE Thrown

\* An assignment through the reference that one of the two returned.
Assigned(made, k, x) == IF made = Thrown THEN Thrown ELSE [made EXCEPT !.m[k] = x]

\* operator[](ArrayIndex) const
Element(v, i) ==
    CASE v.type \notin {nullValue, arrayValue} -> Thrown
      [] v.type = arrayValue /\ IndexKey(i) \in DOMAIN v.m -> v.m[IndexKey(i)]
      [] OTHER -> Null

isValidIndex(v, i) == i < size(v)

\* find, where Null stands for the missing member too: operator[](key) const.
Member(v, name) ==
    CASE v.type \notin {nullValue, objectValue} -> Thrown
      [] v.type = objectValue /\ name \in DOMAIN v.m -> v.m[name]
      [] OTHER -> Null

isMember(v, name) == v.type = objectValue /\ name \in DOMAIN v.m

append(v, x) == Assigned(ElementMade(v, size(v)), IndexKey(size(v)), x)

Without(v, keys) == [v EXCEPT !.m = Restrict(@, DOMAIN @ \ keys)]

\* assert(size() == newSize) is compiled in, the build does not set NDEBUG: it
\* fails when the new last element is one that was never made.
Shrunk(v, newSize) ==
    LET kept == Without(v, {IndexKey(i) : i \in newSize..(size(v) - 1)})
    IN  IF size(kept) = newSize THEN kept ELSE Thrown

resize(v, newSize) ==
    IF v.type \notin {nullValue, arrayValue} THEN Thrown
    ELSE IF newSize = 0 THEN clear(Become(v, arrayValue))
    ELSE IF newSize > size(v) THEN ElementMade(v, newSize - 1)
    ELSE Shrunk(v, newSize)

removeMember(v, name) == IF isMember(v, name) THEN Without(v, {name}) ELSE v

removeIndex_Leftover(v, index) ==
    IF v.type = arrayValue /\ IndexKey(index) \in DOMAIN v.m
    THEN Without(v, {IndexKey(index)})
    ELSE v

\* The elements behind index move down, a missing one as a null, and the
\* last is erased.
removeIndex(v, index) ==
    IF v.type = arrayValue /\ IndexKey(index) \in DOMAIN v.m
    THEN LET last  == size(v) - 1
             moved == [k \in {IndexKey(i) : i \in index..(last - 1)} |-> Element(v, k[1] + 1)]
         IN  Without([v EXCEPT !.m = Updated(@, moved)], {IndexKey(last)})
    ELSE v
=============================================================================
