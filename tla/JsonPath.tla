------------------------------ MODULE JsonPath ------------------------------
(***************************************************************************)
(* Json::Path of src/src/common/json/json.cpp and the get_json_* helpers   *)
(* that look a value up by its path.  The program gives a path no          *)
(* arguments, so a '%' stands for none.                                    *)
(***************************************************************************)
EXTENDS JsonReader

CONSTANT Endless      \* the result of a call that never returns

Percent == 37

\* A PathArgument of kindIndex or kindKey.
IndexArg(i) == [kind |-> "index", index |-> i, key |-> <<>>]
KeyArg(k)   == [kind |-> "key", index |-> 0, key |-> k]

\* An index is an unsigned Int, and wraps.
IndexOf(digits) == DecimalOf(digits) % 2 ^ IntBits

RECURSIVE makePath(_, _, _)
\* The arguments that the rest of a path adds.  Nothing reports a path that
\* is no path.  strchr("[.", c) finds the terminating NUL too: at a NUL in the
\* path the loop goes on with empty names for ever.
makePath(path, i, args) ==
    LET digits == DigitsEnd(path, i + 1)
        name   == FirstOf(path, i, {LBracket, Dot, 0})
    IN  IF i > Len(path) THEN args
        ELSE CASE path[i] = LBracket /\ ByteIn(path, i + 1) = Percent -> makePath(path, i + 2, args)
               [] path[i] = LBracket /\ ByteIn(path, i + 1) # Percent ->
                     makePath(path, Next1(path, digits), Append(args, IndexArg(IndexOf(SubSeq(path, i + 1, digits - 1)))))
               [] path[i] \in {Percent, Dot} -> makePath(path, i + 1, args)
               [] path[i] = 0 -> Endless
               [] OTHER -> makePath(path, name, Append(args, KeyArg(SubSeq(path, i, name - 1))))

\* One argument applied to the value found so far; <<>> when there is none.
Resolved(found, arg) ==
    CASE found = <<>> -> <<>>
      [] found # <<>> /\ arg.kind = "index" ->
            IF found[1].type = arrayValue /\ isValidIndex(found[1], arg.index)
            THEN <<Element(found[1], arg.index)>> ELSE <<>>
      [] OTHER -> IF isMember(found[1], arg.key) THEN <<Member(found[1], arg.key)>> ELSE <<>>

Along(root, args, default) ==
    IF args = Endless THEN Endless
    ELSE LET found == FoldLeft(Resolved, <<root>>, args) IN IF found = <<>> THEN default ELSE found[1]

\* Path::resolve with a default
resolve(root, path, default) == Along(root, makePath(path, 1, <<>>), default)

\* What the helpers make of the value they found.
TextOf_Numbers(ref) ==
    CASE ref = Endless -> Endless
      [] ref # Endless -> IF isContainer(ref) \/ isNumeric(ref) THEN <<>> ELSE asString(ref)

TextOf(ref) ==
    CASE ref = Endless -> Endless
      [] ref # Endless -> IF isContainer(ref) THEN <<>> ELSE asString(ref)

NumberIn(ref, def) ==
    CASE ref = Endless -> Endless
      [] ref # Endless -> IF isInt(ref) THEN asInt(ref) ELSE def

\* asBool throws on a string.
TruthOf(ref, boolDef) ==
    CASE ref = Endless -> Endless
      [] ref # Endless -> IF isContainer(ref) THEN boolDef ELSE asBool(ref)

get_json_string(root, path, def) == TextOf(resolve(root, path, StringOf(def)))

get_json_int(root, path, def) == NumberIn(resolve(root, path, IntOf(def)), def)

get_json_bool(root, path, boolDef) == TruthOf(resolve(root, path, BoolOf(boolDef)), boolDef)

\* "appId" and "userId"
appId  == <<97, 112, 112, 73, 100>>
userId == <<117, 115, 101, 114, 73, 100>>
=============================================================================
