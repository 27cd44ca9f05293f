------------------------------ MODULE JsonDepth ------------------------------
(***************************************************************************)
(* The nesting limit of Json::Reader when several loader threads parse at  *)
(* once.  The depth is counted in stackDepth_g, one static int for the     *)
(* whole process (src/src/common/json/json.cpp:218-219), which no lock     *)
(* protects: parse sets it to 0, readValue tests and increments it on      *)
(* entry and decrements it on return.  An increment loads the counter and  *)
(* stores it in two steps.                                                 *)
(*                                                                         *)
(* A document is any nesting: at each level a loader may go deeper, return *)
(* or meet an error.                                                       *)
(***************************************************************************)
EXTENDS Integers

CONSTANTS Loaders,     \* the loader threads
          StackLimit,  \* stackLimit_g: 1000
          MaxLevel     \* bound: how deep documents are nested

VARIABLES stackDepth_g,
          level,       \* how many readValue calls each loader is in
          pc,          \* what each loader is about to do
          loaded       \* the value each loader loaded from stackDepth_g

vars == <<stackDepth_g, level, pc, loaded>>

Init ==
    /\ stackDepth_g = 0
    /\ level = [l \in Loaders |-> 0]
    /\ pc = [l \in Loaders |-> "idle"]
    /\ loaded = [l \in Loaders |-> 0]

\* Reader::parse, up to the first readValue.
parse(l) ==
    /\ pc[l] = "idle"
    /\ stackDepth_g' = 0
    /\ pc' = [pc EXCEPT ![l] = "read"]
    /\ UNCHANGED <<level, loaded>>

\* The test at the top of readValue, and the load of ++stackDepth_g.
readValue(l) ==
    /\ pc[l] = "read" /\ level[l] < MaxLevel
    /\ stackDepth_g < StackLimit
    /\ level' = [level EXCEPT ![l] = @ + 1]
    /\ loaded' = [loaded EXCEPT ![l] = stackDepth_g]
    /\ pc' = [pc EXCEPT ![l] = "entered"]
    /\ UNCHANGED stackDepth_g

\* throwRuntimeError: the process ends.
exceeded(l) ==
    /\ pc[l] = "read" /\ level[l] < MaxLevel
    /\ stackDepth_g >= StackLimit
    /\ pc' = [k \in Loaders |-> "dead"]
    /\ UNCHANGED <<stackDepth_g, level, loaded>>

entered(l) ==
    /\ pc[l] = "entered"
    /\ stackDepth_g' = loaded[l] + 1
    /\ pc' = [pc EXCEPT ![l] = "read"]
    /\ UNCHANGED <<level, loaded>>

\* A syntax error returns before the decrement; the callers then only return.
addError(l) ==
    /\ pc[l] = "read" /\ level[l] > 0
    /\ level' = [level EXCEPT ![l] = @ - 1]
    /\ pc' = [pc EXCEPT ![l] = IF level[l] = 1 THEN "idle" ELSE "unwind"]
    /\ UNCHANGED <<stackDepth_g, loaded>>

\* --stackDepth_g at the end of a value.
leave(l) ==
    /\ pc[l] \in {"read", "unwind"} /\ level[l] > 0
    /\ loaded' = [loaded EXCEPT ![l] = stackDepth_g]
    /\ pc' = [pc EXCEPT ![l] = IF pc[l] = "read" THEN "left" ELSE "unwound"]
    /\ UNCHANGED <<stackDepth_g, level>>

left(l) ==
    /\ pc[l] \in {"left", "unwound"}
    /\ stackDepth_g' = loaded[l] - 1
    /\ level' = [level EXCEPT ![l] = @ - 1]
    /\ pc' = [pc EXCEPT ![l] = CASE level[l] = 1 -> "idle"
                                 [] level[l] > 1 /\ pc[l] = "left" -> "read"
                                 [] OTHER -> "unwind"]
    /\ UNCHANGED loaded

Next == \E l \in Loaders :
    parse(l) \/ readValue(l) \/ exceeded(l) \/ entered(l) \/ addError(l) \/ leave(l) \/ left(l)

Spec == Init /\ [][Next]_vars

-----------------------------------------------------------------------------
\* "This seems like a fair, binary-compatible way to prevent the problem"
\* (json.cpp:326-329): no loader recurses deeper than the limit.  The parse
\* that another loader starts resets the counter in between.
DepthLimited == \A l \in Loaders : level[l] <= StackLimit
=============================================================================
