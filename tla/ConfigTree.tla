----------------------------- MODULE ConfigTree -----------------------------
(***************************************************************************)
(* config_map of src/src/Worker/config_map.hpp as operations on a value.   *)
(*                                                                         *)
(* A section is named by its path, a sequence of keys, the root by <<>>.   *)
(* m.kids[p] is the list that starts at the left pointer of section p: its *)
(* values and subsections, newest first, linked by right.  m.cur is the    *)
(* current section.  enum_value and its position iter are left out, since  *)
(* nothing calls it.                                                       *)
(***************************************************************************)
EXTENDS Integers, Sequences

CONSTANTS Keys,      \* names of sections and of values
          Values,
          MaxDepth,  \* bound: length of a path
          NotFound   \* a get_value that returned -1

ASSUME ConfigTreeAssumption ==
    MaxDepth \in Nat /\ NotFound \notin Values /\ NotFound \notin Keys

Paths == UNION {[1..n -> Keys] : n \in 0..MaxDepth}

Node(type, key, value) == [type |-> type, key |-> key, value |-> value]

Empty == [kids |-> [p \in Paths |-> <<>>], cur |-> <<>>]

\* The nodes of a type with a key in a list; the search stops at the first.
Hits(list, type, key) == {i \in 1..Len(list) : list[i].type = type /\ list[i].key = key}

FirstHit(list, type, key) ==
    LET hits == Hits(list, type, key) IN CHOOSE i \in hits : \A j \in hits : i <= j

AddNode(m, node) == [m EXCEPT !.kids[m.cur] = <<node>> \o @]

\* One component of the path: the section is made if it is not there, even
\* when the caller only wants to read.
EnterSection(m, key) ==
    LET path == Append(m.cur, key)
        found == Hits(m.kids[m.cur], "SECTION", key) # {}
        made == IF found THEN m ELSE AddNode(m, Node("SECTION", key, NotFound))
    IN  [made EXCEPT !.cur = path]

\* The search starts at the root.
set_section(m, path) ==
    LET entered[n \in 0..Len(path)] ==
            IF n = 0 THEN [m EXCEPT !.cur = <<>>] ELSE EnterSection(entered[n - 1], path[n])
    IN  entered[Len(path)]

set_value_Shadowed(m, key, value) ==
    [m EXCEPT !.kids[m.cur] = @ \o <<Node("VALUE", key, value)>>]

set_value(m, key, value) ==
    LET list == m.kids[m.cur] IN
    IF Hits(list, "VALUE", key) = {}
    THEN AddNode(m, Node("VALUE", key, value))
    ELSE [m EXCEPT !.kids[m.cur][FirstHit(list, "VALUE", key)].value = value]

\* What get_value(key) finds in section path.
Lookup(m, path, key) ==
    LET list == m.kids[path] IN
    IF Hits(list, "VALUE", key) = {} THEN NotFound ELSE list[FirstHit(list, "VALUE", key)].value

get_value(m, key) == Lookup(m, m.cur, key)

\* import: a line opens a section, sets a value, or is ignored.
SectionLine(path) == [line |-> "section", path |-> path, key |-> NotFound, value |-> NotFound]
ValueLine(key, value) == [line |-> "value", path |-> <<>>, key |-> key, value |-> value]
IgnoredLine == [line |-> "ignored", path |-> <<>>, key |-> NotFound, value |-> NotFound]

ImportLine(m, l) ==
    CASE l.line = "section" -> set_section(m, l.path)
      [] l.line = "value"   -> set_value(m, l.key, l.value)
      [] l.line = "ignored" -> m

import(lines) ==
    LET imported[n \in 0..Len(lines)] ==
            IF n = 0 THEN Empty ELSE ImportLine(imported[n - 1], lines[n])
    IN  imported[Len(lines)]
=============================================================================
