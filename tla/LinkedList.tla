----------------------------- MODULE LinkedList -----------------------------
(***************************************************************************)
(* linked_list_t of src/src/Worker/linked_list.hpp: a circular doubly      *)
(* linked list threaded through the nodes themselves.  Module WaitList     *)
(* uses it as a sequence; this module shows that the pointers make one.    *)
(*                                                                         *)
(* The callers own the discipline that the class does not check: a node is *)
(* added when it is on no list, and deleted, or used as a neighbour, when  *)
(* it is on this one.  linked records it.  The fields of a node that was   *)
(* never added are uninitialised, so their first values are arbitrary.     *)
(***************************************************************************)
EXTENDS Naturals, FiniteSets

CONSTANTS Node, Root   \* Root is _head

ASSUME LinkedListAssumption == Root \notin Node

VARIABLES next, prev, linked

vars == <<next, prev, linked>>

Cell == Node \cup {Root}

TypeOK ==
    /\ next \in [Cell -> Cell]
    /\ prev \in [Cell -> Cell]
    /\ linked \subseteq Node

Init ==
    /\ next \in {f \in [Cell -> Cell] : f[Root] = Root}
    /\ prev \in {f \in [Cell -> Cell] : f[Root] = Root}
    /\ linked = {}

\* Node n is put between the neighbours p and s.
Between_NoBackLink(n, p, s) ==
    /\ next' = [next EXCEPT ![n] = s, ![p] = n]
    /\ prev' = [prev EXCEPT ![n] = p]

Between(n, p, s) ==
    /\ next' = [next EXCEPT ![n] = s, ![p] = n]
    /\ prev' = [prev EXCEPT ![n] = p, ![s] = n]

add(n) ==
    /\ n \notin linked
    /\ Between(n, Root, next[Root])
    /\ linked' = linked \cup {n}

add_prev(n, m) ==
    /\ n \notin linked
    /\ m \in linked
    /\ Between(n, prev[m], m)
    /\ linked' = linked \cup {n}

add_next(n, m) ==
    /\ n \notin linked
    /\ m \in linked
    /\ Between(n, m, next[m])
    /\ linked' = linked \cup {n}

\* The node's own pointers keep their old values.
del(n) ==
    /\ n \in linked
    /\ next' = [next EXCEPT ![prev[n]] = next[n]]
    /\ prev' = [prev EXCEPT ![next[n]] = prev[n]]
    /\ linked' = linked \ {n}

\* The nodes are forgotten where they are.
empty ==
    /\ next' = [next EXCEPT ![Root] = Root]
    /\ prev' = [prev EXCEPT ![Root] = Root]
    /\ linked' = {}

Next ==
    \/ empty
    \/ \E n \in Node :
           \/ add(n)
           \/ \E m \in Node : add_prev(n, m) \/ add_next(n, m)
           \/ del(n)

Spec == Init /\ [][Next]_vars
-----------------------------------------------------------------------------
(* Properties *)

On == linked \cup {Root}

\* next and prev are inverse to each other on the list, and lead to nothing
\* that is not on it, through every mix of insertions and deletions and in
\* spite of the stale pointers that del leaves behind (linked_list.hpp:47-51).
LinksAgree ==
    \A c \in On : /\ next[c] \in On /\ prev[next[c]] = c
                  /\ prev[c] \in On /\ next[prev[c]] = c

\* The cell n steps after the head.
After[n \in 0..Cardinality(Node)] == IF n = 0 THEN Root ELSE next[After[n - 1]]

Abstract == INSTANCE ListSpec WITH order <- [i \in 1..Cardinality(linked) |-> After[i]]

\* The pointers implement a sequence: add() puts a node in front, add_prev and
\* add_next beside another, del() closes the gap (linked_list.hpp:23-51).
RefinesList == Abstract!ListSpec
=============================================================================
