------------------------------ MODULE TaskQueue ------------------------------
(***************************************************************************)
(* What wait_list_t promises the threads that share it: a queue with       *)
(* atomic operations.  A node put on a live list is handed to exactly one  *)
(* getter; get() takes the oldest node; a getter comes back empty-handed   *)
(* only from a list that was flushed (or, for the timed get, after its     *)
(* timeout).  There is no mutex, no condition variable and no signal here: *)
(* module WaitList shows that the code implements this queue with them.    *)
(*                                                                         *)
(* The list is written head first, as in linked_list.hpp: index 1 is       *)
(* _head.next, the last index is _head.prev.                               *)
(***************************************************************************)
EXTENDS Naturals, Sequences, SequencesExt

CONSTANTS Consumers,  \* the threads that get
          Nodes,      \* the intrusive nodes (Worker objects) that are put
          Kinds,      \* the forms of get that are used
          NULL,       \* what a get on a flushed list returns
          NoNode      \* a consumer that has received nothing yet

VARIABLES list,       \* the nodes on the list, head first
          alive,      \* _alive
          lost,       \* the nodes handed to put after flush
          incall,     \* the consumers inside a get
          kind,       \* the form of get each consumer called last
          ret         \* what that call returned

qvars == <<list, alive, lost, incall, kind, ret>>

\* A node its owner may put: on no list, held by no consumer, not lost.
Free(x) == x \notin Range(list) \cup lost \cup Range(ret)

Init ==
    /\ list = <<>>
    /\ alive = TRUE
    /\ lost = {}
    /\ incall = {}
    /\ kind \in [Consumers -> Kinds]
    /\ ret = [c \in Consumers |-> NoNode]

Put(x) ==
    /\ Free(x)
    /\ \/ alive /\ list' = <<x>> \o list /\ UNCHANGED lost
       \/ ~alive /\ lost' = lost \cup {x} /\ UNCHANGED list
    /\ UNCHANGED <<alive, incall, kind, ret>>

Call(c, k) ==
    /\ c \notin incall
    /\ incall' = incall \cup {c}
    /\ kind' = [kind EXCEPT ![c] = k]
    /\ ret' = [ret EXCEPT ![c] = NoNode]
    /\ UNCHANGED <<list, alive, lost>>

\* Oldest node first, except for get_from_head, which takes the newest.
Get(c) ==
    /\ c \in incall
    /\ alive
    /\ list # <<>>
    /\ IF kind[c] = "get_from_head"
       THEN ret' = [ret EXCEPT ![c] = list[1]] /\ list' = Tail(list)
       ELSE ret' = [ret EXCEPT ![c] = list[Len(list)]]
            /\ list' = SubSeq(list, 1, Len(list) - 1)
    /\ incall' = incall \ {c}
    /\ UNCHANGED <<alive, lost, kind>>

GetNull(c) ==
    /\ c \in incall
    /\ ~alive \/ kind[c] = "get_timed"
    /\ ret' = [ret EXCEPT ![c] = NULL]
    /\ incall' = incall \ {c}
    /\ UNCHANGED <<list, alive, lost, kind>>

Flush ==
    /\ alive' = FALSE
    /\ UNCHANGED <<list, lost, incall, kind, ret>>

Next ==
    \/ \E x \in Nodes : Put(x)
    \/ \E c \in Consumers, k \in Kinds : Call(c, k)
    \/ \E c \in Consumers : Get(c) \/ GetNull(c)
    \/ Flush

Spec == Init /\ [][Next]_qvars

=============================================================================
