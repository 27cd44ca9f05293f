------------------------------ MODULE ListSpec ------------------------------
(***************************************************************************)
(* What linked_list_t promises: a sequence of nodes without repetition.    *)
(***************************************************************************)
EXTENDS Sequences, SequencesExt, Naturals

CONSTANT Node

VARIABLE order

IsOn(n) == \E i \in 1..Len(order) : order[i] = n

Index(n) == CHOOSE i \in 1..Len(order) : order[i] = n

ListInit == order = <<>>

Add(n) == ~IsOn(n) /\ order' = <<n>> \o order

AddPrev(n, m) == ~IsOn(n) /\ IsOn(m) /\ order' = InsertAt(order, Index(m), n)

AddNext(n, m) == ~IsOn(n) /\ IsOn(m) /\ order' = InsertAt(order, Index(m) + 1, n)

Del(n) == IsOn(n) /\ order' = RemoveAt(order, Index(n))

Empty == order' = <<>>

ListNext ==
    \/ Empty
    \/ \E n \in Node :
           \/ Add(n)
           \/ \E m \in Node : AddPrev(n, m) \/ AddNext(n, m)
           \/ Del(n)

ListSpec == ListInit /\ [][ListNext]_order
=============================================================================
